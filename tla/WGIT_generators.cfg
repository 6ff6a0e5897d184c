SPECIFICATION Spec
INVARIANTS GeneratorsKeyed
CONSTANTS
  Nil = Nil
  c1 = c1
  c2 = c2
  s1 = s1
  MaxIndex = 2
  Senders = {1, 2}
  Clients = {c1}
  Servers = {s1}
  Strangers = {}
  IsClient = FALSE
  Self = Nil
  Obfuscates = FALSE
  Payloads = {d}
  Timeout = 1
  DebugAlwaysGenerateProxyIndex = FALSE
  Traffic = {"initiation", "response"}
  Goroutines = {g1}
  MaxPeers = 2
  MaxTime = 0
  MaxRestarts = 1
  ChanCap = 1
  Config <- MCConfig
  ClientAddrs <- MCOneClientAddr
  ServerAddrs <- MCOneServerAddr
