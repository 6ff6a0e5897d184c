SPECIFICATION Spec
INVARIANTS TableKeyed MACsFixed
PROPERTIES RoamingAllowed
CONSTANTS
  Nil = Nil
  c1 = c1
  c2 = c2
  s1 = s1
  MaxIndex = 1
  Senders = {0, 1}
  Clients = {c1, c2}
  Servers = {s1}
  Strangers = {}
  IsClient = FALSE
  Self = Nil
  Obfuscates = TRUE
  Payloads = {d}
  Timeout = 1
  DebugAlwaysGenerateProxyIndex = FALSE
  Traffic = {"initiation", "response", "cookie", "transport", "other"}
  Goroutines = {g1}
  MaxPeers = 1
  MaxTime = 0
  MaxRestarts = 0
  ChanCap = 1
  Config <- MCRoamConfig
  ClientAddrs <- MCClientAddrs
  ServerAddrs <- MCOneServerAddr
