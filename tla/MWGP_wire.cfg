SPECIFICATION Spec
INVARIANTS    SignedEndToEnd
CONSTANTS
  Nil = Nil
  c1 = c1
  s1 = s1
  MaxIndex = 2
  ClientSenders <- MCClientSenders
  ServerSenders <- MCServerSenders
  ClientKey = c1
  ServerKey = s1
  ClientAddr <- MCClientAddr
  ProxyAddr <- MCProxyAddr
  ListenAddr <- MCListenAddr
  ServerAddr <- MCServerAddr
  Goroutines = {g1}
  MaxHandshakes = 2
  MaxPeers = 2
  MaxRestarts = 1
  ChanCap = 1
  MaxActive = 2
  Capped = TRUE
CHECK_DEADLOCK FALSE

