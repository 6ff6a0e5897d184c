SPECIFICATION FairSpec
INVARIANTS TypeOK OneOwner FlagsFresh
PROPERTIES ForwardingSpec TransportsInOrder Recycled UpdateDelivered

CONSTANTS
  Nil = Nil
  Main = Main
  Buffers = {b1, b2, b3}
  Goroutines = {g1}
  Arrivals <- MCArrivals
  x = x
  y = y
  Datagrams <- MCDatagrams
  Obfuscates = TRUE
  IsClient = TRUE
  ChanCap = 1
