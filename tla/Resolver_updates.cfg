SPECIFICATION FairSpec
INVARIANTS LatestFound
PROPERTIES Converges
CONSTANTS
  Nil = Nil
  h1 = h1
  h2 = h2
  ip1 = ip1
  ip2 = ip2
  Server = server
  Hosts = {h1, h2}
  IPs = {ip1, ip2}
  Times = {1, 2}
  Options <- MCOptions
  Zones <- MCZones
