\* Two goroutines dial through proxies of every scheme; two connections.
CONSTANTS
  Goroutine = {g1, g2}
  NoOne = noOne
  Proxy <- Proxies
  NoProxy = noProxy
  MaxRaw = 2
SPECIFICATION FairSpec
INVARIANTS
  CacheLockedBriefly
  CachePaired
  Exclusive
  OpenAccounted
PROPERTIES
  TunnelLoss
  HttpDialsReturn
  ImplementsTunnels
