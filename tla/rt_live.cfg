\* http and https URLs that share an address, an unknown scheme, an HTTP/1.1 and
\* an HTTP/3 server: every request returns.
CONSTANTS
  Goroutine = {g1, g2}
  NoOne = noOne
  Host = {"a", "b"}
  Port <- Ports
  NoPort = noPort
  URL <- MixedURLs
  NoURL = noURL
  Ascii <- SameName
  Alpn <- H3OnB
  Pinned <- AllHosts
  MaxConn = 2
  ForceHttp1 = FALSE
  DialerMayPanic = FALSE
  CatchPanics = FALSE
SPECIFICATION FairSpec
PROPERTIES
  TransportsWriteOnce
  EveryRequestReturns
