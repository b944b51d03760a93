\* An HTTP/2 server that never finishes a handshake.
CONSTANTS
  Goroutine = {g1, g2}
  NoOne = noOne
  Host = {"b"}
  Port <- Ports
  NoPort = noPort
  URL <- HttpsURLs
  NoURL = noURL
  Ascii <- SameName
  Alpn <- H2OnB
  Pinned <- AllHosts
  MaxConn = 2
  ForceHttp1 = FALSE
  DialerMayPanic = FALSE
  CatchPanics = FALSE
SPECIFICATION FairSpec
PROPERTIES
  EveryRequestReturns
