\* Two goroutines, an HTTP/1.1 and an HTTP/2 server, https URLs only, a dialer
\* that may panic.  A panic leaves a mutex locked for good, so the system may stop.
CONSTANTS
  Goroutine = {g1, g2}
  NoOne = noOne
  Host = {"a", "b"}
  Port <- Ports
  NoPort = noPort
  URL <- HttpsURLs
  NoURL = noURL
  Ascii <- SameName
  Alpn <- H2OnB
  Pinned <- AllHosts
  MaxConn = 3
  ForceHttp1 = FALSE
  DialerMayPanic = TRUE
  CatchPanics = TRUE
SYMMETRY Symmetry
SPECIFICATION Spec
INVARIANTS
  ProbeAgreement
  RaceFree
  ExclusiveConn
  ProtocolAgrees
  ConnAccounted
  PinFailedUnused
  HandlerUnlocked
PROPERTIES
  ProbeReportsBadPin
  ImplementsLife
CHECK_DEADLOCK FALSE
