\* Two clients that resume sessions, one overwriting server names, with pins
\* that agree; or one client with each profile and each of many JA3 strings.
CONSTANTS
  c1 = c1
  c2 = c2
  c3 = c3
  c4 = c4
  a = a
  sub = sub
  b = b
  k1 = k1
  k2 = k2
  Client = {c1, c2, c3, c4}
  Host <- Hosts
  Above <- Domains
  Cert = {k1, k2}
  Pins <- Agreeing
  NoEntry = noEntry
  NoPin = noPin
  Config <- AnyHello
  NotMade = notMade
  RandomOrder = {c4}
  Orders <- SomeOrders
  NameOf <- Names
  NoName = noName
  Chains <- Shown
  NoTicket = noTicket
  NoHandshake = noHandshake
  MaxProxy <- OneChange
SPECIFICATION Spec
INVARIANTS
  TypeOK
  RefusedWherePinned
  PinnedConns
  TicketsKept
  TestedFingerprints
  ProfilesSound
  
  Ja3Rebuilds
