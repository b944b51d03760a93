\* Two clients whose pins of one host disagree.
CONSTANTS
  c1 = c1
  c2 = c2
  c3 = c3
  c4 = c4
  a = a
  sub = sub
  b = b
  k1 = k1
  k2 = k2
  Client = {c1, c2, c3, c4}
  Host <- Hosts
  Above <- Domains
  Cert = {k1, k2}
  Pins <- Disagreeing
  NoEntry = noEntry
  NoPin = noPin
  Config <- OnlyTwo
  NotMade = notMade
  RandomOrder = {c4}
  Orders <- SomeOrders
  NameOf <- Names
  NoName = noName
  Chains <- Shown
  NoTicket = noTicket
  NoHandshake = noHandshake
  MaxProxy <- OneChange
SPECIFICATION Spec
INVARIANTS
  PinnedConns
