\* Two goroutines.
CONSTANTS
  Goroutine = {g1, g2}
  Host <- Hosts
  Name = {"a", "b", "c"}
  Value = {"v", "x", ""}
  Empty = ""
  Given <- Responses
  Config <- Default
  NoCookie = noCookie
  MaxArray = 2
  MaxLen = 5
SYMMETRY Symmetry
SPECIFICATION Spec
INVARIANTS
  DeletedNeverShown
  OneCookiePerName
PROPERTIES
  ImplementsLossyStore
