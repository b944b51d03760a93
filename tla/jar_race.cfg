\* Two goroutines filter one slice at the same time.
CONSTANTS
  Goroutine = {g1, g2}
  Host <- OneHost
  Name = {"a", "b", "c"}
  Value = {"v", "x", ""}
  Empty = ""
  Given <- Responses
  Config <- Default
  NoCookie = noCookie
  MaxArray = 2
  MaxLen = 4
SYMMETRY Symmetry
SPECIFICATION Spec
PROPERTIES
  AliveReturned
