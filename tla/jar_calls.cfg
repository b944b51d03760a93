\* One goroutine, jars of every kind.
CONSTANTS
  Goroutine = {g1}
  Host <- OneHost
  Name = {"a", "b"}
  Value = {"v", ""}
  Empty = ""
  Given <- UpToTwo
  Config <- AnyConfig
  NoCookie = noCookie
  MaxArray = 2
  MaxLen = 4
SPECIFICATION Spec
PROPERTIES
  AliveReturned
  ScanFinds
  ImplementsStore
