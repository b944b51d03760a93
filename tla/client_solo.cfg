\* One goroutine, every method, a proxy URL that is rejected.
CONSTANTS
  Goroutine = {g1}
  NoOne = noOne
  Proxy = {noProxy, p1, bad}
  NoProxy = noProxy
  Invalid = {bad}
  WithUser = {p1}
  Option <- AnyOption
  MayPanic = TRUE
  Operation <- AllOperations
  MaxHop = 2
SPECIFICATION Spec
INVARIANTS
  RedirectPolicy
PROPERTIES
  AllOrNothing
CHECK_DEADLOCK FALSE
