\* Two goroutines share a client whose proxy URLs may be rejected; panics are
\* recovered.
CONSTANTS
  Goroutine = {g1, g2}
  NoOne = noOne
  Proxy = {noProxy, p1, bad}
  NoProxy = noProxy
  Invalid = {bad}
  WithUser = {p1}
  Option <- Careful
  MayPanic = TRUE
  Operation = {"Do", "DoWithProxy", "SetFollowRedirect"}
  MaxHop = 2
SPECIFICATION FairSpec
INVARIANTS
  CustomRedirectKept
  RoutedAsAsked
PROPERTIES
  ProxyRestored
  ImplementsLoan
  
