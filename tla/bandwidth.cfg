\* One connection, two goroutines that ask for the total or reset it.
CONSTANTS
  Conn = {k1}
  Caller = {g1, g2}
  MaxChunk = 2
  MaxBytes = 3
SYMMETRY Symmetry
SPECIFICATION Spec
INVARIANTS
  TotalBounded
