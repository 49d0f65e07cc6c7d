\* What release promises, without any failure.
SPECIFICATION Spec
CONSTANTS
  Containers = {k1, k2}
  Users = {u1}
  Jobs = {j1}
  NoBox = NoBox
  Target = 1
  Faults = {}
INVARIANTS
  PoolIsClean
\* The containers of the instance may all be used up.
CHECK_DEADLOCK FALSE
