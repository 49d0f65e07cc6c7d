\* Two steps, two replenish jobs at a time, every failure in scope.
SPECIFICATION Spec
CONSTANTS
  Containers = {k1, k2, k3}
  Users = {u1, u2}
  Jobs = {j1, j2}
  NoBox = NoBox
  Target = 2
  Faults = {"docker", "exec", "tool", "death", "abort"}
SYMMETRY Symmetry
INVARIANTS
  TypeOK
  Exclusive
  OnlyStartedServed
  CleanUnlessStrayed
  PopulationBounded
PROPERTIES
  LostOnlyByFailure
\* The containers of the instance may all be used up.
CHECK_DEADLOCK FALSE
