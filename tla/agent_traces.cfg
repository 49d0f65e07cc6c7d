\* What the README promises of the traces, without any failure.
SPECIFICATION Spec
CONSTANTS
  MaxTurns = 2
  MaxDepth = 1
  MaxRetries = 1
  MaxCalls = 1
  Faults = {}
INVARIANTS
  EveryThoughtTraced
\* The attempt ends.
CHECK_DEADLOCK FALSE
