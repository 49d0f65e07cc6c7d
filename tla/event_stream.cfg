\* One page, its sockets and a cancel request, every failure in scope.
SPECIFICATION FairSpec
CONSTANTS
  Clicks = {c1}
  Others = {}
  MaxSockets = 2
  MaxSteps = 1
  Faults = {"redis", "network", "backend", "timer"}
INVARIANTS
  TypeOK
  VerdictShownIsTrue
  OneSocketAtATime
PROPERTIES
  VerdictStays
  VerdictDelivered
\* The task may be over and the page have shown it.
CHECK_DEADLOCK FALSE
