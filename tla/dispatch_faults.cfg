\* Sandbox errors, panics and failing statements, over all kinds of plans.
SPECIFICATION FairSpec
CONSTANTS
  Plans <- SomePlans
  MaxAttempts = 2
  Faults = {"sandbox", "panic", "database"}
INVARIANTS
  TypeOK
  DependenciesRanFirst
  RoundsAreJoined
  NothingSkipped
  RowsTellOutcome
  VerdictsTruthful
  BlockedByFailureIfAcyclic
PROPERTIES
  SettledOnce
  ExecutionEnds
  ImplementsPlanExecution
\* An execution stops when it has an outcome.
CHECK_DEADLOCK FALSE
