\* Every failure in scope and two cancel requests: what holds of the task, its
\* executions and its verdicts all the same.
SPECIFICATION Spec
CONSTANTS
  NoTask = NoTask
  Tasks = {t1}
  Instances = {a, b}
  Requests = {c1, c2}
  Faults = {"database", "redis", "llm", "panic", "crash"}
SYMMETRY Symmetry
INVARIANTS
  TypeOK
  WorkedOnOnce
  VerdictWasStored
  SignalReachesExecution
PROPERTIES
  FinalRowKept
  ImplementsTaskVerdict
\* The task may be done and the users ask for nothing more.
CHECK_DEADLOCK FALSE
