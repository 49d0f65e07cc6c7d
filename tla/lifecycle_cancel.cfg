\* Two cancel requests at any moment, no failures.
SPECIFICATION FairSpec
CONSTANTS
  NoTask = NoTask
  Tasks = {t1}
  Instances = {a, b}
  Requests = {c1, c2}
  Faults = {}
INVARIANTS
  TokenIsOfTheExecution
  NoneStranded
PROPERTIES
  EveryTaskEnds
\* All the tasks may be done and the users ask for nothing more.
CHECK_DEADLOCK FALSE
