\* What a cancelled request promises.
SPECIFICATION Spec
CONSTANTS
  NoTask = NoTask
  Tasks = {t1}
  Instances = {a}
  Requests = {c1}
  Faults = {}
INVARIANTS
  CancelSticks
\* All the tasks may be done and the users ask for nothing more.
CHECK_DEADLOCK FALSE
