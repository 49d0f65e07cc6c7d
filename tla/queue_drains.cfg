\* One worker, every failure in scope: the queue drains.
SPECIFICATION FairSpec
CONSTANTS
  NoTask = NoTask
  Tasks = {t1, t2}
  Instances = {a}
  Requests = {}
  Faults = {"database", "redis", "llm", "panic", "crash"}
PROPERTIES
  QueueDrains
\* All the tasks may be done and the users ask for nothing more.
CHECK_DEADLOCK FALSE
