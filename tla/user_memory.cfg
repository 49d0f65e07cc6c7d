\* Two accounts, two callbacks of one login or of a development session, and
\* two tasks (or a task and a deletion) of whichever sessions there are.
SPECIFICATION Spec
CONSTANTS
  k1 = k1
  k2 = k2
  k3 = k3
  Accounts = {a1, a2}
  Logins = {l1}
  Callbacks = {c1, c2}
  Nobody = Nobody
  None = None
  DevMode = TRUE
  Faults = {"redis", "koompi", "expiry", "database", "crash"}
  Requests = {r1, r2}
  Keys = {k1, k2, k3}
  Learnings <- MCLearnings
  MaxEntries = 1
  ContextSize = 1
SYMMETRY Symmetry
INVARIANTS
  SessionPerLogin
  OwnMemory
  MemoryBounded
PROPERTIES
  MostUsedSurvive
\* Every request is answered and every session over.
CHECK_DEADLOCK FALSE
