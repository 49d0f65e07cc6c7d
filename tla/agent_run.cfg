\* Two turns, one level of delegation, answers of up to two calls.
SPECIFICATION FairSpec
CONSTANTS
  MaxTurns = 2
  MaxDepth = 1
  MaxRetries = 1
  MaxCalls = 2
  Faults = {"status", "transport", "database"}
INVARIANTS
  TypeOK
  ConversationsWellFormed
  FailsByItsOwnRequest
  TracesFollowConversation
PROPERTIES
  AttemptEnds
\* The attempt ends.
CHECK_DEADLOCK FALSE
