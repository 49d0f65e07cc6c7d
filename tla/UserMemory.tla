------------------------------ MODULE UserMemory ------------------------------
(***************************************************************************)
(* What is learnt from the tasks of a user and kept for the next ones.  A  *)
(* request of a session (api.rs) creates a task for the session's user, or *)
(* deletes a memory.  The task's execution reads the user's memories       *)
(* before it plans and, once completed, stores what the LLM found worth    *)
(* keeping, one item at a time, then prunes (orchestrator.rs, db.rs).      *)
(* Executions of several workers do so at the same time.  What happens     *)
(* between the two is StepDispatch's and TaskLifecycle's.                  *)
(***************************************************************************)
EXTENDS AuthSession, Sequences

CONSTANTS
  Requests,     \* requests of signed-in pages, and the tasks they create
  Keys,         \* category and key of a memory
  Learnings,    \* the items an LLM may find in a task: sequences of keys
  MaxEntries,   \* 200: what a prune leaves
  ContextSize   \* 50: what an execution reads

MemoryFaults == {"database", "crash"}

ASSUME MaxEntriesAssumption == MaxEntries \in Nat /\ ContextSize \in Nat
ASSUME LearningsAssumption == Learnings \subseteq Seq(Keys \cup {None})
ASSUME FaultsAssumption == Faults \subseteq AuthFaults \cup MemoryFaults

VARIABLES
  memory,       \* user_memory: its rows
  now,          \* the time of the last upsert
  job           \* each request, and the task it has created

vars == <<authVars, memory, now, job>>

\* A row; its value tells the account of the task it was learnt from.
Row(user, key, value, count, at) ==
  [user |-> user, key |-> key, value |-> value, access_count |-> count,
   updated_at |-> at]

RowsOf(user) == {row \in memory : row.user = user}
RowsAt(user, key) == {row \in memory : row.user = user /\ row.key = key}

Init ==
  /\ AuthInit
  /\ memory = {}
  /\ now = 0
  /\ job = [r \in Requests |->
              [phase |-> "none", user |-> None, account |-> None, deletes |-> None,
               context |-> {}, items |-> <<>>, stored |-> {}]]

-----------------------------------------------------------------------------
(* Requests.                                                               *)

\* The extractor of a handler: the user is what the session says now.
Authenticate(r, c, key) ==
  /\ job[r].phase = "none" /\ Authenticated(c)
  /\ job' = [job EXCEPT ![r].phase = "accepted", ![r].user = session[c],
                        ![r].account = exchange[c].account, ![r].deletes = key]
  /\ UNCHANGED <<authVars, memory, now>>

\* get_all_user_memories: ORDER BY updated_at DESC LIMIT ContextSize.
Recent(user) ==
  {row \in RowsOf(user) :
     Cardinality({other \in RowsOf(user) : other.updated_at > row.updated_at})
       < ContextSize}

\* create_task; that it is enqueued, or is not, is TaskLifecycle's.  The
\* execution begins with the memories its planner is told: none, when they
\* cannot be read.
Start(r) ==
  /\ job[r].phase = "accepted" /\ job[r].deletes = None
  /\ \E rows \in {Recent(job[r].user), {}} :
       /\ rows = Recent(job[r].user) \/ "database" \in Faults
       /\ job' = [job EXCEPT ![r].phase = "running",
                             ![r].context = {row.value : row \in rows}]
  /\ UNCHANGED <<authVars, memory, now>>

\* DELETE /api/memory/{category}/{key}.
Delete(r) ==
  /\ job[r].phase = "accepted" /\ job[r].deletes # None
  /\ memory' = memory \ RowsAt(job[r].user, job[r].deletes)
  /\ job' = [job EXCEPT ![r].phase = "over"]
  /\ UNCHANGED <<authVars, now>>

-----------------------------------------------------------------------------
(* extract_learnings.                                                      *)

\* The LLM's answer; one that is no JSON array holds no item.
Learn(r, items) ==
  /\ job[r].phase = "running"
  /\ job' = [job EXCEPT ![r].phase = IF items = <<>> THEN "over" ELSE "storing",
                        ![r].items = items]
  /\ UNCHANGED <<authVars, memory, now>>

\* Mutant: the conflict of an upsert is on the key alone.
Upsert_anyone(user, account, key) ==
  LET old == {row \in memory : row.key = key}
      owner == IF old = {} THEN user ELSE (CHOOSE row \in old : TRUE).user
  IN  (memory \ old) \cup {Row(owner, key, account, 1, now')}

\* set_user_memory: a row that is there takes the value and the time, and is
\* used once more.
Upsert(user, account, key) ==
  LET old == RowsAt(user, key)
      count == IF old = {} THEN 1 ELSE 1 + (CHOOSE row \in old : TRUE).access_count
  IN  (memory \ old) \cup {Row(user, key, account, count, now')}

\* The next item; one without a key is skipped.
Remember(r) ==
  /\ job[r].phase = "storing" /\ job[r].items # <<>>
  /\ LET key == Head(job[r].items)
     IN  IF key = None
           THEN /\ job' = [job EXCEPT ![r].items = Tail(@)]
                /\ UNCHANGED <<memory, now>>
           ELSE /\ now' = now + 1
                /\ memory' = Upsert(job[r].user, job[r].account, key)
                /\ job' = [job EXCEPT ![r].items = Tail(@),
                                      ![r].stored = @ \cup {key}]
  /\ UNCHANGED authVars

\* ORDER BY access_count DESC, updated_at DESC.
Ahead(x, y) ==
  \/ x.access_count > y.access_count
  \/ x.access_count = y.access_count /\ x.updated_at > y.updated_at

\* Mutant: OFFSET counts from one.
Kept_offset(rows) ==
  {row \in rows : Cardinality({x \in rows : Ahead(x, row)}) <= MaxEntries}

\* Mutant: the rows are ordered by their age alone.
Kept_latest(rows) ==
  {row \in rows :
     Cardinality({x \in rows : x.updated_at > row.updated_at}) < MaxEntries}

\* The rows before OFFSET MaxEntries.
Kept(rows) ==
  {row \in rows : Cardinality({x \in rows : Ahead(x, row)}) < MaxEntries}

\* prune_user_memories, after the last item.
Prune(r) ==
  /\ job[r].phase = "storing" /\ job[r].items = <<>>
  /\ LET rows == RowsOf(job[r].user)
     IN  memory' = (memory \ rows) \cup Kept(rows)
  /\ job' = [job EXCEPT ![r].phase = "over"]
  /\ UNCHANGED <<authVars, now>>

\* A statement fails, which leaves the rest out, or the backend is gone.
Abandon(r) ==
  /\ Faults \cap MemoryFaults # {}
  /\ job[r].phase = "storing"
  /\ job' = [job EXCEPT ![r].phase = "abandoned"]
  /\ UNCHANGED <<authVars, memory, now>>

MemoryNext ==
  \E r \in Requests :
    \/ \E c \in Callbacks, key \in Keys \cup {None} : Authenticate(r, c, key)
    \/ Start(r) \/ Delete(r)
    \/ \E items \in Learnings : Learn(r, items)
    \/ Remember(r) \/ Prune(r) \/ Abandon(r)

Next ==
  \/ AuthNext /\ UNCHANGED <<memory, now, job>>
  \/ MemoryNext

Spec == Init /\ [][Next]_vars

-----------------------------------------------------------------------------
(* Properties.                                                             *)

Jobs ==
  [phase : {"none", "accepted", "running", "storing", "over", "abandoned"},
   user : UserIds \cup {None}, account : Accounts \cup Callbacks \cup {None},
   deletes : Keys \cup {None}, context : SUBSET (Accounts \cup Callbacks),
   items : Seq(Keys \cup {None}), stored : SUBSET Keys]

Rows == [user : UserIds, key : Keys, value : Accounts \cup Callbacks,
         access_count : Nat \ {0}, updated_at : Nat]

TypeOK ==
  /\ AuthTypeOK
  /\ memory \subseteq Rows
  /\ now \in Nat
  /\ job \in [Requests -> Jobs]

\* What is kept for an account, and told to the planner of its tasks, was
\* learnt from its own tasks.  The user "" is nobody's: whoever KOOMPI did
\* not name shares its memories.
OwnMemory ==
  /\ \A row \in memory : row.user \in {row.value, Nobody}
  /\ \A r \in Requests :
       job[r].user # Nobody => job[r].context \subseteq {job[r].account}

\* What extractions have stored for user u and not come to prune.
Unpruned(u) ==
  UNION {job[r].stored : r \in {s \in Requests :
    job[s].user = u /\ job[s].phase \in {"storing", "abandoned"}}}

\* A user's memories exceed the limit by what extractions that are at work,
\* or have failed, have stored, and by no more.
MemoryBounded ==
  \A u \in UserIds : Cardinality(RowsOf(u)) <= MaxEntries + Cardinality(Unpruned(u))

Deletes(r, row) ==
  /\ job[r].phase = "accepted"
  /\ job[r].user = row.user /\ job[r].deletes = row.key

\* Between the user's deletions, a memory is lost only to a full store, and
\* only to memories that were upserted more often, or as often and the last
\* time later.
MostUsedSurvive ==
  [][\A row \in memory :
       \/ \E new \in memory' : new.user = row.user /\ new.key = row.key
       \/ \E r \in Requests : Deletes(r, row) /\ job'[r].phase = "over"
       \/ LET left == {new \in memory' : new.user = row.user}
          IN  /\ Cardinality(left) = MaxEntries
              /\ \A new \in left :
                   \/ new.access_count > row.access_count
                   \/ /\ new.access_count = row.access_count
                      /\ new.updated_at > row.updated_at]_vars

=============================================================================
