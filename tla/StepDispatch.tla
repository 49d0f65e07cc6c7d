---------------------------- MODULE StepDispatch ----------------------------
(***************************************************************************)
(* One execution of one task's plan: the dispatch loop of                  *)
(* Orchestrator::execute_task_inner (backend/src/orchestrator.rs) and the  *)
(* futures it spawns into a JoinSet, each of which acquires a sandbox      *)
(* container, runs Orchestrator::execute_single_step and releases the      *)
(* container.  The dispatcher owns `completed` and `failed`; a step's      *)
(* future owns its attempt counter and its container; both write the       *)
(* step's row in the database.  Every action ends at an .await of the      *)
(* code, so that the dispatcher, the futures, the cancel handler and the   *)
(* 30 minute timer interleave as the async runtime may interleave them.    *)
(***************************************************************************)
EXTENDS Naturals, FiniteSets

CONSTANTS
  Plans,        \* the plans the LLM may return; a plan maps each step's
                \* index to the indices its "depends_on" lists
  MaxAttempts,  \* MAX_ATTEMPTS of execute_single_step (3 in the code)
  Faults        \* the failures of the environment that are in scope

FaultKinds == {"sandbox",   \* SandboxManager::acquire returns an error
               "panic",     \* a spawned future panics
               "database"}  \* a statement sent to PostgreSQL fails

\* A plan of n steps has the indices 0 .. n-1.  What "depends_on" lists is
\* the LLM's: any naturals, the step itself and indices of no step included.
ASSUME PlansAssumption ==
  \A p \in Plans : /\ IsFiniteSet(DOMAIN p)
                   /\ DOMAIN p = 0 .. (Cardinality(DOMAIN p) - 1)
                   /\ p \in [DOMAIN p -> SUBSET Nat]

ASSUME AttemptsAssumption == MaxAttempts \in Nat \ {0}

ASSUME FaultsAssumption == Faults \subseteq FaultKinds

VARIABLES
  deps,        \* the dependency graph of the plan being executed
  token,       \* has the task's CancellationToken been cancelled?
  pc,          \* where the dispatcher is, or how the execution ended
  batch,       \* the `ready` vector of the round under way
  completed,   \* HashSet of completed step indices
  failed,      \* HashSet of failed step indices
  thread,      \* where the future of each step is
  attempt,     \* the loop variable of each step's retry loop
  result,      \* what each step's future returned
  rowStatus,   \* task_steps.status of each step
  verdicts,    \* the step_completed / step_failed events published for it
  held         \* the steps whose container has not gone back to the pool

vars == <<deps, token, pc, batch, completed, failed, thread, attempt,
          result, rowStatus, verdicts, held>>

Steps == DOMAIN deps

Outcomes == {"cancelled",    \* Ok(()) from the loop head
             "allFailed",    \* Err("All steps failed")
             "synthesize",   \* goes on to synthesize_result
             "timedOut"}     \* the future was dropped by the 30 minute timer

InStep == {"enter", "attempt", "agent", "exhausted", "store", "publish"}

InFlight == InStep \cup {"acquire", "release", "finished"}

ThreadStates == InFlight \cup {"idle", "joined", "aborted"}

Results == {"none", "ok", "error", "noSandbox", "panicked"}

RowStates == {"pending", "running", "completed", "failed"}

Settled == completed \cup failed

\* Steps that failed without having been spawned: the "Blocked" ones.
Blocked == {i \in failed : thread[i] = "idle"}

\* The future of i was lost to a sandbox error or to a panic, and the
\* dispatcher knows that its batch lost one.
Lost(i) == thread[i] = "joined" /\ result[i] \in {"noSandbox", "panicked"}

BatchBroken == \E i \in Steps : Lost(i)

-----------------------------------------------------------------------------

\* Rows were created Pending by create_task_step, one per plan step, before
\* the loop starts.  The token may have been cancelled during planning.
Init ==
  /\ deps \in Plans
  /\ token \in BOOLEAN
  /\ pc = "head"
  /\ batch = {}
  /\ completed = {}
  /\ failed = {}
  /\ thread = [i \in Steps |-> "idle"]
  /\ attempt = [i \in Steps |-> 0]
  /\ result = [i \in Steps |-> "none"]
  /\ rowStatus = [i \in Steps |-> "pending"]
  /\ verdicts = [i \in Steps |-> {}]
  /\ held = {}

-----------------------------------------------------------------------------
(* The dispatcher.                                                         *)

\* Mutant: the count stops one step early.
LoopContinues_short ==
  Cardinality(completed) + Cardinality(failed) + 1 < Cardinality(Steps)

LoopContinues ==
  Cardinality(completed) + Cardinality(failed) < Cardinality(Steps)

\* Mutants: a step may run beside its dependencies; a failed step is spawned
\* again; the plan's indices are taken to start at 1.
Ready_unordered == {i \in Steps : i \notin Settled /\ deps[i] \cap failed = {}}

Ready_again == {i \in Steps : i \notin completed /\ deps[i] \subseteq completed}

Ready_fromOne == {i \in Steps \ {0} : /\ i \notin Settled
                                      /\ deps[i] \subseteq completed}

Ready == {i \in Steps : /\ i \notin Settled
                        /\ deps[i] \cap failed = {}
                        /\ deps[i] \subseteq completed}

\* The loop head sees the cancelled token: Ok(()) at once.
StopCancelled ==
  /\ pc = "head" /\ LoopContinues /\ token
  /\ pc' = "cancelled"
  /\ UNCHANGED <<deps, token, batch, completed, failed, thread, attempt,
                 result, rowStatus, verdicts, held>>

\* Status writes whose error the code drops (`let _ = ...`): every row of S
\* is set to Failed, except those whose statement fails.
MarkRowsFailed(S) ==
  \E lost \in SUBSET S :
    /\ lost # {} => "database" \in Faults
    /\ rowStatus' = [i \in Steps |-> IF i \in S \ lost THEN "failed"
                                                       ELSE rowStatus[i]]

\* Some remaining step can run: spawn all that can, into one JoinSet.
Spawn ==
  /\ pc = "head" /\ LoopContinues /\ ~token
  /\ Ready # {}
  /\ batch' = Ready
  /\ thread' = [i \in Steps |-> IF i \in Ready THEN "acquire" ELSE thread[i]]
  /\ pc' = "collect"
  /\ UNCHANGED <<deps, token, completed, failed, attempt, result, rowStatus,
                 verdicts, held>>

\* Mutant: only steps with a failed dependency are marked, and the loop goes on.
BlockRemaining_direct ==
  /\ pc = "head" /\ LoopContinues /\ ~token
  /\ Ready = {}
  /\ LET blocked == {i \in Steps \ Settled : deps[i] \cap failed # {}}
     IN  /\ failed' = failed \cup blocked
         /\ MarkRowsFailed(blocked)
         /\ verdicts' = [i \in Steps |->
                           IF i \in blocked THEN verdicts[i] \cup {"failed"}
                                            ELSE verdicts[i]]
  /\ UNCHANGED <<deps, token, pc, batch, completed, thread, attempt, result,
                 held>>

\* None can: all that remain are failed as blocked, and the loop breaks.
BlockRemaining ==
  /\ pc = "head" /\ LoopContinues /\ ~token
  /\ Ready = {}
  /\ LET remaining == Steps \ Settled
     IN  /\ failed' = failed \cup remaining
         /\ MarkRowsFailed(remaining)
         /\ verdicts' = [i \in Steps |->
                           IF i \in remaining THEN verdicts[i] \cup {"failed"}
                                              ELSE verdicts[i]]
  /\ pc' = "after"
  /\ UNCHANGED <<deps, token, batch, completed, thread, attempt, result, held>>

ExitLoop ==
  /\ pc = "head" /\ ~LoopContinues
  /\ pc' = "after"
  /\ UNCHANGED <<deps, token, batch, completed, failed, thread, attempt,
                 result, rowStatus, verdicts, held>>

\* join_next: the future of i has finished and is taken out of the JoinSet.
Join(i) ==
  /\ pc = "collect" /\ i \in batch
  /\ thread[i] = "finished"
  /\ thread' = [thread EXCEPT ![i] = "joined"]

JoinCompleted(i) ==
  /\ Join(i) /\ result[i] = "ok"
  /\ completed' = completed \cup {i}
  /\ UNCHANGED <<deps, token, pc, batch, failed, attempt, result, rowStatus,
                 verdicts, held>>

JoinFailed(i) ==
  /\ Join(i) /\ result[i] = "error"
  /\ failed' = failed \cup {i}
  /\ UNCHANGED <<deps, token, pc, batch, completed, attempt, result,
                 rowStatus, verdicts, held>>

\* Mutant: the steps of the batch that are settled already are failed too.
JoinBroken_settled(i) ==
  /\ Join(i) /\ result[i] \in {"noSandbox", "panicked"}
  /\ failed' = failed \cup batch
  /\ MarkRowsFailed(batch)
  /\ verdicts' = [j \in Steps |-> IF j \in batch THEN verdicts[j] \cup {"failed"}
                                                ELSE verdicts[j]]
  /\ UNCHANGED <<deps, token, pc, batch, completed, attempt, result, held>>

\* A sandbox error or a panic: neither says which step it was, so the whole
\* batch is failed except what is settled, while its other futures run on.
\* (The code marks one step after another; a step's own moves commute with
\* the marking of the others, so one action has the same effects.)
JoinBroken(i) ==
  /\ Join(i) /\ result[i] \in {"noSandbox", "panicked"}
  /\ LET abandoned == batch \ Settled
     IN  /\ failed' = failed \cup abandoned
         /\ MarkRowsFailed(abandoned)
         /\ verdicts' = [j \in Steps |->
                           IF j \in abandoned THEN verdicts[j] \cup {"failed"}
                                              ELSE verdicts[j]]
  /\ UNCHANGED <<deps, token, pc, batch, completed, attempt, result, held>>

\* Mutant: the next round starts as soon as one future was joined.
EndRound_any ==
  /\ pc = "collect"
  /\ \E i \in batch : thread[i] = "joined"
  /\ pc' = "head"
  /\ UNCHANGED <<deps, token, batch, completed, failed, thread, attempt,
                 result, rowStatus, verdicts, held>>

\* join_next returned None: next round.
EndRound ==
  /\ pc = "collect"
  /\ \A i \in batch : thread[i] = "joined"
  /\ pc' = "head"
  /\ UNCHANGED <<deps, token, batch, completed, failed, thread, attempt,
                 result, rowStatus, verdicts, held>>

Conclude ==
  /\ pc = "after"
  /\ pc' = IF completed = {} THEN "allFailed" ELSE "synthesize"
  /\ UNCHANGED <<deps, token, batch, completed, failed, thread, attempt,
                 result, rowStatus, verdicts, held>>

-----------------------------------------------------------------------------
(* The future of step i.                                                   *)

dispatcherVars == <<deps, token, pc, batch, completed, failed>>

Goto(i, from, to) ==
  /\ thread[i] = from
  /\ thread' = [thread EXCEPT ![i] = to]

\* execute_single_step returns r; the container is released next.
Return(i, from, r) ==
  /\ Goto(i, from, "release")
  /\ result' = [result EXCEPT ![i] = r]

SetRow(i, status) == rowStatus' = [rowStatus EXCEPT ![i] = status]

Acquire(i) ==
  /\ Goto(i, "acquire", "enter")
  /\ held' = held \cup {i}
  /\ UNCHANGED <<dispatcherVars, attempt, result, rowStatus, verdicts>>

AcquireFails(i) ==
  /\ "sandbox" \in Faults
  /\ Goto(i, "acquire", "finished")
  /\ result' = [result EXCEPT ![i] = "noSandbox"]
  /\ UNCHANGED <<dispatcherVars, attempt, rowStatus, verdicts, held>>

\* step_started, then the row becomes Running.  Every agent a plan can name
\* resolves, to `code` at the least, so the lookup's failure is not reached.
EnterStep(i) ==
  /\ ~token
  /\ Goto(i, "enter", "attempt")
  /\ SetRow(i, "running")
  /\ UNCHANGED <<dispatcherVars, attempt, result, verdicts, held>>

\* A `?` on a statement that failed: return the error, the row unchanged.
StatementFails(i, from) ==
  /\ "database" \in Faults
  /\ Return(i, from, "error")
  /\ UNCHANGED <<dispatcherVars, attempt, rowStatus, verdicts, held>>

DatabaseError(i) ==
  \E from \in {"enter", "exhausted", "store", "publish"} : StatementFails(i, from)

\* Checked on entry and before each attempt: neither writes the row.
SeeCancelled(i) ==
  /\ token
  /\ \E from \in {"enter", "attempt"} : Return(i, from, "error")
  /\ UNCHANGED <<dispatcherVars, attempt, rowStatus, verdicts, held>>

BeginAttempt(i) ==
  /\ ~token
  /\ Goto(i, "attempt", "agent")
  /\ UNCHANGED <<dispatcherVars, attempt, result, rowStatus, verdicts, held>>

AgentSucceeds(i) ==
  /\ Goto(i, "agent", "store")
  /\ UNCHANGED <<dispatcherVars, attempt, result, rowStatus, verdicts, held>>

\* Mutants: one attempt too many, one too few.
AgentFails_late(i) ==
  /\ attempt' = [attempt EXCEPT ![i] = attempt[i] + 1]
  /\ Goto(i, "agent", IF attempt[i] < MaxAttempts THEN "attempt"
                                                  ELSE "exhausted")
  /\ UNCHANGED <<dispatcherVars, result, rowStatus, verdicts, held>>

AgentFails_early(i) ==
  /\ attempt' = [attempt EXCEPT ![i] = attempt[i] + 1]
  /\ Goto(i, "agent", IF attempt[i] + 1 < MaxAttempts - 1 THEN "attempt"
                                                          ELSE "exhausted")
  /\ UNCHANGED <<dispatcherVars, result, rowStatus, verdicts, held>>

\* The error is stored; unless this was the last attempt, retry_count and
\* the reflection are too, and the loop goes round.
AgentFails(i) ==
  /\ attempt' = [attempt EXCEPT ![i] = attempt[i] + 1]
  /\ Goto(i, "agent", IF attempt[i] < MaxAttempts - 1 THEN "attempt"
                                                      ELSE "exhausted")
  /\ UNCHANGED <<dispatcherVars, result, rowStatus, verdicts, held>>

GiveUp(i) ==
  /\ Return(i, "exhausted", "error")
  /\ SetRow(i, "failed")
  /\ verdicts' = [verdicts EXCEPT ![i] = verdicts[i] \cup {"failed"}]
  /\ UNCHANGED <<dispatcherVars, attempt, held>>

\* Mutant: the error of the statement is dropped.
StoreCompleted_unchecked(i) ==
  /\ Goto(i, "store", "publish")
  /\ "database" \in Faults => UNCHANGED rowStatus
  /\ "database" \notin Faults => SetRow(i, "completed")
  /\ verdicts' = [verdicts EXCEPT ![i] = verdicts[i] \cup {"completed"}]
  /\ UNCHANGED <<dispatcherVars, attempt, result, held>>

StoreCompleted(i) ==
  /\ Goto(i, "store", "publish")
  /\ SetRow(i, "completed")
  /\ verdicts' = [verdicts EXCEPT ![i] = verdicts[i] \cup {"completed"}]
  /\ UNCHANGED <<dispatcherVars, attempt, result, held>>

\* add_task_event and set_memory, both with `?`; then Ok.
ReturnOutput(i) ==
  /\ Return(i, "publish", "ok")
  /\ UNCHANGED <<dispatcherVars, attempt, rowStatus, verdicts, held>>

\* Whatever release does with the container, this future is rid of it.
Release(i) ==
  /\ Goto(i, "release", "finished")
  /\ held' = held \ {i}
  /\ UNCHANGED <<dispatcherVars, attempt, result, rowStatus, verdicts>>

\* A panic unwinds the future: nothing releases its container.
Panic(i) ==
  /\ "panic" \in Faults
  /\ \E from \in InStep : Goto(i, from, "finished")
  /\ result' = [result EXCEPT ![i] = "panicked"]
  /\ UNCHANGED <<dispatcherVars, attempt, rowStatus, verdicts, held>>

StepMove(i) ==
  \/ Acquire(i) \/ AcquireFails(i)
  \/ EnterStep(i) \/ SeeCancelled(i) \/ BeginAttempt(i)
  \/ AgentSucceeds(i) \/ AgentFails(i)
  \/ GiveUp(i) \/ StoreCompleted(i) \/ ReturnOutput(i)
  \/ DatabaseError(i)
  \/ Release(i) \/ Panic(i)

-----------------------------------------------------------------------------
(* The environment.                                                        *)

\* cancel_task, on the instance that runs the task, cancels the token.
Cancel ==
  /\ pc \notin Outcomes /\ ~token
  /\ token' = TRUE
  /\ UNCHANGED <<deps, pc, batch, completed, failed, thread, attempt, result,
                 rowStatus, verdicts, held>>

\* tokio::time::timeout drops execute_task_inner, with it the JoinSet, and
\* so aborts every future that has not finished and was not joined.
Timeout ==
  /\ pc \notin Outcomes
  /\ pc' = "timedOut"
  /\ thread' = [i \in Steps |-> IF thread[i] \in InFlight THEN "aborted"
                                                           ELSE thread[i]]
  /\ UNCHANGED <<deps, token, batch, completed, failed, attempt, result,
                 rowStatus, verdicts, held>>

Dispatcher ==
  \/ StopCancelled \/ Spawn \/ BlockRemaining \/ ExitLoop
  \/ \E i \in Steps : JoinCompleted(i) \/ JoinFailed(i) \/ JoinBroken(i)
  \/ EndRound \/ Conclude

Next ==
  \/ Dispatcher
  \/ \E i \in Steps : StepMove(i)
  \/ Cancel
  \/ Timeout

Spec == Init /\ [][Next]_vars

-----------------------------------------------------------------------------
(* Fairness: the runtime polls every future that is ready, and every agent *)
(* run comes to an end (its turns are bounded and its tools time out; that *)
(* the LLM's HTTP request returns is an assumption, for the client sets no *)
(* timeout).  Nothing is assumed of cancellation, nor of the timer, so     *)
(* that the end does not come from the timer alone.                        *)

Indices == UNION {DOMAIN p : p \in Plans}

Fairness ==
  /\ WF_vars(Dispatcher)
  /\ \A i \in Indices : WF_vars(i \in Steps /\ StepMove(i))

FairSpec == Spec /\ Fairness

-----------------------------------------------------------------------------
(* Properties.                                                             *)

TypeOK ==
  /\ deps \in Plans
  /\ token \in BOOLEAN
  /\ pc \in {"head", "collect", "after"} \cup Outcomes
  /\ batch \subseteq Steps
  /\ completed \subseteq Steps
  /\ failed \subseteq Steps
  /\ thread \in [Steps -> ThreadStates]
  /\ attempt \in [Steps -> 0 .. MaxAttempts]
  /\ result \in [Steps -> Results]
  /\ rowStatus \in [Steps -> RowStates]
  /\ verdicts \in [Steps -> SUBSET {"completed", "failed"}]
  /\ held \subseteq Steps

\* "Dependent steps wait for their prerequisites": a step's future exists
\* only once each step it depends on has run to the end, returned its output
\* and been merged.  In particular it never runs over a dependency that is
\* in flight in the same batch, nor over an index no step has.
DependenciesRanFirst ==
  \A i \in Steps : thread[i] # "idle" =>
    \A d \in deps[i] : /\ d \in completed
                       /\ thread[d] = "joined"
                       /\ result[d] = "ok"

\* "Results merged when all parallel steps complete": whenever the dispatcher
\* is not collecting, nothing it spawned is in flight and every container is
\* back, but for the containers of futures that panicked (their release is
\* skipped) and those the 30 minute timer cut off.
RoundsAreJoined ==
  pc \notin {"collect", "timedOut"} =>
    /\ \A i \in Steps : thread[i] \in {"idle", "joined"}
    /\ held \subseteq {i \in Steps : result[i] = "panicked"}

\* A step settles one way.  The only index that comes to be in both HashSets,
\* on which the loop's count relies, is that of a step whose batch lost a
\* future before: it was failed with the batch, ran on and completed.
CountsOnce ==
  \A i \in (completed' \cap failed') \ (completed \cap failed) :
    i \in batch /\ result[i] = "ok" /\ \E j \in batch : Lost(j)

SettledOnce == [][CountsOnce]_vars

\* The loop does not end early: when a plan is said to have failed, or goes on
\* to synthesis, every step is settled, but for as many as were counted twice
\* (SettledOnce says which those may be).
NothingSkipped ==
  pc \in {"after", "allFailed", "synthesize"} =>
    Cardinality(Steps \ Settled) <= Cardinality(completed \cap failed)

\* The row of each step counted as completed, and not as failed too, says so.
\* Unless a batch broke, so does that of each step counted as failed, but for
\* a blocked one whose statement failed, and for one that was not reported as
\* failed: its future returned because of the cancellation or of a statement.
RowsTellOutcome ==
  /\ \A i \in completed \ failed : rowStatus[i] = "completed"
  /\ \/ BatchBroken
     \/ \A i \in failed :
          \/ rowStatus[i] = "failed"
          \/ i \in Blocked /\ "database" \in Faults
          \/ "failed" \notin verdicts[i] /\ (token \/ "database" \in Faults)

\* A step is not reported both completed and failed, and one that was run is
\* reported failed after MAX_ATTEMPTS attempts, no earlier (unless a batch
\* broke).
VerdictsTruthful ==
  \/ BatchBroken
  \/ \A i \in Steps :
       /\ verdicts[i] # {"completed", "failed"}
       /\ "failed" \in verdicts[i] => \/ i \in Blocked
                                      \/ attempt[i] = MaxAttempts

\* "If no steps are ready but some are still pending, they are blocked by
\* failed deps" (the comment above the ready.is_empty() branch): following
\* failed dependencies from a blocked step leads out of the blocked steps,
\* to one that ran and failed.  No set of blocked steps blocks only itself.
BlockedByFailure ==
  \A S \in SUBSET Blocked : S # {} =>
    \E i \in S : \E d \in deps[i] : d \in failed \ S

\* The plans for which the comment is right: every index listed is a step's,
\* and no set of steps waits for itself.
Acyclic(p) ==
  /\ \A i \in DOMAIN p : p[i] \subseteq DOMAIN p
  /\ \A S \in SUBSET (DOMAIN p) : S # {} => \E i \in S : p[i] \cap S = {}

BlockedByFailureIfAcyclic == Acyclic(deps) => BlockedByFailure

\* Whatever the plan, cyclic or naming steps it does not have, and whatever
\* fails, the execution comes to an end.
ExecutionEnds == <>(pc \in Outcomes)

\* The dispatcher's HashSets and futures, seen as PlanExecution's statuses.
stepStatus ==
  IF BatchBroken
    THEN [i \in Steps |-> "unknown"]
    ELSE [i \in Steps |-> CASE i \in completed -> "done"
                           [] i \in failed -> "failed"
                           [] i \notin Settled /\ thread[i] = "idle" -> "waiting"
                           [] OTHER -> "running"]

planOutcome == CASE BatchBroken -> "broken"
                 [] ~BatchBroken /\ pc \in Outcomes -> pc
                 [] OTHER -> "none"

Abstract == INSTANCE PlanExecution
  WITH status <- stepStatus, outcome <- planOutcome

\* Whatever fails, the dispatch loop with its futures implements the execution
\* of a plan: batches, one verdict per step, a final verdict, all of it until
\* a sandbox error or a panic breaks a batch.
ImplementsPlanExecution == Abstract!Spec

=============================================================================
