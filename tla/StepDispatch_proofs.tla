------------------------ MODULE StepDispatch_proofs ------------------------
(***************************************************************************)
(* Theorems of StepDispatch, for every set of plans, number of attempts    *)
(* and set of failures.  The inductive invariant ties the place of each    *)
(* future to the dispatcher's program counter, to the two HashSets and to  *)
(* the container it holds.                                                 *)
(***************************************************************************)
EXTENDS StepDispatch, FiniteSetTheorems, TLAPS

\* A future that may still begin an attempt has one left.
AttemptsLeft ==
  \A i \in Steps : thread[i] \in {"idle", "acquire", "enter", "attempt", "agent"}
                     => attempt[i] < MaxAttempts

\* Only the steps of the batch being collected have futures in flight.
FuturesInBatch ==
  \A i \in Steps :
    \/ thread[i] \in {"idle", "joined"}
    \/ pc = "collect" /\ i \in batch /\ thread[i] \in InFlight
    \/ pc = "timedOut" /\ thread[i] = "aborted"

BatchSpawned == pc = "collect" => \A i \in batch : thread[i] # "idle"

JoinedAreSettled == \A i \in Steps : thread[i] = "joined" => i \in Settled

\* What a future has returned, given where it is.
ResultsFit ==
  \A i \in Steps :
    /\ thread[i] \in {"idle", "acquire"} \cup InStep => result[i] = "none"
    /\ thread[i] = "release" => result[i] \in {"ok", "error"}
    /\ thread[i] \in {"finished", "joined"} => result[i] # "none"

CompletedRan ==
  \A i \in completed : thread[i] = "joined" /\ result[i] = "ok"

SpawnedHadDeps ==
  \A i \in Steps : thread[i] # "idle" => deps[i] \subseteq completed

HeldByFutures ==
  \A i \in held : \/ thread[i] \in InStep \cup {"release", "aborted"}
                  \/ result[i] = "panicked"

\* Futures are lost only to failures that are in scope.
ResultsInScope ==
  \A i \in Steps :
    /\ result[i] = "noSandbox" => "sandbox" \in Faults
    /\ result[i] = "panicked" => "panic" \in Faults

\* What the dispatcher counted as failed, given where the future is.
FailedFit ==
  \/ BatchBroken
  \/ \A i \in failed : \/ thread[i] = "idle"
                       \/ thread[i] = "joined" /\ result[i] = "error"

\* A step failed while its future runs on is in a batch that lost a future.
FailedInFlight ==
  \A i \in failed : thread[i] \in InFlight => \E j \in batch : Lost(j)

\* The blocked steps are failed on the way out of the loop.
NoneBlockedYet == pc \in {"head", "collect"} => Blocked = {}

ExhaustedAttempts ==
  \A i \in Steps : thread[i] = "exhausted" => attempt[i] = MaxAttempts

\* The row of a step that succeeded, or is about to, says so, unless the
\* dispatcher has failed the step.
CompletedRows ==
  \A i \in Steps \ failed :
    thread[i] = "publish" \/ result[i] = "ok" => rowStatus[i] = "completed"

\* The row of a step that failed says so, but for the errors of RowsTellOutcome.
FailedRows ==
  \/ BatchBroken
  \/ \A i \in Steps :
       /\ thread[i] = "publish" => "failed" \notin verdicts[i]
       /\ i \in Blocked => rowStatus[i] = "failed" \/ "database" \in Faults
       /\ result[i] = "error" =>
            \/ rowStatus[i] = "failed"
            \/ "failed" \notin verdicts[i] /\ (token \/ "database" \in Faults)

\* A step's future publishes its verdict last, and once.
VerdictsFit ==
  \/ BatchBroken
  \/ \A i \in Steps :
       \/ /\ \/ thread[i] \in {"acquire", "enter", "attempt", "agent",
                              "exhausted", "store"}
             \/ thread[i] = "idle" /\ i \notin failed
          /\ verdicts[i] = {}
       \/ /\ \/ thread[i] \in {"publish", "release", "finished", "joined",
                              "aborted"}
             \/ i \in Blocked
          /\ verdicts[i] # {"completed", "failed"}
          /\ "failed" \in verdicts[i] => \/ i \in Blocked
                                         \/ attempt[i] = MaxAttempts

\* The strengthening of the safety properties that every step preserves.
IInv ==
  /\ TypeOK
  /\ AttemptsLeft
  /\ FuturesInBatch
  /\ BatchSpawned
  /\ JoinedAreSettled
  /\ ResultsFit
  /\ CompletedRan
  /\ SpawnedHadDeps
  /\ HeldByFutures
  /\ ResultsInScope
  /\ FailedFit
  /\ FailedInFlight
  /\ NoneBlockedYet
  /\ ExhaustedAttempts
  /\ CompletedRows
  /\ FailedRows
  /\ VerdictsFit
  /\ NothingSkipped
  /\ BlockedByFailureIfAcyclic

-----------------------------------------------------------------------------

\* The invariant holds when the loop is entered.
LEMMA InitInvariant == Init => IInv
  BY AttemptsAssumption
  DEF Init, IInv, TypeOK, AttemptsLeft, FuturesInBatch, BatchSpawned,
      JoinedAreSettled, ResultsFit, CompletedRan, SpawnedHadDeps,
      HeldByFutures, ResultsInScope, FailedFit, FailedInFlight, NoneBlockedYet,
      ExhaustedAttempts, CompletedRows, FailedRows, VerdictsFit, NothingSkipped,
      BlockedByFailureIfAcyclic, BlockedByFailure,
      Blocked, Steps, Outcomes, InStep, InFlight, ThreadStates, Results,
      RowStates, Settled

\* Disjoint finite sets count up to their union.
LEMMA DisjointCount ==
  ASSUME NEW A, NEW B, IsFiniteSet(A), IsFiniteSet(B), A \cap B = {}
  PROVE  Cardinality(A \cup B) = Cardinality(A) + Cardinality(B)
<1>1. Cardinality(A \cap B) = 0
  BY FS_EmptySet
<1>2. Cardinality(A \cup B)
        = Cardinality(A) + Cardinality(B) - Cardinality(A \cap B)
  BY FS_Union
<1>3. Cardinality(A) \in Nat /\ Cardinality(B) \in Nat
  BY FS_CardinalityType
<1> QED
  BY <1>1, <1>2, <1>3

\* What the loop's count relies on: two sets of steps that together count as
\* many as there are steps leave out no more than they have in common.
LEMMA CountMissesNoMore ==
  ASSUME NEW S, IsFiniteSet(S), NEW A \in SUBSET S, NEW B \in SUBSET S,
         ~ (Cardinality(A) + Cardinality(B) < Cardinality(S))
  PROVE  Cardinality(S \ (A \cup B)) <= Cardinality(A \cap B)
<1> DEFINE U == A \cup B
<1>1. IsFiniteSet(A) /\ IsFiniteSet(B) /\ IsFiniteSet(U) /\ IsFiniteSet(A \cap B)
  BY FS_Subset
<1>2. IsFiniteSet(S \ U)
  BY FS_Subset
<1>3. Cardinality(U)
        = Cardinality(A) + Cardinality(B) - Cardinality(A \cap B)
  BY <1>1, FS_Union
<1>4. Cardinality(S) = Cardinality(U) + Cardinality(S \ U)
  <2>1. S = U \cup (S \ U) /\ U \cap (S \ U) = {}
    OBVIOUS
  <2> QED
    BY <1>1, <1>2, <2>1, DisjointCount
<1>5. /\ Cardinality(A) \in Nat /\ Cardinality(B) \in Nat
      /\ Cardinality(U) \in Nat /\ Cardinality(S \ U) \in Nat
      /\ Cardinality(A \cap B) \in Nat /\ Cardinality(S) \in Nat
  BY <1>1, <1>2, FS_CardinalityType
<1> QED
  BY <1>3, <1>4, <1>5

\* Every plan has finitely many steps.
LEMMA StepsFinite == deps \in Plans => IsFiniteSet(Steps)
  BY PlansAssumption DEF Steps

\* Every move of the dispatcher, of a future and of the environment keeps it.
LEMMA NextInvariant == IInv /\ [Next]_vars => IInv'
<1> SUFFICES ASSUME IInv, [Next]_vars PROVE IInv'
  OBVIOUS
<1> USE AttemptsAssumption
    DEF IInv, TypeOK, AttemptsLeft, FuturesInBatch, BatchSpawned,
        JoinedAreSettled, ResultsFit, CompletedRan, SpawnedHadDeps,
        HeldByFutures, ResultsInScope, FailedFit, FailedInFlight, NoneBlockedYet,
        ExhaustedAttempts, CompletedRows, FailedRows, VerdictsFit, NothingSkipped,
        BlockedByFailureIfAcyclic,
        BlockedByFailure, Steps, Settled, Blocked, BatchBroken, Lost, Outcomes,
        InStep, InFlight, ThreadStates, Results, RowStates, dispatcherVars
<1>1. CASE StopCancelled
  BY <1>1 DEF StopCancelled
<1>2. CASE Spawn
  <2> USE <1>2 DEF Spawn, Ready
  <2>1. TypeOK' /\ AttemptsLeft' /\ FuturesInBatch' /\ BatchSpawned'
    OBVIOUS
  <2>2. JoinedAreSettled' /\ ResultsFit' /\ CompletedRan' /\ SpawnedHadDeps'
    OBVIOUS
  <2>3. BatchBroken => BatchBroken'
    OBVIOUS
  <2>4. /\ HeldByFutures' /\ FailedFit' /\ FailedInFlight' /\ NoneBlockedYet'
        /\ ExhaustedAttempts'
    BY <2>3
  <2>5. CompletedRows' /\ FailedRows' /\ VerdictsFit'
    BY <2>3
  <2>6. ResultsInScope' /\ NothingSkipped'
    OBVIOUS
  <2>7. Blocked' = Blocked
    OBVIOUS
  <2>8. BlockedByFailureIfAcyclic'
    BY <2>7
  <2> QED
    BY <2>1, <2>2, <2>4, <2>5, <2>6, <2>8
<1>3. CASE BlockRemaining
  <2> DEFINE remaining == Steps \ Settled
  <2>1. failed' = failed \cup remaining /\ pc' = "after"
    BY <1>3 DEF BlockRemaining
  <2>2. \A i \in Steps : rowStatus'[i] \in {rowStatus[i], "failed"}
    BY <1>3 DEF BlockRemaining, MarkRowsFailed
  <2>3. \A i \in remaining : "database" \notin Faults => rowStatus'[i] = "failed"
    BY <1>3 DEF BlockRemaining, MarkRowsFailed
  <2>4. \A i \in Steps \ remaining : /\ rowStatus'[i] = rowStatus[i]
                                    /\ verdicts'[i] = verdicts[i]
    BY <1>3 DEF BlockRemaining, MarkRowsFailed
  <2>5. \A i \in remaining : thread[i] = "idle"
    BY <1>3 DEF BlockRemaining
  <2>6. TypeOK'
    BY <1>3 DEF BlockRemaining, MarkRowsFailed
  <2>7. NothingSkipped'
    <3>1. (Steps \ Settled)' = {}
      BY <2>1, <1>3 DEF BlockRemaining
    <3>2. IsFiniteSet(completed \cap failed')
      <4>1. completed \cap failed' \subseteq Steps
        OBVIOUS
      <4>2. IsFiniteSet(Steps)
        BY StepsFinite
      <4> HIDE DEF Steps
      <4> QED
        BY <4>1, <4>2, FS_Subset
    <3>3. completed' = completed
      BY <1>3 DEF BlockRemaining
    <3>4. Cardinality({}) = 0 /\ Cardinality(completed \cap failed') \in Nat
      BY <3>2, FS_EmptySet, FS_CardinalityType
    <3>5. Cardinality((Steps \ Settled)') = 0
      BY <3>1, <3>4
    <3>6. Cardinality((completed \cap failed)') \in Nat
      BY <3>3, <3>4
    <3> HIDE DEF Steps, Settled
    <3> QED
      BY <3>5, <3>6
  <2>8. BlockedByFailureIfAcyclic'
    <3> SUFFICES ASSUME Acyclic(deps), NEW S \in SUBSET Blocked', S # {}
                 PROVE  \E i \in S : \E d \in deps[i] : d \in failed' \ S
      BY <1>3 DEF BlockRemaining
    <3>1. S \subseteq remaining
      BY <1>3, <2>1 DEF BlockRemaining
    <3>2. PICK i \in S : deps[i] \cap S = {}
      BY <3>1 DEF Acyclic
    <3>3. PICK d \in deps[i] : d \in failed \/ d \notin completed
      BY <1>3, <3>1 DEF BlockRemaining, Ready
    <3>4. d \in Steps /\ d \notin S
      BY <3>1, <3>2 DEF Acyclic
    <3> QED
      BY <2>1, <3>3, <3>4
  <2>9. VerdictsFit'
    <3>1. \A i \in remaining : verdicts[i] = {} \/ BatchBroken
      BY <2>5
    <3>2. \A i \in remaining : verdicts'[i] = verdicts[i] \cup {"failed"}
      BY <1>3 DEF BlockRemaining
    <3>3. BatchBroken => BatchBroken'
      BY <1>3 DEF BlockRemaining
    <3> QED
      BY <1>3, <2>1, <2>4, <2>5, <3>1, <3>2, <3>3 DEF BlockRemaining
  <2>10. CompletedRows' /\ FailedRows'
    BY <1>3, <2>1, <2>2, <2>3, <2>4, <2>5 DEF BlockRemaining
  <2>11. FailedFit' /\ FailedInFlight' /\ NoneBlockedYet'
    BY <1>3, <2>1, <2>5 DEF BlockRemaining
  <2> QED
    BY <1>3, <2>6, <2>7, <2>8, <2>9, <2>10, <2>11 DEF BlockRemaining
<1>4. CASE ExitLoop
  <2>1. NothingSkipped'
    <3>1. ~ (Cardinality(completed) + Cardinality(failed) < Cardinality(Steps))
      BY <1>4 DEF ExitLoop, LoopContinues
    <3>2. completed \subseteq Steps /\ failed \subseteq Steps
      OBVIOUS
    <3>3. Cardinality(Steps \ (completed \cup failed))
            <= Cardinality(completed \cap failed)
      <4> HIDE DEF Steps
      <4> QED
        BY <3>1, <3>2, StepsFinite, CountMissesNoMore
    <3> QED
      BY <1>4, <3>3 DEF ExitLoop
  <2>2. (Blocked = {})' /\ BlockedByFailureIfAcyclic'
    BY <1>4 DEF ExitLoop
  <2> QED
    BY <1>4, <2>1, <2>2 DEF ExitLoop
<1>5. CASE EndRound
  BY <1>5 DEF EndRound
<1>6. CASE Conclude
  BY <1>6 DEF Conclude
<1>7. CASE Cancel
  BY <1>7 DEF Cancel
<1>8. CASE Timeout
  <2> USE <1>8 DEF Timeout
  <2>1. Blocked' = Blocked
    OBVIOUS
  <2>2. BatchBroken => BatchBroken'
    OBVIOUS
  <2>3. BlockedByFailureIfAcyclic'
    BY <2>1
  <2>4. FailedFit' /\ FailedInFlight' /\ CompletedRows' /\ FailedRows' /\ VerdictsFit'
    BY <2>1, <2>2
  <2>5. TypeOK' /\ AttemptsLeft' /\ FuturesInBatch' /\ BatchSpawned'
    OBVIOUS
  <2>6. JoinedAreSettled' /\ ResultsFit' /\ CompletedRan' /\ SpawnedHadDeps'
    OBVIOUS
  <2>7. /\ HeldByFutures' /\ ResultsInScope' /\ NoneBlockedYet' /\ ExhaustedAttempts'
        /\ NothingSkipped'
    OBVIOUS
  <2> QED
    BY <2>3, <2>4, <2>5, <2>6, <2>7
<1>9. ASSUME NEW i \in Steps, JoinCompleted(i) PROVE IInv'
  BY <1>9 DEF JoinCompleted, Join
<1>10. ASSUME NEW i \in Steps, JoinFailed(i) PROVE IInv'
  BY <1>10 DEF JoinFailed, Join
<1>11. ASSUME NEW i \in Steps, JoinBroken(i) PROVE IInv'
  BY <1>11 DEF JoinBroken, Join, MarkRowsFailed
<1>12. ASSUME NEW i \in Steps, Acquire(i) PROVE IInv'
  BY <1>12 DEF Acquire, Goto
<1>13. ASSUME NEW i \in Steps, AcquireFails(i) PROVE IInv'
  BY <1>13 DEF AcquireFails, Goto
<1>14. ASSUME NEW i \in Steps, EnterStep(i) PROVE IInv'
  BY <1>14 DEF EnterStep, Goto, SetRow
<1>15. ASSUME NEW i \in Steps, SeeCancelled(i) PROVE IInv'
  BY <1>15 DEF SeeCancelled, Return, Goto
<1>16. ASSUME NEW i \in Steps, BeginAttempt(i) PROVE IInv'
  BY <1>16 DEF BeginAttempt, Goto
<1>17. ASSUME NEW i \in Steps, AgentSucceeds(i) PROVE IInv'
  BY <1>17 DEF AgentSucceeds, Goto
<1>18. ASSUME NEW i \in Steps, AgentFails(i) PROVE IInv'
  BY <1>18 DEF AgentFails, Goto
<1>19. ASSUME NEW i \in Steps, GiveUp(i) PROVE IInv'
  <2> USE <1>19 DEF GiveUp, Return, Goto, SetRow
  <2>1. BatchBroken => BatchBroken'
    OBVIOUS
  <2>2. Blocked' = Blocked
    OBVIOUS
  <2>3. TypeOK' /\ AttemptsLeft' /\ FuturesInBatch' /\ BatchSpawned'
    OBVIOUS
  <2>4. JoinedAreSettled' /\ ResultsFit' /\ CompletedRan' /\ SpawnedHadDeps'
    OBVIOUS
  <2>5. HeldByFutures' /\ ResultsInScope' /\ FailedInFlight' /\ NothingSkipped'
    OBVIOUS
  <2>6. NoneBlockedYet' /\ ExhaustedAttempts' /\ BlockedByFailureIfAcyclic'
    BY <2>2
  <2>7. FailedFit' /\ CompletedRows'
    BY <2>1
  <2>8. FailedRows'
    <3>1. rowStatus'[i] = "failed" /\ thread'[i] = "release" /\ i \notin Blocked
      OBVIOUS
    <3>2. \A j \in Steps \ {i} : /\ rowStatus'[j] = rowStatus[j]
                               /\ verdicts'[j] = verdicts[j]
                               /\ thread'[j] = thread[j]
                               /\ result'[j] = result[j]
      OBVIOUS
    <3> QED
      BY <2>1, <2>2, <3>1, <3>2
  <2>9. VerdictsFit'
    BY <2>1, <2>2
  <2> QED
    BY <2>3, <2>4, <2>5, <2>6, <2>7, <2>8, <2>9
<1>20. ASSUME NEW i \in Steps, StoreCompleted(i) PROVE IInv'
  BY <1>20 DEF StoreCompleted, Goto, SetRow
<1>21. ASSUME NEW i \in Steps, ReturnOutput(i) PROVE IInv'
  BY <1>21 DEF ReturnOutput, Return, Goto
<1>22. ASSUME NEW i \in Steps, Release(i) PROVE IInv'
  BY <1>22 DEF Release, Goto
<1>23. ASSUME NEW i \in Steps, Panic(i) PROVE IInv'
  BY <1>23 DEF Panic, Goto
<1>24. ASSUME NEW i \in Steps, DatabaseError(i) PROVE IInv'
  BY <1>24 DEF DatabaseError, StatementFails, Return, Goto
<1>25. CASE UNCHANGED vars
  BY <1>25 DEF vars
<1> QED
  BY <1>1, <1>2, <1>3, <1>4, <1>5, <1>6, <1>7, <1>8, <1>9, <1>10, <1>11,
     <1>12, <1>13, <1>14, <1>15, <1>16, <1>17, <1>18, <1>19, <1>20, <1>21,
     <1>22, <1>23, <1>24, <1>25
  DEF Next, Dispatcher, StepMove

\* The invariant of which the theorems below are consequences.
THEOREM InvariantHolds == Spec => []IInv
  BY InitInvariant, NextInvariant, PTL DEF Spec

\* Type correctness; in particular no step is ever attempted more than
\* MAX_ATTEMPTS times.
THEOREM TypeCorrect == Spec => []TypeOK
<1>1. IInv => TypeOK
  BY DEF IInv
<1> QED
  BY <1>1, InvariantHolds, PTL

\* A step runs only after everything it depends on has run and was merged,
\* whatever the plan, the failures and the moment of cancellation.
THEOREM DependenciesFirst == Spec => []DependenciesRanFirst
<1>1. IInv => DependenciesRanFirst
  BY DEF IInv, DependenciesRanFirst, SpawnedHadDeps, CompletedRan
<1> QED
  BY <1>1, InvariantHolds, PTL

\* Between two rounds, and at every end but the timeout, no future is in
\* flight and only futures that panicked have kept their container.
THEOREM RoundsJoined == Spec => []RoundsAreJoined
<1>1. IInv => RoundsAreJoined
  BY DEF IInv, RoundsAreJoined, FuturesInBatch, HeldByFutures, TypeOK, InStep,
         Outcomes
<1> QED
  BY <1>1, InvariantHolds, PTL

\* No step is counted both completed and failed, but for one whose batch had
\* lost a future before it completed.
THEOREM SettlesOnce == Spec => SettledOnce
<1>1. IInv /\ [Next]_vars => [CountsOnce]_vars
  <2> SUFFICES ASSUME IInv, Next PROVE CountsOnce
    BY DEF vars
  <2> USE DEF CountsOnce
  <2>1. ASSUME NEW i \in Steps, JoinCompleted(i) PROVE CountsOnce
    BY <2>1 DEF JoinCompleted, Join, IInv, FailedInFlight, InFlight
  <2>2. ASSUME NEW i \in Steps, JoinFailed(i) PROVE CountsOnce
    BY <2>2 DEF JoinFailed, Join, IInv, CompletedRan
  <2>3. ASSUME NEW i \in Steps, JoinBroken(i) PROVE CountsOnce
    BY <2>3 DEF JoinBroken, Join, Settled
  <2>4. CASE BlockRemaining
    BY <2>4 DEF BlockRemaining, Settled
  <2>5. ASSUME NEW i \in Steps, StepMove(i) PROVE CountsOnce
    BY <2>5
    DEF StepMove, Acquire, AcquireFails, EnterStep, SeeCancelled, BeginAttempt,
        AgentSucceeds, AgentFails, GiveUp, StoreCompleted, ReturnOutput,
        DatabaseError, StatementFails, Release, Panic, dispatcherVars
  <2>6. CASE StopCancelled \/ Spawn \/ ExitLoop \/ EndRound \/ Conclude
             \/ Cancel \/ Timeout
    BY <2>6 DEF StopCancelled, Spawn, ExitLoop, EndRound, Conclude, Cancel,
                Timeout
  <2> QED
    BY <2>1, <2>2, <2>3, <2>4, <2>5, <2>6 DEF Next, Dispatcher
<1> QED
  BY <1>1, InvariantHolds, PTL DEF Spec, SettledOnce

\* The loop ends with every step settled, but for as many as were counted
\* twice.
THEOREM NoneSkipped == Spec => []NothingSkipped
<1>1. IInv => NothingSkipped
  BY DEF IInv
<1> QED
  BY <1>1, InvariantHolds, PTL

\* The database agrees with the dispatcher on completed steps, and, unless a
\* batch broke, on those that were reported as failed.
THEOREM RowsTellTheOutcome == Spec => []RowsTellOutcome
<1>1. IInv => RowsTellOutcome
  BY DEF IInv, RowsTellOutcome, CompletedRows, FailedRows, FailedFit,
         CompletedRan, Blocked, TypeOK, Steps
<1> QED
  BY <1>1, InvariantHolds, PTL

\* Unless a batch broke, the events published for a step are truthful.
THEOREM VerdictsAreTruthful == Spec => []VerdictsTruthful
<1>1. IInv => VerdictsTruthful
  BY DEF IInv, VerdictsTruthful, VerdictsFit, FailedFit, Blocked, TypeOK
<1> QED
  BY <1>1, InvariantHolds, PTL

\* In every acyclic plan, a step reported blocked is blocked by a step that
\* ran and failed.
THEOREM BlockedOnlyByFailure == Spec => []BlockedByFailureIfAcyclic
<1>1. IInv => BlockedByFailureIfAcyclic
  BY DEF IInv
<1> QED
  BY <1>1, InvariantHolds, PTL

-----------------------------------------------------------------------------
(* StepDispatch implements PlanExecution.                                  *)

\* The initial states map to initial states.
LEMMA RefinementInit == Init => Abstract!Init
  BY DEF Init, Abstract!Init, Abstract!Steps, stepStatus, planOutcome, Settled,
         Steps, Outcomes, BatchBroken, Lost

\* A future that was joined is never touched again, so that a batch that broke
\* stays broken.
LEMMA BrokenStays ==
  ASSUME IInv, [Next]_vars, BatchBroken PROVE BatchBroken'
<1> USE DEF BatchBroken, Lost, Steps, InFlight, InStep, dispatcherVars, IInv, TypeOK,
            JoinedAreSettled, Settled
<1>1. CASE Dispatcher
  BY <1>1 DEF Dispatcher, StopCancelled, Spawn, Ready, BlockRemaining, ExitLoop,
              JoinCompleted, JoinFailed, JoinBroken, Join, EndRound, Conclude
<1>2. ASSUME NEW i \in Steps, StepMove(i) PROVE BatchBroken'
  BY <1>2
  DEF StepMove, Acquire, AcquireFails, EnterStep, SeeCancelled, BeginAttempt,
      AgentSucceeds, AgentFails, GiveUp, StoreCompleted, ReturnOutput,
      DatabaseError, StatementFails, Release, Panic, Return, Goto
<1>3. CASE Cancel \/ Timeout \/ UNCHANGED vars
  BY <1>3 DEF Cancel, Timeout, vars
<1> QED
  BY <1>1, <1>2, <1>3 DEF Next

\* While the loop goes on, some step is not settled.
LEMMA LoopHasWork ==
  ASSUME IInv, LoopContinues PROVE Steps \ Settled # {} \/ BatchBroken
<1>1. IsFiniteSet(Steps) /\ completed \subseteq Steps /\ failed \subseteq Steps
  BY PlansAssumption DEF IInv, TypeOK, Steps
<1>2. SUFFICES ASSUME completed \cap failed = {} PROVE Settled # Steps
  BY <1>1 DEF IInv, FailedFit, CompletedRan, Settled
<1>3. Cardinality(Settled) = Cardinality(completed) + Cardinality(failed)
  <2>1. IsFiniteSet(completed) /\ IsFiniteSet(failed)
    BY <1>1, FS_Subset
  <2> QED
    BY <2>1, <1>2, DisjointCount DEF Settled
<1> QED
  BY <1>1, <1>3, FS_CardinalityType, FS_Subset DEF LoopContinues

\* Only a join that finds a future lost breaks the batch.
LEMMA BrokenByJoin ==
  ASSUME IInv, [Next]_vars, ~ BatchBroken,
         \A i \in Steps : ~ JoinBroken(i)
  PROVE  ~ BatchBroken'
<1> USE DEF BatchBroken, Lost, Steps, InFlight, InStep, dispatcherVars, IInv, TypeOK
<1>1. CASE Dispatcher
  BY <1>1 DEF Dispatcher, StopCancelled, Spawn, Ready, BlockRemaining, ExitLoop,
              JoinCompleted, JoinFailed, Join, EndRound, Conclude
<1>2. ASSUME NEW i \in Steps, StepMove(i) PROVE ~ BatchBroken'
  BY <1>2
  DEF StepMove, Acquire, AcquireFails, EnterStep, SeeCancelled, BeginAttempt,
      AgentSucceeds, AgentFails, GiveUp, StoreCompleted, ReturnOutput,
      DatabaseError, StatementFails, Release, Panic, Return, Goto
<1>3. CASE Cancel \/ Timeout \/ UNCHANGED vars
  BY <1>3 DEF Cancel, Timeout, vars
<1> QED
  BY <1>1, <1>2, <1>3 DEF Next

\* The join that breaks the batch is PlanExecution's Break.
LEMMA BreakMaps ==
  ASSUME IInv, ~ BatchBroken, NEW i \in Steps, JoinBroken(i)
  PROVE  Abstract!Break
<1>1. stepStatus[i] = "running"
  BY DEF JoinBroken, Join, stepStatus, IInv, FailedFit, CompletedRan, Settled
<1>2. BatchBroken'
  BY DEF JoinBroken, Join, BatchBroken, Lost, Steps, IInv, TypeOK
<1>3. stepStatus' = [j \in Steps |-> "unknown"] /\ planOutcome' = "broken"
  BY <1>2 DEF stepStatus, planOutcome, JoinBroken, Steps
<1>4. planOutcome = "none" /\ deps' = deps
  BY DEF planOutcome, JoinBroken, Join, Outcomes
<1> QED
  BY <1>1, <1>3, <1>4 DEF Abstract!Break, Abstract!With, Abstract!Steps, Steps

\* Every step maps to a step of PlanExecution or to none.
LEMMA RefinementNext ==
  ASSUME IInv, [Next]_vars
  PROVE  [Abstract!Next]_(Abstract!vars)
<1>a. CASE BatchBroken
  <2>1. BatchBroken'
    BY <1>a, BrokenStays
  <2>2. deps' = deps
    BY DEF Next, Dispatcher, StopCancelled, Spawn, BlockRemaining, ExitLoop,
           JoinCompleted, JoinFailed, JoinBroken, EndRound, Conclude, StepMove,
           Acquire, AcquireFails, EnterStep, SeeCancelled, BeginAttempt,
           AgentSucceeds, AgentFails, GiveUp, StoreCompleted, ReturnOutput,
           DatabaseError, StatementFails, Release, Panic, dispatcherVars,
           Cancel, Timeout, vars
  <2> QED
    BY <1>a, <2>1, <2>2 DEF stepStatus, planOutcome, Abstract!vars, Steps
<1>b. ASSUME NEW i \in Steps, JoinBroken(i), ~ BatchBroken
      PROVE  [Abstract!Next]_(Abstract!vars)
  BY <1>b, BreakMaps DEF Abstract!Next
<1> SUFFICES ASSUME ~ BatchBroken, ~ BatchBroken',
                    \A i \in Steps : ~ JoinBroken(i)
             PROVE  [Abstract!Next]_(Abstract!vars)
  BY <1>a, <1>b, BrokenByJoin
<1>1. ~ BatchBroken
  OBVIOUS
<1>2. \A i \in Steps :
        /\ i \in completed => /\ stepStatus[i] = "done"
                              /\ i \notin failed /\ thread[i] = "joined"
        /\ i \in failed => /\ stepStatus[i] = "failed"
                           /\ i \notin completed
                           /\ thread[i] \in {"idle", "joined"}
        /\ i \notin Settled /\ thread[i] = "idle" => stepStatus[i] = "waiting"
        /\ i \notin Settled /\ thread[i] # "idle" => stepStatus[i] = "running"
  BY <1>1 DEF IInv, FailedFit, CompletedRan, stepStatus, Settled
<1>3. stepStatus = [i \in Steps |-> stepStatus[i]]
  BY DEF stepStatus
<1>4. pc \notin {"collect", "timedOut"} =>
        \A i \in Steps : stepStatus[i] # "running"
  BY <1>2 DEF IInv, FuturesInBatch, JoinedAreSettled, Settled
<1> USE DEF Abstract!vars, Abstract!Steps, Abstract!With, Abstract!Runnable,
            planOutcome, Outcomes
<1>5. CASE StopCancelled
  <2>1. stepStatus' = stepStatus
    BY <1>5 DEF StopCancelled, stepStatus, Settled, Steps
  <2>2. Abstract!StopCancelled
    BY <1>5, <1>4, <2>1 DEF StopCancelled, Abstract!StopCancelled, Steps
  <2> QED
    BY <2>2 DEF Abstract!Next
<1>6. CASE Spawn
  <2>1. {i \in Steps : stepStatus[i] = "waiting"} = Steps \ Settled
    BY <1>6, <1>2, <1>4 DEF Spawn, Settled
  <2>2. {i \in Steps : stepStatus[i] = "done"} = completed
    BY <1>2 DEF IInv, TypeOK, Settled
  <2>3. Abstract!Runnable = Ready
    BY <2>1, <2>2, <1>2 DEF Ready, Steps, IInv, TypeOK, Settled
  <2>4. stepStatus' = [i \in Steps |-> IF i \in Ready THEN "running"
                                                     ELSE stepStatus[i]]
    BY <1>6 DEF Spawn, stepStatus, Settled, Steps, Ready
  <2>5. Abstract!StartBatch
    BY <1>6, <1>4, <2>3, <2>4 DEF Spawn, Abstract!StartBatch, Steps
  <2> QED
    BY <2>5 DEF Abstract!Next
<1>7. CASE BlockRemaining
  <2>1. {i \in Steps : stepStatus[i] = "waiting"} = Steps \ Settled
    BY <1>7, <1>2, <1>4 DEF BlockRemaining, Settled
  <2>2. {i \in Steps : stepStatus[i] = "done"} = completed
    BY <1>2 DEF IInv, TypeOK, Settled
  <2>3. Abstract!Runnable = Ready
    BY <2>1, <2>2, <1>2 DEF Ready, Steps, IInv, TypeOK, Settled
  <2>4. stepStatus' = [i \in Steps |-> IF stepStatus[i] = "waiting"
                                         THEN "failed" ELSE stepStatus[i]]
    BY <1>7, <2>1, <1>2 DEF BlockRemaining, stepStatus, Settled, Steps
  <2>5. Abstract!GiveUpWaiting
    BY <1>1, <1>7, <1>4, <2>1, <2>3, <2>4, LoopHasWork
    DEF BlockRemaining, Abstract!GiveUpWaiting, Steps
  <2> QED
    BY <2>5 DEF Abstract!Next
<1>8. CASE Conclude
  <2>1. stepStatus' = stepStatus
    BY <1>8 DEF Conclude, stepStatus, Settled, Steps
  <2>2. Settled = Steps
    <3>1. completed \cap failed = {}
      BY <1>2 DEF IInv, TypeOK
    <3>2. Cardinality(Steps \ Settled) <= 0
      BY <1>8, <3>1, FS_EmptySet DEF Conclude, IInv, NothingSkipped
    <3>3. IsFiniteSet(Steps \ Settled) /\ Settled \subseteq Steps
      BY StepsFinite, FS_Subset DEF IInv, TypeOK, Settled
    <3>4. Steps \ Settled = {}
      BY <3>2, <3>3, FS_EmptySet, FS_CardinalityType
    <3> QED
      BY <3>3, <3>4
  <2>3. {i \in Steps : stepStatus[i] = "done"} = completed
    BY <1>2 DEF IInv, TypeOK, Settled
  <2>4. Abstract!Judge
    BY <1>8, <1>2, <2>1, <2>2, <2>3 DEF Conclude, Abstract!Judge, Steps, Settled
  <2> QED
    BY <2>4 DEF Abstract!Next
<1>9. CASE Timeout
  <2>1. stepStatus' = stepStatus
    BY <1>9 DEF Timeout, stepStatus, Settled, Steps, InFlight, InStep,
                IInv, TypeOK
  <2>2. Abstract!TimeOut
    BY <1>9, <2>1 DEF Timeout, Abstract!TimeOut
  <2> QED
    BY <2>2 DEF Abstract!Next
<1>10. ASSUME NEW i \in Steps, JoinCompleted(i) \/ JoinFailed(i)
       PROVE  [Abstract!Next]_(Abstract!vars)
  <2>1. stepStatus[i] = "running"
    BY <1>10, <1>2 DEF JoinCompleted, JoinFailed, Join, Settled
  <2>2. CASE JoinCompleted(i)
    <3>1. stepStatus' = [stepStatus EXCEPT ![i] = "done"]
      BY <2>2, <2>1, <1>2, <1>3
      DEF JoinCompleted, Join, stepStatus, Settled, Steps, IInv, TypeOK
    <3>2. Abstract!Settle(i)
      BY <2>2, <2>1, <3>1 DEF JoinCompleted, Join, Abstract!Settle
    <3> QED
      BY <3>2 DEF Abstract!Next, Steps
  <2>3. CASE JoinFailed(i)
    <3>1. stepStatus' = [stepStatus EXCEPT ![i] = "failed"]
      BY <2>3, <2>1, <1>2, <1>3
      DEF JoinFailed, Join, stepStatus, Settled, Steps, IInv, TypeOK
    <3>2. Abstract!Settle(i)
      BY <2>3, <2>1, <3>1 DEF JoinFailed, Join, Abstract!Settle
    <3> QED
      BY <3>2 DEF Abstract!Next, Steps
  <2> QED
    BY <1>10, <2>2, <2>3
<1>12. ASSUME NEW i \in Steps, StepMove(i)
       PROVE  UNCHANGED Abstract!vars
  <2>1. /\ UNCHANGED dispatcherVars
        /\ \E to \in ThreadStates \ {"idle"} : thread' = [thread EXCEPT ![i] = to]
        /\ thread[i] # "idle"
    BY <1>12
    DEF StepMove, Acquire, AcquireFails, EnterStep, SeeCancelled, BeginAttempt,
        AgentSucceeds, AgentFails, GiveUp, StoreCompleted, ReturnOutput,
        DatabaseError, StatementFails, Release, Panic, Return, Goto,
        dispatcherVars, ThreadStates, InFlight, InStep
  <2>2. stepStatus' = stepStatus
    BY <2>1 DEF dispatcherVars, stepStatus, Settled, Steps, IInv, TypeOK
  <2> QED
    BY <2>1, <2>2 DEF dispatcherVars
<1>13. CASE ExitLoop \/ EndRound \/ Cancel \/ UNCHANGED vars
  BY <1>13 DEF ExitLoop, EndRound, Cancel, vars, stepStatus, Settled, Steps
<1> QED
  BY <1>5, <1>6, <1>7, <1>8, <1>9, <1>10, <1>12, <1>13
  DEF Next, Dispatcher

\* Whatever fails and whenever the task is cancelled or runs out of time, the
\* dispatch loop with its futures implements the abstract execution of a plan.
THEOREM ImplementsAbstract == Spec => ImplementsPlanExecution
<1>1. Init => Abstract!Init
  BY RefinementInit
<1>2. IInv /\ [Next]_vars => [Abstract!Next]_(Abstract!vars)
  BY RefinementNext
<1> QED
  BY <1>1, <1>2, InvariantHolds, PTL DEF Spec, Abstract!Spec, ImplementsPlanExecution

=============================================================================
