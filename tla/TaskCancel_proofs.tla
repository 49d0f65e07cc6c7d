-------------------------- MODULE TaskCancel_proofs --------------------------
(***************************************************************************)
(* More of TaskLifecycle: what becomes of cancel requests and of the       *)
(* tokens they need, for every set of tasks, instances and requests.       *)
(***************************************************************************)
EXTENDS TaskLifecycle_proofs

-----------------------------------------------------------------------------
(* Tokens.                                                                 *)

LEMMA TokenStep ==
  ASSUME Faults \cap {"database", "panic"} = {}, Typed,
         TokenIsOfTheExecution, [Next]_vars
  PROVE  TokenIsOfTheExecution'
<1> USE DEF Typed, ControlTyped, TokenIsOfTheExecution, Executes, WorkerStates,
        Working, Sent, workerVars, Work, BecomeIdle
<1>1. ASSUME NEW t \in Tasks, Insert(t) PROVE TokenIsOfTheExecution'
  BY <1>1 DEF Insert
<1>2. ASSUME NEW t \in Tasks, Enqueue(t) PROVE TokenIsOfTheExecution'
  BY <1>2 DEF Enqueue
<1>3. ASSUME NEW t \in Tasks, EnqueueFails(t) PROVE TokenIsOfTheExecution'
  BY <1>3 DEF EnqueueFails
<1>4. ASSUME NEW n \in Instances, Dequeue(n) PROVE TokenIsOfTheExecution'
  BY <1>4 DEF Dequeue
<1>5. ASSUME NEW n \in Instances, DequeueLost(n) PROVE TokenIsOfTheExecution'
  BY <1>5 DEF DequeueLost
<1>6. ASSUME NEW n \in Instances, InsertToken(n) PROVE TokenIsOfTheExecution'
  BY <1>6 DEF InsertToken
<1>7. ASSUME NEW n \in Instances, BeginPlanning(n) PROVE TokenIsOfTheExecution'
  BY <1>7 DEF BeginPlanning
<1>8. ASSUME NEW n \in Instances, BeginRunning(n) PROVE TokenIsOfTheExecution'
  BY <1>8 DEF BeginRunning
<1>9. ASSUME NEW n \in Instances, StartBatches(n) PROVE TokenIsOfTheExecution'
  BY <1>9 DEF StartBatches
<1>10. ASSUME NEW n \in Instances, DispatchCancelled(n)
       PROVE  TokenIsOfTheExecution'
  BY <1>10 DEF DispatchCancelled
<1>11. ASSUME NEW n \in Instances, DispatchAllFailed(n)
       PROVE  TokenIsOfTheExecution'
  BY <1>11 DEF DispatchAllFailed
<1>12. ASSUME NEW n \in Instances, DispatchDone(n) PROVE TokenIsOfTheExecution'
  BY <1>12 DEF DispatchDone
<1>13. ASSUME NEW n \in Instances, StoreResult(n) PROVE TokenIsOfTheExecution'
  BY <1>13 DEF StoreResult
<1>14. ASSUME NEW n \in Instances, ReportCompleted(n)
       PROVE  TokenIsOfTheExecution'
  BY <1>14 DEF ReportCompleted
<1>15. ASSUME NEW n \in Instances, ReportFailed(n) PROVE TokenIsOfTheExecution'
  BY <1>15 DEF ReportFailed
<1>16. ASSUME NEW n \in Instances, Return(n) PROVE TokenIsOfTheExecution'
  BY <1>16 DEF Return
<1>17. ASSUME NEW n \in Instances, InnerError(n) PROVE TokenIsOfTheExecution'
  BY <1>17 DEF InnerError
<1>18. ASSUME NEW n \in Instances, TimerFires(n) PROVE TokenIsOfTheExecution'
  BY <1>18 DEF TimerFires
<1>19. ASSUME NEW n \in Instances, TimeoutSetError(n)
       PROVE  TokenIsOfTheExecution'
  BY <1>19 DEF TimeoutSetError
<1>20. ASSUME NEW n \in Instances, TimeoutReport(n) PROVE TokenIsOfTheExecution'
  BY <1>20 DEF TimeoutReport
<1>21. ASSUME NEW n \in Instances, RemoveToken(n) PROVE TokenIsOfTheExecution'
  BY <1>21 DEF RemoveToken
<1>22. ASSUME NEW n \in Instances, Abandon(n) PROVE TokenIsOfTheExecution'
  BY <1>22 DEF Abandon
<1>23. ASSUME NEW n \in Instances, Crash(n) PROVE TokenIsOfTheExecution'
  BY <1>23 DEF Crash
<1>24. ASSUME NEW r \in Requests, NEW n \in Instances, NEW t \in Tasks,
              CancelRead(r, n, t)
       PROVE  TokenIsOfTheExecution'
  BY <1>24 DEF CancelRead
<1>25. ASSUME NEW r \in Requests, CancelSignal(r) PROVE TokenIsOfTheExecution'
  BY <1>25 DEF CancelSignal
<1>26. ASSUME NEW r \in Requests, CancelSetError(r) PROVE TokenIsOfTheExecution'
  BY <1>26 DEF CancelSetError
<1>27. ASSUME NEW r \in Requests, CancelMark(r) PROVE TokenIsOfTheExecution'
  BY <1>27 DEF CancelMark
<1>28. ASSUME NEW r \in Requests, CancelReport(r) PROVE TokenIsOfTheExecution'
  BY <1>28 DEF CancelReport
<1>29. ASSUME NEW r \in Requests, CancelRemoveToken(r)
       PROVE  TokenIsOfTheExecution'
  <2>1. request[r].on \in Instances /\ UNCHANGED <<at, task>>
    BY <1>29, RequestTask DEF CancelRemoveToken, Proceed
  <2>2. \A m \in Instances : tokens'[m] \subseteq tokens[m]
    BY <1>29, <2>1 DEF CancelRemoveToken
  <2> QED
    BY <2>1, <2>2
<1>30. ASSUME NEW r \in Requests, CancelError(r) PROVE TokenIsOfTheExecution'
  BY <1>30 DEF CancelError
<1>31. CASE UNCHANGED vars
  BY <1>31 DEF vars
<1> QED
  BY <1>1, <1>2, <1>3, <1>4, <1>5, <1>6, <1>7, <1>8, <1>9, <1>10, <1>11,
     <1>12, <1>13, <1>14, <1>15, <1>16, <1>17, <1>18, <1>19, <1>20, <1>21,
     <1>22, <1>23, <1>24, <1>25, <1>26, <1>27, <1>28, <1>29, <1>30, <1>31
  DEF Next, WorkerMove, RequestMove

\* As long as no failing statement and no panic skips the removal, a key of
\* cancellation_tokens is that of the task under execution.
THEOREM TokensAreCurrent ==
  Faults \cap {"database", "panic"} = {} => (Spec => []TokenIsOfTheExecution)
<1> SUFFICES ASSUME Faults \cap {"database", "panic"} = {}
             PROVE  Spec => []TokenIsOfTheExecution
  OBVIOUS
<1>1. Init => TokenIsOfTheExecution
  BY DEF Init, TokenIsOfTheExecution
<1>2. IInv /\ TokenIsOfTheExecution /\ [Next]_vars => TokenIsOfTheExecution'
  BY TokenStep, Parts
<1> QED
  BY <1>1, <1>2, InvariantHolds, PTL DEF Spec

-----------------------------------------------------------------------------
(* Signals.                                                                *)

\* An idle worker has no task, and one whose token is cancelled has a task that
\* somebody has cancelled.
SignalsAreAsked ==
  \A n \in Instances :
    /\ at[n] = "idle" => task[n] = NoTask
    /\ signalled[n] => at[n] # "idle" /\ CancelAsked(task[n])

LEMMA SignalsAskedStep ==
  ASSUME Typed, SignalsAreAsked, [Next]_vars PROVE SignalsAreAsked'
<1> USE NoTaskAssumption
    DEF Typed, ControlTyped, SignalsAreAsked, workerVars, Work, BecomeIdle
<1>0. \A u \in Tasks : CancelAsked(u) => CancelAsked(u)'
  BY AskedStays
<1>1. ASSUME NEW t \in Tasks, Insert(t) PROVE SignalsAreAsked'
  BY <1>1, <1>0 DEF Insert
<1>2. ASSUME NEW t \in Tasks, Enqueue(t) PROVE SignalsAreAsked'
  BY <1>2, <1>0 DEF Enqueue
<1>3. ASSUME NEW t \in Tasks, EnqueueFails(t) PROVE SignalsAreAsked'
  BY <1>3, <1>0 DEF EnqueueFails
<1>4. ASSUME NEW n \in Instances, Dequeue(n) PROVE SignalsAreAsked'
  BY <1>4, <1>0 DEF Dequeue
<1>5. ASSUME NEW n \in Instances, DequeueLost(n) PROVE SignalsAreAsked'
  BY <1>5, <1>0 DEF DequeueLost
<1>6. ASSUME NEW n \in Instances, InsertToken(n) PROVE SignalsAreAsked'
  <2>1. \A m \in Instances :
          signalled'[m] =>
            m # n /\ signalled[m] /\ at'[m] = at[m] /\ task'[m] = task[m]
    <3>1. signalled' = [signalled EXCEPT ![n] = FALSE]
      BY <1>6 DEF InsertToken
    <3>2. \A m \in Instances : m # n => at'[m] = at[m] /\ task'[m] = task[m]
      BY <1>6 DEF InsertToken
    <3> QED
      BY <3>1, <3>2, Zenon DEF SignalsTyped
  <2>2. at'[n] = "idle" => task'[n] = NoTask
    BY <1>6 DEF InsertToken
  <2>3. \A m \in Instances : m # n => at'[m] = at[m] /\ task'[m] = task[m]
    BY <1>6 DEF InsertToken
  <2> QED
    BY <1>0, <2>1, <2>2, <2>3
<1>7. ASSUME NEW n \in Instances, BeginPlanning(n) PROVE SignalsAreAsked'
  BY <1>7, <1>0 DEF BeginPlanning
<1>8. ASSUME NEW n \in Instances, BeginRunning(n) PROVE SignalsAreAsked'
  BY <1>8, <1>0 DEF BeginRunning
<1>9. ASSUME NEW n \in Instances, StartBatches(n) PROVE SignalsAreAsked'
  BY <1>9, <1>0 DEF StartBatches
<1>10. ASSUME NEW n \in Instances, DispatchCancelled(n) PROVE SignalsAreAsked'
  BY <1>10, <1>0 DEF DispatchCancelled
<1>11. ASSUME NEW n \in Instances, DispatchAllFailed(n) PROVE SignalsAreAsked'
  BY <1>11, <1>0 DEF DispatchAllFailed
<1>12. ASSUME NEW n \in Instances, DispatchDone(n) PROVE SignalsAreAsked'
  BY <1>12, <1>0 DEF DispatchDone
<1>13. ASSUME NEW n \in Instances, StoreResult(n) PROVE SignalsAreAsked'
  BY <1>13, <1>0 DEF StoreResult
<1>14. ASSUME NEW n \in Instances, ReportCompleted(n) PROVE SignalsAreAsked'
  BY <1>14, <1>0 DEF ReportCompleted
<1>15. ASSUME NEW n \in Instances, ReportFailed(n) PROVE SignalsAreAsked'
  BY <1>15, <1>0 DEF ReportFailed
<1>16. ASSUME NEW n \in Instances, Return(n) PROVE SignalsAreAsked'
  BY <1>16, <1>0 DEF Return
<1>17. ASSUME NEW n \in Instances, InnerError(n) PROVE SignalsAreAsked'
  BY <1>17, <1>0 DEF InnerError
<1>18. ASSUME NEW n \in Instances, TimerFires(n) PROVE SignalsAreAsked'
  BY <1>18, <1>0 DEF TimerFires
<1>19. ASSUME NEW n \in Instances, TimeoutSetError(n) PROVE SignalsAreAsked'
  BY <1>19, <1>0 DEF TimeoutSetError
<1>20. ASSUME NEW n \in Instances, TimeoutReport(n) PROVE SignalsAreAsked'
  BY <1>20, <1>0 DEF TimeoutReport
<1>21. ASSUME NEW n \in Instances, RemoveToken(n) PROVE SignalsAreAsked'
  <2>1. \A m \in Instances :
          signalled'[m] =>
            m # n /\ signalled[m] /\ at'[m] = at[m] /\ task'[m] = task[m]
    <3>1. signalled' = [signalled EXCEPT ![n] = FALSE]
      BY <1>21 DEF RemoveToken
    <3>2. \A m \in Instances : m # n => at'[m] = at[m] /\ task'[m] = task[m]
      BY <1>21 DEF RemoveToken
    <3> QED
      BY <3>1, <3>2, Zenon DEF SignalsTyped
  <2>2. at'[n] = "idle" => task'[n] = NoTask
    BY <1>21 DEF RemoveToken
  <2>3. \A m \in Instances : m # n => at'[m] = at[m] /\ task'[m] = task[m]
    BY <1>21 DEF RemoveToken
  <2> QED
    BY <1>0, <2>1, <2>2, <2>3
<1>22. ASSUME NEW n \in Instances, Abandon(n) PROVE SignalsAreAsked'
  <2>1. \A m \in Instances :
          signalled'[m] =>
            m # n /\ signalled[m] /\ at'[m] = at[m] /\ task'[m] = task[m]
    <3>1. signalled' = [signalled EXCEPT ![n] = FALSE]
      BY <1>22 DEF Abandon
    <3>2. \A m \in Instances : m # n => at'[m] = at[m] /\ task'[m] = task[m]
      BY <1>22 DEF Abandon
    <3> QED
      BY <3>1, <3>2, Zenon DEF SignalsTyped
  <2>2. at'[n] = "idle" => task'[n] = NoTask
    BY <1>22 DEF Abandon
  <2>3. \A m \in Instances : m # n => at'[m] = at[m] /\ task'[m] = task[m]
    BY <1>22 DEF Abandon
  <2> QED
    BY <1>0, <2>1, <2>2, <2>3
<1>23. ASSUME NEW n \in Instances, Crash(n) PROVE SignalsAreAsked'
  <2>1. \A m \in Instances :
          signalled'[m] =>
            m # n /\ signalled[m] /\ at'[m] = at[m] /\ task'[m] = task[m]
    <3>1. signalled' = [signalled EXCEPT ![n] = FALSE]
      BY <1>23 DEF Crash
    <3>2. \A m \in Instances : m # n => at'[m] = at[m] /\ task'[m] = task[m]
      BY <1>23 DEF Crash
    <3> QED
      BY <3>1, <3>2, Zenon DEF SignalsTyped
  <2>2. at'[n] = "idle" => task'[n] = NoTask
    BY <1>23 DEF Crash
  <2>3. \A m \in Instances : m # n => at'[m] = at[m] /\ task'[m] = task[m]
    BY <1>23 DEF Crash
  <2> QED
    BY <1>0, <2>1, <2>2, <2>3
<1>24. ASSUME NEW r \in Requests, NEW n \in Instances, NEW t \in Tasks,
              CancelRead(r, n, t)
       PROVE  SignalsAreAsked'
  BY <1>24, <1>0 DEF CancelRead
<1>25. ASSUME NEW r \in Requests, CancelSignal(r) PROVE SignalsAreAsked'
  <2> DEFINE m == request[r].on
             t == request[r].task
  <2>1. t \in Tasks /\ CancelAsked(t) /\ m \in Instances /\ UNCHANGED <<at, task>>
    BY <1>25, RequestAsked, RequestTask DEF CancelSignal, Proceed
  <2>2. \A n \in Instances : signalled'[n] => signalled[n] \/ (n = m /\ Executes(m, t))
    <3> DEFINE on == signalled[m] \/ (t \in tokens[m] /\ Executes(m, t))
    <3>1. signalled' = [signalled EXCEPT ![m] = on]
      BY <1>25 DEF CancelSignal
    <3>2. on => signalled[m] \/ Executes(m, t)
      OBVIOUS
    <3> HIDE DEF on, m, t
    <3> QED
      BY <3>1, <3>2, Zenon DEF SignalsTyped
  <2> HIDE DEF m, t
  <2> QED
    BY <1>0, <2>1, <2>2 DEF Executes
<1>26. ASSUME NEW r \in Requests, CancelSetError(r) PROVE SignalsAreAsked'
  BY <1>26, <1>0 DEF CancelSetError
<1>27. ASSUME NEW r \in Requests, CancelMark(r) PROVE SignalsAreAsked'
  BY <1>27, <1>0 DEF CancelMark
<1>28. ASSUME NEW r \in Requests, CancelReport(r) PROVE SignalsAreAsked'
  BY <1>28, <1>0 DEF CancelReport
<1>29. ASSUME NEW r \in Requests, CancelRemoveToken(r) PROVE SignalsAreAsked'
  BY <1>29, <1>0 DEF CancelRemoveToken
<1>30. ASSUME NEW r \in Requests, CancelError(r) PROVE SignalsAreAsked'
  BY <1>30, <1>0 DEF CancelError
<1>31. CASE UNCHANGED vars
  BY <1>31 DEF vars, CancelAsked
<1> QED
  BY <1>1, <1>2, <1>3, <1>4, <1>5, <1>6, <1>7, <1>8, <1>9, <1>10, <1>11,
     <1>12, <1>13, <1>14, <1>15, <1>16, <1>17, <1>18, <1>19, <1>20, <1>21,
     <1>22, <1>23, <1>24, <1>25, <1>26, <1>27, <1>28, <1>29, <1>30, <1>31
  DEF Next, WorkerMove, RequestMove

-----------------------------------------------------------------------------
(* Without failures, a task is carried on until it has a verdict.          *)

Carried(t) ==
  \/ submit[t] = "inserted"
  \/ Queued(t)
  \/ \E n \in Instances : task[n] = t /\ at[n] \notin {"returnOk", "returnErr"}

\* What a worker has reported is still there.
ReportedKept ==
  \A n \in Instances : at[n] \in Sent =>
    row[task[n]] \notin Cancellable \/ CancelAsked(task[n])

LEMMA AppendQueues ==
  ASSUME QueueTyped, NEW t \in Tasks, queue' = Append(queue, t)
  PROVE  Queued(t)' /\ \A u \in Tasks : Queued(u) => Queued(u)'
<1>1. /\ DOMAIN queue = 1 .. Len(queue) /\ DOMAIN queue' = 1 .. Len(queue) + 1
      /\ Len(queue) \in Nat /\ queue'[Len(queue) + 1] = t
      /\ \A k \in 1 .. Len(queue) : queue'[k] = queue[k]
  BY DEF QueueTyped
<1>2. Len(queue) + 1 \in DOMAIN queue' /\ DOMAIN queue \subseteq DOMAIN queue'
  BY <1>1
<1> QED
  BY <1>1, <1>2 DEF Queued

LEMMA PopKeeps ==
  ASSUME QueueTyped, queue # <<>>, queue' = Tail(queue)
  PROVE  /\ Head(queue) \in Tasks
         /\ \A u \in Tasks : Queued(u) => Queued(u)' \/ u = Head(queue)
<1>1. /\ DOMAIN queue = 1 .. Len(queue) /\ DOMAIN queue' = 1 .. Len(queue) - 1
      /\ Len(queue) \in Nat /\ Head(queue) = queue[1] /\ Head(queue) \in Tasks
      /\ \A k \in 1 .. Len(queue) - 1 : queue'[k] = queue[k + 1]
  BY DEF QueueTyped
<1>2. \A k \in DOMAIN queue :
        k # 1 => k - 1 \in DOMAIN queue' /\ queue'[k - 1] = queue[k]
  BY <1>1
<1> QED
  BY <1>1, <1>2 DEF Queued

LEMMA CarriedStep ==
  ASSUME Faults = {}, IInv, Typed, SignalsAreAsked,
         ReportedKept, NoneStranded, [Next]_vars
  PROVE  ReportedKept' /\ NoneStranded'
<1> DEFINE Goal == ReportedKept' /\ NoneStranded'
<1> USE NoTaskAssumption
    DEF Typed, ControlTyped, ReportedKept, Carried, Final, Cancellable,
        Sent, Working, workerVars, rowVars, Work, BecomeIdle, SetRow, SetError
<1>0. \A u \in Tasks : CancelAsked(u) => CancelAsked(u)'
  BY AskedStays
<1>queued. UNCHANGED queue => \A u \in Tasks : Queued(u)' = Queued(u)
  BY DEF Queued
<1>report. AboutToReport /\ WorkedOnOnce
  BY DEF IInv
<1>carried. \A u \in Tasks : row[u] \in Cancellable => CancelAsked(u) \/ Carried(u)
  BY DEF NoneStranded
<1>goal. (\A u \in Tasks : row[u] \in Cancellable => CancelAsked(u) \/ Carried(u))'
           => NoneStranded'
  BY DEF NoneStranded
<1>1. ASSUME NEW t \in Tasks, Insert(t) PROVE Goal
  BY <1>1, <1>0, <1>queued, <1>report, <1>carried, <1>goal
  DEF Insert, WorkedOnOnce
<1>2. ASSUME NEW t \in Tasks, Enqueue(t) PROVE Goal
  <2>1. Queued(t)' /\ \A u \in Tasks : Queued(u) => Queued(u)'
    <3>1. queue' = Append(queue, t)
      BY <1>2 DEF Enqueue
    <3> QED
      BY <3>1, AppendQueues
  <2> QED
    BY <1>2, <1>0, <1>carried, <1>goal, <2>1 DEF Enqueue
<1>3. ASSUME NEW t \in Tasks, EnqueueFails(t) PROVE Goal
  BY <1>3 DEF EnqueueFails
<1>4. ASSUME NEW n \in Instances, Dequeue(n) PROVE Goal
  <2>1. Head(queue) \in Tasks
        /\ \A u \in Tasks : Queued(u) => Queued(u)' \/ u = Head(queue)
    BY <1>4, PopKeeps DEF Dequeue
  <2>2. /\ at[n] = "idle" /\ at' = [at EXCEPT ![n] = "popped"]
        /\ task' = [task EXCEPT ![n] = Head(queue)]
        /\ UNCHANGED <<row, submit>>
    BY <1>4 DEF Dequeue
  <2>3. \A m \in Instances : at[m] = "idle" => task[m] = NoTask
    BY DEF SignalsAreAsked
  <2> QED
    BY <1>0, <1>carried, <1>goal, <2>1, <2>2, <2>3
<1>5. ASSUME NEW n \in Instances, DequeueLost(n) PROVE Goal
  BY <1>5 DEF DequeueLost
<1>6. ASSUME NEW n \in Instances, InsertToken(n) PROVE Goal
  BY <1>6, <1>0, <1>queued, <1>report, <1>carried, <1>goal
  DEF InsertToken
<1>7. ASSUME NEW n \in Instances, BeginPlanning(n) PROVE Goal
  BY <1>7, <1>0, <1>queued, <1>report, <1>carried, <1>goal
  DEF BeginPlanning, WorkedOnOnce
<1>8. ASSUME NEW n \in Instances, BeginRunning(n) PROVE Goal
  BY <1>8, <1>0, <1>queued, <1>report, <1>carried, <1>goal
  DEF BeginRunning, WorkedOnOnce
<1>9. ASSUME NEW n \in Instances, StartBatches(n) PROVE Goal
  BY <1>9, <1>0, <1>queued, <1>report, <1>carried, <1>goal
  DEF StartBatches
<1>10. ASSUME NEW n \in Instances, DispatchCancelled(n) PROVE Goal
  BY <1>10, <1>0, <1>queued, <1>report, <1>carried, <1>goal
  DEF DispatchCancelled, SignalsAreAsked
<1>11. ASSUME NEW n \in Instances, DispatchAllFailed(n) PROVE Goal
  BY <1>11, <1>0, <1>queued, <1>report, <1>carried, <1>goal
  DEF DispatchAllFailed
<1>12. ASSUME NEW n \in Instances, DispatchDone(n) PROVE Goal
  BY <1>12, <1>0, <1>queued, <1>report, <1>carried, <1>goal
  DEF DispatchDone
<1>13. ASSUME NEW n \in Instances, StoreResult(n) PROVE Goal
  BY <1>13, <1>0, <1>queued, <1>report, <1>carried, <1>goal
  DEF StoreResult
<1>14. ASSUME NEW n \in Instances, ReportCompleted(n) PROVE Goal
  BY <1>14, <1>0, <1>queued, <1>report, <1>carried, <1>goal
  DEF ReportCompleted, AboutToReport
<1>15. ASSUME NEW n \in Instances, ReportFailed(n) PROVE Goal
  BY <1>15, <1>0, <1>queued, <1>report, <1>carried, <1>goal
  DEF ReportFailed, AboutToReport
<1>16. ASSUME NEW n \in Instances, Return(n) PROVE Goal
  BY <1>16, <1>0, <1>queued, <1>report, <1>carried, <1>goal
  DEF Return, AboutToReport
<1>17. ASSUME NEW n \in Instances, InnerError(n) PROVE Goal
  BY <1>17, <1>0, <1>queued, <1>report, <1>carried, <1>goal
  DEF InnerError
<1>18. ASSUME NEW n \in Instances, TimerFires(n) PROVE Goal
  BY <1>18, <1>0, <1>queued, <1>report, <1>carried, <1>goal
  DEF TimerFires
<1>19. ASSUME NEW n \in Instances, TimeoutSetError(n) PROVE Goal
  BY <1>19, <1>0, <1>queued, <1>report, <1>carried, <1>goal
  DEF TimeoutSetError
<1>20. ASSUME NEW n \in Instances, TimeoutReport(n) PROVE Goal
  BY <1>20, <1>0, <1>queued, <1>report, <1>carried, <1>goal
  DEF TimeoutReport
<1>21. ASSUME NEW n \in Instances, RemoveToken(n) PROVE Goal
  BY <1>21, <1>0, <1>queued, <1>report, <1>carried, <1>goal
  DEF RemoveToken
<1>22. ASSUME NEW n \in Instances, Abandon(n) PROVE Goal
  BY <1>22 DEF Abandon
<1>23. ASSUME NEW n \in Instances, Crash(n) PROVE Goal
  BY <1>23 DEF Crash
<1>24. ASSUME NEW r \in Requests, NEW n \in Instances, NEW t \in Tasks,
              CancelRead(r, n, t)
       PROVE  Goal
  BY <1>24, <1>0, <1>queued, <1>report, <1>carried, <1>goal
  DEF CancelRead
<1>25. ASSUME NEW r \in Requests, CancelSignal(r) PROVE Goal
  BY <1>25, <1>0, <1>queued, <1>report, <1>carried, <1>goal
  DEF CancelSignal
<1>26. ASSUME NEW r \in Requests, CancelSetError(r) PROVE Goal
  <2>1. request[r].task \in Tasks /\ CancelAsked(request[r].task)
    BY <1>26, RequestAsked DEF CancelSetError, Proceed
  <2> QED
    BY <1>26, <1>0, <1>queued, <1>carried, <1>goal, <2>1 DEF CancelSetError
<1>27. ASSUME NEW r \in Requests, CancelMark(r) PROVE Goal
  <2>1. request[r].task \in Tasks /\ CancelAsked(request[r].task)
    BY <1>27, RequestAsked DEF CancelMark, Proceed
  <2> QED
    BY <1>27, <1>0, <1>queued, <1>carried, <1>goal, <2>1 DEF CancelMark
<1>28. ASSUME NEW r \in Requests, CancelReport(r) PROVE Goal
  BY <1>28, <1>0, <1>queued, <1>report, <1>carried, <1>goal
  DEF CancelReport
<1>29. ASSUME NEW r \in Requests, CancelRemoveToken(r) PROVE Goal
  BY <1>29, <1>0, <1>queued, <1>report, <1>carried, <1>goal
  DEF CancelRemoveToken
<1>30. ASSUME NEW r \in Requests, CancelError(r) PROVE Goal
  BY <1>30, <1>0, <1>queued, <1>report, <1>carried, <1>goal
  DEF CancelError
<1>31. CASE UNCHANGED vars
  BY <1>31 DEF vars, Queued, CancelAsked, NoneStranded
<1> QED
  BY <1>1, <1>2, <1>3, <1>4, <1>5, <1>6, <1>7, <1>8, <1>9, <1>10, <1>11,
     <1>12, <1>13, <1>14, <1>15, <1>16, <1>17, <1>18, <1>19, <1>20, <1>21,
     <1>22, <1>23, <1>24, <1>25, <1>26, <1>27, <1>28, <1>29, <1>30, <1>31
  DEF Next, WorkerMove, RequestMove

\* Without failures, a task with no verdict yet is still being carried, by
\* create_task, the queue or a worker, or somebody has cancelled it.
THEOREM NoTaskStranded == Faults = {} => (Spec => []NoneStranded)
<1> SUFFICES ASSUME Faults = {} PROVE Spec => []NoneStranded
  OBVIOUS
<1> DEFINE Inv == SignalsAreAsked /\ ReportedKept /\ NoneStranded
<1>1. Init => Inv
  BY DEF Init, SignalsAreAsked, ReportedKept, NoneStranded, Sent, Cancellable
<1>2. IInv /\ Inv /\ [Next]_vars => Inv'
  BY CarriedStep, SignalsAskedStep, Parts
<1> QED
  BY <1>1, <1>2, InvariantHolds, PTL DEF Spec

-----------------------------------------------------------------------------
(* The signal of a cancel request.                                         *)

\* The execution of the task has begun to write the row.
Begun(t) ==
  /\ submit[t] \in {"accepted", "refused"} /\ ~ Queued(t)
  /\ \A n \in Instances : task[n] = t => at[n] \notin {"popped", "begin"}

\* A request for the task is done on instance n, whatever it had found.
Removed(n, t) ==
  \E q \in Requests :
    request[q].at = "done" /\ request[q].task = t /\ request[q].on = n

RowHasBegun == \A t \in Tasks : row[t] \in {"planning", "running"} => Begun(t)

\* The token of an execution is registered, unless a request has removed it.
TokenIsHeld ==
  \A n \in Instances, t \in Tasks :
    Executes(n, t) => t \in tokens[n] \/ Removed(n, t)

\* A request that found the task begun, and did so on the instance that
\* executes it, finds the token, and has signalled the execution afterwards,
\* unless one that found the task pending has taken the token.
Comes(q, n, t) ==
  /\ Begun(t)
  /\ \/ ~ Executes(n, t)
     \/ TokenTaken(n, t)
     \/ request[q].at = "read" /\ t \in tokens[n]
     \/ signalled[n]

SignalComes ==
  \A q \in Requests :
    request[q].at \in InHandler \cup {"done"} /\ request[q].saw # "pending" =>
      Comes(q, request[q].on, request[q].task)

LEMMA BegunStays ==
  ASSUME Typed, WorkedOnOnce, [Next]_vars, NEW u \in Tasks, Begun(u) PROVE Begun(u)'
<1> USE NoTaskAssumption DEF Typed, ControlTyped, Begun, workerVars, Work, BecomeIdle
<1>queued. UNCHANGED queue => Queued(u)' = Queued(u)
  BY DEF Queued
<1>1. ASSUME NEW t \in Tasks, Insert(t) PROVE Begun(u)'
  BY <1>1, <1>queued DEF Insert
<1>2. ASSUME NEW t \in Tasks, Enqueue(t) PROVE Begun(u)'
  <2>1. ~ Queued(t) /\ u # t
    BY <1>2 DEF Enqueue, WorkedOnOnce
  <2>2. ~ Queued(u)'
    BY <1>2, <1>queued, <2>1, QueueAppended DEF Enqueue
  <2> QED
    BY <1>2, <2>2 DEF Enqueue
<1>3. ASSUME NEW t \in Tasks, EnqueueFails(t) PROVE Begun(u)'
  <2>1. ~ Queued(t) /\ u # t
    BY <1>3 DEF EnqueueFails, WorkedOnOnce
  <2>2. ~ Queued(u)'
    BY <1>3, <1>queued, <2>1, QueueAppended DEF EnqueueFails
  <2> QED
    BY <1>3, <2>2 DEF EnqueueFails
<1>4. ASSUME NEW n \in Instances, Dequeue(n) PROVE Begun(u)'
  <2>1. Queued(Head(queue)) /\ ~ Queued(u)'
    BY <1>4, QueuePopped DEF Dequeue
  <2> QED
    BY <1>4, <2>1 DEF Dequeue
<1>5. ASSUME NEW n \in Instances, DequeueLost(n) PROVE Begun(u)'
  <2>1. ~ Queued(u)'
    BY <1>5, QueuePopped DEF DequeueLost
  <2> QED
    BY <1>5, <2>1 DEF DequeueLost
<1>6. ASSUME NEW n \in Instances, InsertToken(n) PROVE Begun(u)'
  BY <1>6, <1>queued DEF InsertToken
<1>7. ASSUME NEW n \in Instances, BeginPlanning(n) PROVE Begun(u)'
  BY <1>7, <1>queued DEF BeginPlanning
<1>8. ASSUME NEW n \in Instances, BeginRunning(n) PROVE Begun(u)'
  BY <1>8, <1>queued DEF BeginRunning
<1>9. ASSUME NEW n \in Instances, StartBatches(n) PROVE Begun(u)'
  BY <1>9, <1>queued DEF StartBatches
<1>10. ASSUME NEW n \in Instances, DispatchCancelled(n) PROVE Begun(u)'
  BY <1>10, <1>queued DEF DispatchCancelled
<1>11. ASSUME NEW n \in Instances, DispatchAllFailed(n) PROVE Begun(u)'
  BY <1>11, <1>queued DEF DispatchAllFailed
<1>12. ASSUME NEW n \in Instances, DispatchDone(n) PROVE Begun(u)'
  BY <1>12, <1>queued DEF DispatchDone
<1>13. ASSUME NEW n \in Instances, StoreResult(n) PROVE Begun(u)'
  BY <1>13, <1>queued DEF StoreResult
<1>14. ASSUME NEW n \in Instances, ReportCompleted(n) PROVE Begun(u)'
  BY <1>14, <1>queued DEF ReportCompleted
<1>15. ASSUME NEW n \in Instances, ReportFailed(n) PROVE Begun(u)'
  BY <1>15, <1>queued DEF ReportFailed
<1>16. ASSUME NEW n \in Instances, Return(n) PROVE Begun(u)'
  BY <1>16, <1>queued DEF Return
<1>17. ASSUME NEW n \in Instances, InnerError(n) PROVE Begun(u)'
  BY <1>17, <1>queued DEF InnerError
<1>18. ASSUME NEW n \in Instances, TimerFires(n) PROVE Begun(u)'
  BY <1>18, <1>queued DEF TimerFires
<1>19. ASSUME NEW n \in Instances, TimeoutSetError(n) PROVE Begun(u)'
  BY <1>19, <1>queued DEF TimeoutSetError
<1>20. ASSUME NEW n \in Instances, TimeoutReport(n) PROVE Begun(u)'
  BY <1>20, <1>queued DEF TimeoutReport
<1>21. ASSUME NEW n \in Instances, RemoveToken(n) PROVE Begun(u)'
  BY <1>21, <1>queued DEF RemoveToken
<1>22. ASSUME NEW n \in Instances, Abandon(n) PROVE Begun(u)'
  BY <1>22, <1>queued DEF Abandon
<1>23. ASSUME NEW n \in Instances, Crash(n) PROVE Begun(u)'
  BY <1>23, <1>queued DEF Crash
<1>24. ASSUME NEW r \in Requests, NEW n \in Instances, NEW t \in Tasks,
              CancelRead(r, n, t)
       PROVE  Begun(u)'
  BY <1>24, <1>queued DEF CancelRead
<1>25. ASSUME NEW r \in Requests, CancelSignal(r) PROVE Begun(u)'
  BY <1>25, <1>queued DEF CancelSignal
<1>26. ASSUME NEW r \in Requests, CancelSetError(r) PROVE Begun(u)'
  BY <1>26, <1>queued DEF CancelSetError
<1>27. ASSUME NEW r \in Requests, CancelMark(r) PROVE Begun(u)'
  BY <1>27, <1>queued DEF CancelMark
<1>28. ASSUME NEW r \in Requests, CancelReport(r) PROVE Begun(u)'
  BY <1>28, <1>queued DEF CancelReport
<1>29. ASSUME NEW r \in Requests, CancelRemoveToken(r) PROVE Begun(u)'
  BY <1>29, <1>queued DEF CancelRemoveToken
<1>30. ASSUME NEW r \in Requests, CancelError(r) PROVE Begun(u)'
  BY <1>30, <1>queued DEF CancelError
<1>31. CASE UNCHANGED vars
  BY <1>31, <1>queued DEF vars
<1> QED
  BY <1>1, <1>2, <1>3, <1>4, <1>5, <1>6, <1>7, <1>8, <1>9, <1>10, <1>11,
     <1>12, <1>13, <1>14, <1>15, <1>16, <1>17, <1>18, <1>19, <1>20, <1>21,
     <1>22, <1>23, <1>24, <1>25, <1>26, <1>27, <1>28, <1>29, <1>30, <1>31
  DEF Next, WorkerMove, RequestMove

LEMMA RowHasBegunStep ==
  ASSUME Typed, WorkedOnOnce, RowHasBegun, [Next]_vars PROVE RowHasBegun'
<1> USE NoTaskAssumption
    DEF Typed, ControlTyped, RowHasBegun, rowVars, workerVars, Work, BecomeIdle,
        SetRow, SetError
<1>begun. \A u \in Tasks : Begun(u) => Begun(u)'
  BY BegunStays
<1>1. ASSUME NEW t \in Tasks, Insert(t) PROVE RowHasBegun'
  BY <1>1, <1>begun DEF Insert
<1>2. ASSUME NEW t \in Tasks, Enqueue(t) PROVE RowHasBegun'
  BY <1>2, <1>begun DEF Enqueue
<1>3. ASSUME NEW t \in Tasks, EnqueueFails(t) PROVE RowHasBegun'
  BY <1>3, <1>begun DEF EnqueueFails
<1>4. ASSUME NEW n \in Instances, Dequeue(n) PROVE RowHasBegun'
  BY <1>4, <1>begun DEF Dequeue
<1>5. ASSUME NEW n \in Instances, DequeueLost(n) PROVE RowHasBegun'
  BY <1>5, <1>begun DEF DequeueLost
<1>6. ASSUME NEW n \in Instances, InsertToken(n) PROVE RowHasBegun'
  BY <1>6, <1>begun DEF InsertToken
<1>7. ASSUME NEW n \in Instances, BeginPlanning(n) PROVE RowHasBegun'
  <2>1. Begun(task[n])'
    <3>1. ~ Queued(task[n])'
      BY <1>7, QueueSame DEF BeginPlanning, WorkedOnOnce
    <3> QED
      BY <1>7, <3>1 DEF BeginPlanning, WorkedOnOnce, Begun
  <2>2. task[n] \in Tasks /\ row' = [row EXCEPT ![task[n]] = "planning"]
        /\ task' = task
    BY <1>7 DEF BeginPlanning
  <2> QED
    BY <1>begun, <2>1, <2>2
<1>8. ASSUME NEW n \in Instances, BeginRunning(n) PROVE RowHasBegun'
  <2>1. Begun(task[n])'
    <3>1. ~ Queued(task[n])'
      BY <1>8, QueueSame DEF BeginRunning, WorkedOnOnce
    <3> QED
      BY <1>8, <3>1 DEF BeginRunning, WorkedOnOnce, Begun
  <2>2. task[n] \in Tasks /\ row' = [row EXCEPT ![task[n]] = "running"]
        /\ task' = task
    BY <1>8 DEF BeginRunning
  <2> QED
    BY <1>begun, <2>1, <2>2
<1>9. ASSUME NEW n \in Instances, StartBatches(n) PROVE RowHasBegun'
  BY <1>9, <1>begun DEF StartBatches
<1>10. ASSUME NEW n \in Instances, DispatchCancelled(n) PROVE RowHasBegun'
  BY <1>10, <1>begun DEF DispatchCancelled
<1>11. ASSUME NEW n \in Instances, DispatchAllFailed(n) PROVE RowHasBegun'
  BY <1>11, <1>begun DEF DispatchAllFailed
<1>12. ASSUME NEW n \in Instances, DispatchDone(n) PROVE RowHasBegun'
  BY <1>12, <1>begun DEF DispatchDone
<1>13. ASSUME NEW n \in Instances, StoreResult(n) PROVE RowHasBegun'
  BY <1>13, <1>begun DEF StoreResult
<1>14. ASSUME NEW n \in Instances, ReportCompleted(n) PROVE RowHasBegun'
  BY <1>14, <1>begun DEF ReportCompleted
<1>15. ASSUME NEW n \in Instances, ReportFailed(n) PROVE RowHasBegun'
  BY <1>15, <1>begun DEF ReportFailed
<1>16. ASSUME NEW n \in Instances, Return(n) PROVE RowHasBegun'
  BY <1>16, <1>begun DEF Return
<1>17. ASSUME NEW n \in Instances, InnerError(n) PROVE RowHasBegun'
  BY <1>17, <1>begun DEF InnerError
<1>18. ASSUME NEW n \in Instances, TimerFires(n) PROVE RowHasBegun'
  BY <1>18, <1>begun DEF TimerFires
<1>19. ASSUME NEW n \in Instances, TimeoutSetError(n) PROVE RowHasBegun'
  BY <1>19, <1>begun DEF TimeoutSetError
<1>20. ASSUME NEW n \in Instances, TimeoutReport(n) PROVE RowHasBegun'
  BY <1>20, <1>begun DEF TimeoutReport
<1>21. ASSUME NEW n \in Instances, RemoveToken(n) PROVE RowHasBegun'
  BY <1>21, <1>begun DEF RemoveToken
<1>22. ASSUME NEW n \in Instances, Abandon(n) PROVE RowHasBegun'
  BY <1>22, <1>begun DEF Abandon
<1>23. ASSUME NEW n \in Instances, Crash(n) PROVE RowHasBegun'
  BY <1>23, <1>begun DEF Crash
<1>24. ASSUME NEW r \in Requests, NEW n \in Instances, NEW t \in Tasks,
              CancelRead(r, n, t)
       PROVE  RowHasBegun'
  BY <1>24, <1>begun DEF CancelRead
<1>25. ASSUME NEW r \in Requests, CancelSignal(r) PROVE RowHasBegun'
  BY <1>25, <1>begun DEF CancelSignal
<1>26. ASSUME NEW r \in Requests, CancelSetError(r) PROVE RowHasBegun'
  BY <1>26, <1>begun, RequestTask DEF CancelSetError, Proceed
<1>27. ASSUME NEW r \in Requests, CancelMark(r) PROVE RowHasBegun'
  BY <1>27, <1>begun, RequestTask DEF CancelMark, Proceed
<1>28. ASSUME NEW r \in Requests, CancelReport(r) PROVE RowHasBegun'
  BY <1>28, <1>begun DEF CancelReport
<1>29. ASSUME NEW r \in Requests, CancelRemoveToken(r) PROVE RowHasBegun'
  BY <1>29, <1>begun DEF CancelRemoveToken
<1>30. ASSUME NEW r \in Requests, CancelError(r) PROVE RowHasBegun'
  BY <1>30, <1>begun DEF CancelError
<1>31. CASE UNCHANGED vars
  BY <1>31, <1>begun DEF vars
<1> QED
  BY <1>1, <1>2, <1>3, <1>4, <1>5, <1>6, <1>7, <1>8, <1>9, <1>10, <1>11,
     <1>12, <1>13, <1>14, <1>15, <1>16, <1>17, <1>18, <1>19, <1>20, <1>21,
     <1>22, <1>23, <1>24, <1>25, <1>26, <1>27, <1>28, <1>29, <1>30, <1>31
  DEF Next, WorkerMove, RequestMove

LEMMA DoneStays ==
  ASSUME RequestsTyped, [Next]_vars, NEW q \in Requests, request[q].at = "done"
  PROVE  request'[q] = request[q]
<1>1. ASSUME NEW r \in Requests, RequestMove(r) PROVE request'[q] = request[q]
  <2>1. request[r].at # "done" /\ \E x : request' = [request EXCEPT ![r] = x]
    BY <1>1 DEF RequestMove, CancelRead, CancelSignal, CancelSetError, CancelMark,
       CancelReport, CancelRemoveToken, CancelError, Proceed
  <2> QED
    BY <2>1 DEF RequestsTyped
<1>2. ASSUME NEW n \in Instances, Crash(n) PROVE request'[q] = request[q]
  BY <1>2 DEF Crash, InHandler
<1> QED
  BY <1>1, <1>2, OthersAskNothing DEF Next, vars

LEMMA TakenStays ==
  ASSUME RequestsTyped, [Next]_vars, NEW n, NEW t
  PROVE  /\ Removed(n, t) => Removed(n, t)'
         /\ TokenTaken(n, t) => TokenTaken(n, t)'
<1>1. \A q \in Requests : request[q].at = "done" => request'[q] = request[q]
  BY DoneStays
<1>2. Removed(n, t) => Removed(n, t)'
  BY <1>1 DEF Removed
<1>3. ASSUME TokenTaken(n, t) PROVE TokenTaken(n, t)'
  <2>1. PICK q \in Requests :
          request[q] = [at |-> "done", task |-> t, on |-> n, saw |-> "pending"]
    BY <1>3 DEF TokenTaken
  <2>2. request'[q] = request[q]
    BY <1>1, <2>1
  <2> QED
    BY <2>1, <2>2 DEF TokenTaken
<1> QED
  BY <1>2, <1>3

LEMMA TokenIsHeldStep ==
  ASSUME Typed, TokenIsHeld, [Next]_vars PROVE TokenIsHeld'
<1> USE NoTaskAssumption
    DEF Typed, ControlTyped, TokenIsHeld, Executes, WorkerStates, Working, Sent,
        workerVars, Work, BecomeIdle
<1>removed. \A m, u : Removed(m, u) => Removed(m, u)'
  BY TakenStays
<1>1. ASSUME NEW t \in Tasks, Insert(t) PROVE TokenIsHeld'
  BY <1>1, <1>removed DEF Insert
<1>2. ASSUME NEW t \in Tasks, Enqueue(t) PROVE TokenIsHeld'
  BY <1>2, <1>removed DEF Enqueue
<1>3. ASSUME NEW t \in Tasks, EnqueueFails(t) PROVE TokenIsHeld'
  BY <1>3, <1>removed DEF EnqueueFails
<1>4. ASSUME NEW n \in Instances, Dequeue(n) PROVE TokenIsHeld'
  BY <1>4, <1>removed DEF Dequeue
<1>5. ASSUME NEW n \in Instances, DequeueLost(n) PROVE TokenIsHeld'
  BY <1>5, <1>removed DEF DequeueLost
<1>6. ASSUME NEW n \in Instances, InsertToken(n) PROVE TokenIsHeld'
  BY <1>6, <1>removed DEF InsertToken
<1>7. ASSUME NEW n \in Instances, BeginPlanning(n) PROVE TokenIsHeld'
  BY <1>7, <1>removed DEF BeginPlanning
<1>8. ASSUME NEW n \in Instances, BeginRunning(n) PROVE TokenIsHeld'
  BY <1>8, <1>removed DEF BeginRunning
<1>9. ASSUME NEW n \in Instances, StartBatches(n) PROVE TokenIsHeld'
  BY <1>9, <1>removed DEF StartBatches
<1>10. ASSUME NEW n \in Instances, DispatchCancelled(n) PROVE TokenIsHeld'
  BY <1>10, <1>removed DEF DispatchCancelled
<1>11. ASSUME NEW n \in Instances, DispatchAllFailed(n) PROVE TokenIsHeld'
  BY <1>11, <1>removed DEF DispatchAllFailed
<1>12. ASSUME NEW n \in Instances, DispatchDone(n) PROVE TokenIsHeld'
  BY <1>12, <1>removed DEF DispatchDone
<1>13. ASSUME NEW n \in Instances, StoreResult(n) PROVE TokenIsHeld'
  BY <1>13, <1>removed DEF StoreResult
<1>14. ASSUME NEW n \in Instances, ReportCompleted(n) PROVE TokenIsHeld'
  BY <1>14, <1>removed DEF ReportCompleted
<1>15. ASSUME NEW n \in Instances, ReportFailed(n) PROVE TokenIsHeld'
  BY <1>15, <1>removed DEF ReportFailed
<1>16. ASSUME NEW n \in Instances, Return(n) PROVE TokenIsHeld'
  BY <1>16, <1>removed DEF Return
<1>17. ASSUME NEW n \in Instances, InnerError(n) PROVE TokenIsHeld'
  BY <1>17, <1>removed DEF InnerError
<1>18. ASSUME NEW n \in Instances, TimerFires(n) PROVE TokenIsHeld'
  BY <1>18, <1>removed DEF TimerFires
<1>19. ASSUME NEW n \in Instances, TimeoutSetError(n) PROVE TokenIsHeld'
  BY <1>19, <1>removed DEF TimeoutSetError
<1>20. ASSUME NEW n \in Instances, TimeoutReport(n) PROVE TokenIsHeld'
  BY <1>20, <1>removed DEF TimeoutReport
<1>21. ASSUME NEW n \in Instances, RemoveToken(n) PROVE TokenIsHeld'
  BY <1>21, <1>removed DEF RemoveToken
<1>22. ASSUME NEW n \in Instances, Abandon(n) PROVE TokenIsHeld'
  BY <1>22, <1>removed DEF Abandon
<1>23. ASSUME NEW n \in Instances, Crash(n) PROVE TokenIsHeld'
  BY <1>23, <1>removed DEF Crash
<1>24. ASSUME NEW r \in Requests, NEW n \in Instances, NEW t \in Tasks,
              CancelRead(r, n, t)
       PROVE  TokenIsHeld'
  BY <1>24, <1>removed DEF CancelRead
<1>25. ASSUME NEW r \in Requests, CancelSignal(r) PROVE TokenIsHeld'
  BY <1>25, <1>removed DEF CancelSignal
<1>26. ASSUME NEW r \in Requests, CancelSetError(r) PROVE TokenIsHeld'
  BY <1>26, <1>removed DEF CancelSetError
<1>27. ASSUME NEW r \in Requests, CancelMark(r) PROVE TokenIsHeld'
  BY <1>27, <1>removed DEF CancelMark
<1>28. ASSUME NEW r \in Requests, CancelReport(r) PROVE TokenIsHeld'
  BY <1>28, <1>removed DEF CancelReport
<1>29. ASSUME NEW r \in Requests, CancelRemoveToken(r) PROVE TokenIsHeld'
  <2> DEFINE m == request[r].on
             t == request[r].task
  <2>1. m \in Instances /\ t \in Tasks /\ UNCHANGED <<at, task>>
    BY <1>29, RequestTask DEF CancelRemoveToken, Proceed
  <2>2. tokens' = [tokens EXCEPT ![m] = @ \ {t}]
    BY <1>29 DEF CancelRemoveToken
  <2>3. ASSUME NEW k, NEW u, k = m, u = t PROVE Removed(k, u)'
    <3>1. request' = [request EXCEPT ![r].at = "done"] /\ request[r].at = "reported"
      BY <1>29 DEF CancelRemoveToken, Proceed
    <3>2. request'[r].at = "done" /\ request'[r].task = t /\ request'[r].on = m
      BY <3>1, RequestTask DEF RequestsTyped
    <3> QED
      BY <2>3, <3>2 DEF Removed
  <2> HIDE DEF m, t
  <2> QED
    BY <1>removed, <2>1, <2>2, <2>3
<1>30. ASSUME NEW r \in Requests, CancelError(r) PROVE TokenIsHeld'
  BY <1>30, <1>removed DEF CancelError
<1>31. CASE UNCHANGED vars
  BY <1>31, <1>removed DEF vars
<1> QED
  BY <1>1, <1>2, <1>3, <1>4, <1>5, <1>6, <1>7, <1>8, <1>9, <1>10, <1>11,
     <1>12, <1>13, <1>14, <1>15, <1>16, <1>17, <1>18, <1>19, <1>20, <1>21,
     <1>22, <1>23, <1>24, <1>25, <1>26, <1>27, <1>28, <1>29, <1>30, <1>31
  DEF Next, WorkerMove, RequestMove

\* Whatever others do leaves that as it is.
LEMMA ComesStays ==
  ASSUME Typed, WorkedOnOnce, SignalComes, [Next]_vars,
         NEW q \in Requests, NEW m \in Instances, NEW u \in Tasks,
         request[q].at # "idle", request[q].task = u, request'[q] = request[q],
         Comes(q, m, u)
  PROVE  Comes(q, m, u)'
<1>begun. Begun(u) /\ Begun(u)'
  BY BegunStays DEF Comes
<1>taken. TokenTaken(m, u) => TokenTaken(m, u)'
  BY TakenStays DEF Typed
<1> DEFINE Goal == \/ ~ Executes(m, u)'
                   \/ TokenTaken(m, u)'
                   \/ request[q].at = "read" /\ u \in tokens'[m]
                   \/ signalled'[m]
<1> USE NoTaskAssumption
    DEF Typed, ControlTyped, Comes, Executes, workerVars, Work, BecomeIdle
<1>1. ASSUME NEW t \in Tasks, Insert(t) PROVE Goal
  BY <1>1, <1>taken DEF Insert
<1>2. ASSUME NEW t \in Tasks, Enqueue(t) PROVE Goal
  BY <1>2, <1>taken DEF Enqueue
<1>3. ASSUME NEW t \in Tasks, EnqueueFails(t) PROVE Goal
  BY <1>3, <1>taken DEF EnqueueFails
<1>4. ASSUME NEW n \in Instances, Dequeue(n) PROVE Goal
  BY <1>4, <1>taken, <1>begun DEF Dequeue, Begun
<1>5. ASSUME NEW n \in Instances, DequeueLost(n) PROVE Goal
  BY <1>5, <1>taken DEF DequeueLost
<1>6. ASSUME NEW n \in Instances, InsertToken(n) PROVE Goal
  <2>1. CASE m = n
    BY <1>6, <1>begun, <2>1 DEF InsertToken, Begun
  <2>2. CASE m # n
    <3>1. signalled'[m] = signalled[m]
      <4>1. signalled' = [signalled EXCEPT ![n] = FALSE]
        BY <1>6 DEF InsertToken
      <4> QED
        BY <2>2, <4>1, Zenon DEF SignalsTyped
    <3> QED
      BY <1>6, <1>taken, <2>2, <3>1 DEF InsertToken
  <2> QED
    BY <2>1, <2>2
<1>7. ASSUME NEW n \in Instances, BeginPlanning(n) PROVE Goal
  BY <1>7, <1>taken DEF BeginPlanning
<1>8. ASSUME NEW n \in Instances, BeginRunning(n) PROVE Goal
  BY <1>8, <1>taken DEF BeginRunning
<1>9. ASSUME NEW n \in Instances, StartBatches(n) PROVE Goal
  BY <1>9, <1>taken DEF StartBatches
<1>10. ASSUME NEW n \in Instances, DispatchCancelled(n) PROVE Goal
  BY <1>10, <1>taken DEF DispatchCancelled
<1>11. ASSUME NEW n \in Instances, DispatchAllFailed(n) PROVE Goal
  BY <1>11, <1>taken DEF DispatchAllFailed
<1>12. ASSUME NEW n \in Instances, DispatchDone(n) PROVE Goal
  BY <1>12, <1>taken DEF DispatchDone
<1>13. ASSUME NEW n \in Instances, StoreResult(n) PROVE Goal
  BY <1>13, <1>taken DEF StoreResult
<1>14. ASSUME NEW n \in Instances, ReportCompleted(n) PROVE Goal
  BY <1>14, <1>taken DEF ReportCompleted
<1>15. ASSUME NEW n \in Instances, ReportFailed(n) PROVE Goal
  BY <1>15, <1>taken DEF ReportFailed
<1>16. ASSUME NEW n \in Instances, Return(n) PROVE Goal
  BY <1>16, <1>taken DEF Return
<1>17. ASSUME NEW n \in Instances, InnerError(n) PROVE Goal
  BY <1>17, <1>taken DEF InnerError
<1>18. ASSUME NEW n \in Instances, TimerFires(n) PROVE Goal
  BY <1>18, <1>taken DEF TimerFires, Working, Sent
<1>19. ASSUME NEW n \in Instances, TimeoutSetError(n) PROVE Goal
  BY <1>19, <1>taken DEF TimeoutSetError
<1>20. ASSUME NEW n \in Instances, TimeoutReport(n) PROVE Goal
  BY <1>20, <1>taken DEF TimeoutReport
<1>21. ASSUME NEW n \in Instances, RemoveToken(n) PROVE Goal
  <2>1. CASE m = n
    BY <1>21, <1>begun, <2>1 DEF RemoveToken, Begun
  <2>2. CASE m # n
    <3>1. signalled'[m] = signalled[m]
      <4>1. signalled' = [signalled EXCEPT ![n] = FALSE]
        BY <1>21 DEF RemoveToken
      <4> QED
        BY <2>2, <4>1, Zenon DEF SignalsTyped
    <3> QED
      BY <1>21, <1>taken, <2>2, <3>1 DEF RemoveToken
  <2> QED
    BY <2>1, <2>2
<1>22. ASSUME NEW n \in Instances, Abandon(n) PROVE Goal
  <2>1. CASE m = n
    BY <1>22, <1>begun, <2>1 DEF Abandon, Begun
  <2>2. CASE m # n
    <3>1. signalled'[m] = signalled[m]
      <4>1. signalled' = [signalled EXCEPT ![n] = FALSE]
        BY <1>22 DEF Abandon
      <4> QED
        BY <2>2, <4>1, Zenon DEF SignalsTyped
    <3> QED
      BY <1>22, <1>taken, <2>2, <3>1 DEF Abandon
  <2> QED
    BY <2>1, <2>2
<1>23. ASSUME NEW n \in Instances, Crash(n) PROVE Goal
  <2>1. CASE m = n
    BY <1>23, <1>begun, <2>1 DEF Crash, Begun
  <2>2. CASE m # n
    <3>1. signalled'[m] = signalled[m]
      <4>1. signalled' = [signalled EXCEPT ![n] = FALSE]
        BY <1>23 DEF Crash
      <4> QED
        BY <2>2, <4>1, Zenon DEF SignalsTyped
    <3> QED
      BY <1>23, <1>taken, <2>2, <3>1 DEF Crash
  <2> QED
    BY <2>1, <2>2
<1>24. ASSUME NEW r \in Requests, NEW n \in Instances, NEW t \in Tasks,
              CancelRead(r, n, t)
       PROVE  Goal
  BY <1>24, <1>taken DEF CancelRead
<1>25. ASSUME NEW r \in Requests, CancelSignal(r) PROVE Goal
  <2>1. UNCHANGED <<at, task, tokens>> /\ request[r].on \in Instances
    BY <1>25, RequestTask DEF CancelSignal, Proceed
  <2>2. signalled[m] => signalled'[m]
    <3> DEFINE k == request[r].on
               on == signalled[k] \/ (request[r].task \in tokens[k]
                                       /\ Executes(k, request[r].task))
    <3>1. signalled' = [signalled EXCEPT ![k] = on]
      BY <1>25 DEF CancelSignal
    <3>2. signalled[k] => on
      OBVIOUS
    <3> HIDE DEF on, k
    <3> QED
      BY <3>1, <3>2, Zenon DEF SignalsTyped
  <2> QED
    BY <1>taken, <2>1, <2>2
<1>26. ASSUME NEW r \in Requests, CancelSetError(r) PROVE Goal
  BY <1>26, <1>taken DEF CancelSetError
<1>27. ASSUME NEW r \in Requests, CancelMark(r) PROVE Goal
  BY <1>27, <1>taken DEF CancelMark
<1>28. ASSUME NEW r \in Requests, CancelReport(r) PROVE Goal
  BY <1>28, <1>taken DEF CancelReport
<1>29. ASSUME NEW r \in Requests, CancelRemoveToken(r) PROVE Goal
  <2>1. UNCHANGED <<at, task, signalled>> /\ request[r].at = "reported"
        /\ tokens' = [tokens EXCEPT ![request[r].on] = @ \ {request[r].task}]
        /\ request' = [request EXCEPT ![r].at = "done"]
    BY <1>29 DEF CancelRemoveToken, Proceed
  <2>2. CASE request[r].task = u /\ request[r].on = m
    <3>1. CASE request[r].saw = "pending"
      <4>1. request[r] = [at |-> "reported", task |-> u, on |-> m, saw |-> "pending"]
        BY <2>1, <2>2, <3>1, RequestTask
      <4>2. request'[r] = [at |-> "done", task |-> u, on |-> m, saw |-> "pending"]
        BY <2>1, <4>1 DEF RequestsTyped
      <4> QED
        BY <4>2 DEF TokenTaken
    <3>2. CASE request[r].saw # "pending"
      <4>1. request[r].at \in InHandler /\ request[r].at # "read"
        BY <2>1 DEF InHandler, RequestStates
      <4>2. ~ Executes(m, u) \/ TokenTaken(m, u) \/ signalled[m]
        BY <2>2, <3>2, <4>1 DEF SignalComes
      <4> QED
        BY <1>taken, <2>1, <4>2
    <3> QED
      BY <3>1, <3>2
  <2>3. CASE request[r].task # u \/ request[r].on # m
    BY <1>taken, <2>1, <2>3, RequestTask
  <2> QED
    BY <2>2, <2>3
<1>30. ASSUME NEW r \in Requests, CancelError(r) PROVE Goal
  BY <1>30, <1>taken DEF CancelError
<1>31. ASSUME UNCHANGED vars PROVE Goal
  BY <1>31, <1>taken DEF vars
<1>32. Goal
  BY <1>1, <1>2, <1>3, <1>4, <1>5, <1>6, <1>7, <1>8, <1>9, <1>10, <1>11,
     <1>12, <1>13, <1>14, <1>15, <1>16, <1>17, <1>18, <1>19, <1>20, <1>21,
     <1>22, <1>23, <1>24, <1>25, <1>26, <1>27, <1>28, <1>29, <1>30, <1>31
  DEF Next, WorkerMove, RequestMove
<1> QED
  BY <1>32, <1>begun

LEMMA SignalComesStep ==
  ASSUME Typed, WorkedOnOnce, RowHasBegun, TokenIsHeld, SignalComes, [Next]_vars
  PROVE  SignalComes'
<1> SUFFICES ASSUME NEW q \in Requests, request'[q].at \in InHandler \cup {"done"},
                    request'[q].saw # "pending"
             PROVE  Comes(q, request[q].on, request[q].task)'
  BY DEF SignalComes
<1> DEFINE Goal == Comes(q, request[q].on, request[q].task)'
<1> USE DEF Typed
<1>1. CASE request'[q] = request[q]
  <2>1. /\ request[q].at # "idle" /\ request[q].on \in Instances
        /\ request[q].task \in Tasks
    BY <1>1, RequestTask DEF InHandler
  <2>2. Comes(q, request[q].on, request[q].task)
    BY <1>1 DEF SignalComes
  <2> QED
    BY <1>1, <2>1, <2>2, ComesStays
<1>2. ASSUME NEW n \in Instances, NEW t \in Tasks, CancelRead(q, n, t) PROVE Goal
  <2>1. request'[q] = [at |-> "read", task |-> t, on |-> n, saw |-> row[t]]
    BY <1>2 DEF CancelRead, RequestsTyped
  <2>2. Begun(t)
    BY <1>2, <2>1 DEF CancelRead, RowHasBegun, Cancellable
  <2>3. Begun(t)'
    BY <2>2, BegunStays
  <2>4. UNCHANGED <<at, task, tokens>>
    BY <1>2 DEF CancelRead, workerVars
  <2>5. \/ ~ Executes(n, t)' \/ t \in tokens'[n] \/ signalled'[n]
        \/ TokenTaken(n, t)'
    <3>1. ~ Executes(n, t) \/ t \in tokens[n] \/ Removed(n, t)
      BY DEF TokenIsHeld
    <3>2. ASSUME Removed(n, t), Executes(n, t)
          PROVE  TokenTaken(n, t) \/ signalled[n]
      <4>1. PICK p \in Requests :
              request[p].at = "done" /\ request[p].task = t /\ request[p].on = n
        BY <3>2 DEF Removed
      <4>2. CASE request[p].saw = "pending"
        <5>1. request[p] = [at |-> "done", task |-> t, on |-> n, saw |-> "pending"]
          BY <4>1, <4>2, RequestTask
        <5> QED
          BY <5>1 DEF TokenTaken
      <4>3. CASE request[p].saw # "pending"
        <5>1. Comes(p, n, t)
          BY <4>1, <4>3 DEF SignalComes
        <5> QED
          BY <3>2, <4>1, <5>1 DEF Comes
      <4> QED
        BY <4>2, <4>3
    <3>3. TokenTaken(n, t) => TokenTaken(n, t)'
      BY TakenStays
    <3>4. UNCHANGED signalled
      BY <1>2 DEF CancelRead, workerVars
    <3> QED
      BY <2>4, <3>1, <3>2, <3>3, <3>4 DEF Executes
  <2> QED
    BY <2>1, <2>3, <2>5 DEF Comes
<1>3. ASSUME request[q].at \in InHandler, RequestMove(q) PROVE Goal
  <2>1. /\ request[q].on \in Instances /\ request[q].task \in Tasks
        /\ request'[q].on = request[q].on /\ request'[q].task = request[q].task
        /\ request'[q].saw = request[q].saw /\ request'[q].at # "read"
    <3>1. PICK to \in RequestStates \ {"read"} :
            request' = [request EXCEPT ![q].at = to]
      BY <1>3 DEF InHandler, RequestStates, RequestMove, CancelRead, CancelSignal,
         CancelSetError, CancelMark, CancelReport, CancelRemoveToken,
         CancelError, Proceed
    <3>2. request[q] \in [at : RequestStates, task : Tasks, on : Instances,
                          saw : Cancellable]
      BY <1>3, RequestTask DEF InHandler
    <3>3. request'[q] = [request[q] EXCEPT !.at = to]
      BY <3>1 DEF RequestsTyped
    <3> QED
      BY <3>2, <3>3
  <2> DEFINE m == request[q].on
             u == request[q].task
  <2>2. Comes(q, m, u)
    BY <1>3, <2>1 DEF SignalComes
  <2>3. Begun(u)' /\ (TokenTaken(m, u) => TokenTaken(m, u)')
    BY <2>1, <2>2, BegunStays, TakenStays DEF Comes
  <2>4. UNCHANGED <<at, task>>
    BY <1>3 DEF InHandler, RequestMove, CancelRead, CancelSignal, CancelSetError,
       CancelMark, CancelReport, CancelRemoveToken, CancelError, workerVars
  <2>5. \/ ~ Executes(m, u) \/ TokenTaken(m, u) \/ signalled'[m]
    <3>1. CASE request[q].at = "read"
      <4>1. signalled' = [signalled EXCEPT ![m] =
                            @ \/ (u \in tokens[m] /\ Executes(m, u))]
        BY <1>3, <3>1 DEF RequestMove, CancelRead, CancelSignal, CancelSetError,
           CancelMark, CancelReport, CancelRemoveToken, CancelError, Proceed
      <4>2. signalled[m] \/ (Executes(m, u) /\ u \in tokens[m]) => signalled'[m]
        <5> HIDE DEF m, u
        <5> QED
          BY <2>1, <4>1, Zenon DEF SignalsTyped, m
      <4> QED
        BY <2>2, <3>1, <4>2 DEF Comes
    <3>2. CASE request[q].at # "read"
      <4>1. UNCHANGED signalled
        BY <1>3, <3>2 DEF InHandler, RequestMove, CancelRead, CancelSignal,
           CancelSetError, CancelMark, CancelReport, CancelRemoveToken, CancelError,
           Proceed, workerVars
      <4> QED
        BY <2>2, <3>2, <4>1 DEF Comes
    <3> QED
      BY <3>1, <3>2
  <2> QED
    BY <2>1, <2>3, <2>4, <2>5 DEF Comes, Executes
<1>4. CASE request'[q] # request[q]
  <2>1. PICK r \in Requests : RequestMove(r)
    <3>1. ASSUME NEW n \in Instances, Crash(n) PROVE FALSE
      BY <1>4, <3>1 DEF Crash, InHandler
    <3> QED
      BY <1>4, <3>1, OthersAskNothing DEF Next, vars
  <2>2. r = q
    <3>1. \E x : request' = [request EXCEPT ![r] = x]
      BY <2>1 DEF RequestMove, CancelRead, CancelSignal, CancelSetError, CancelMark,
         CancelReport, CancelRemoveToken, CancelError, Proceed
    <3> QED
      BY <1>4, <3>1
  <2> QED
    BY <1>2, <1>3, <2>1, <2>2 DEF InHandler, RequestStates, RequestMove, CancelSignal,
       CancelSetError, CancelMark, CancelReport, CancelRemoveToken, CancelError,
       Proceed
<1> QED
  BY <1>1, <1>4

\* If a cancel request found the task planning or running, and is handled by the
\* instance that executes it, then the execution has been signalled, whatever
\* fails and whoever crashes, unless a request that read the row before the
\* execution wrote it has taken the token.
THEOREM SignalsArrive == Spec => []SignalReachesExecution
<1> DEFINE Inv == RowHasBegun /\ TokenIsHeld /\ SignalComes
<1>1. Init => Inv
  BY DEF Init, RowHasBegun, TokenIsHeld, SignalComes, Executes, InHandler,
     RequestStates
<1>2. IInv /\ Inv /\ [Next]_vars => Inv'
  BY RowHasBegunStep, TokenIsHeldStep, SignalComesStep, Parts
<1>3. Inv => SignalReachesExecution
  <2> SUFFICES ASSUME SignalComes PROVE SignalReachesExecution
    OBVIOUS
  <2> QED
    BY DEF SignalComes, Comes, SignalReachesExecution
<1> QED
  BY <1>1, <1>2, <1>3, InvariantHolds, PTL DEF Spec

=============================================================================
