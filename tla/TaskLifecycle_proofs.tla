------------------------ MODULE TaskLifecycle_proofs ------------------------
(***************************************************************************)
(* Safety of TaskLifecycle, for every set of tasks, instances and cancel   *)
(* requests and every set of faults.                                       *)
(***************************************************************************)
EXTENDS TaskLifecycle, TLAPS

\* Phases of a worker before it has stored a verdict, and before it has
\* reported one.
BeforeVerdict == {"popped", "begin", "planning", "dispatch", "batches",
                  "synthesizing"}
BeforeReport == BeforeVerdict \cup {"failing", "stored"}

\* The task is still to be worked on, or a worker is in one of these phases.
Ahead(t, phases) ==
  \/ submit[t] = "inserted" \/ Queued(t)
  \/ \E n \in Instances : task[n] = t /\ at[n] \in phases

\* What can outdate a verdict.
Overtaken(t) == error[t] = "timedOut" \/ CancelAsked(t)

\* Until a task has been judged by its execution, only a cancellation can have
\* done so, and until the execution has reported, nobody else has reported a
\* failure.
History ==
  \A t \in Tasks :
    /\ submit[t] = "new" =>
         row[t] = "none" /\ Len(published[t]) = 0 /\ ~ CancelAsked(t)
    /\ Ahead(t, BeforeVerdict) => row[t] \notin Final \/ CancelAsked(t)
    /\ Ahead(t, BeforeReport) =>
         /\ Len(published[t]) = 0 \/ CancelAsked(t)
         /\ ~ Announced(t, "task_failed")

\* What a worker is about to report has been stored.
AboutToReport ==
  \A n \in Instances :
    /\ at[n] # "idle" => task[n] \in Tasks
    /\ at[n] = "failing" => row[task[n]] = "failed"
    /\ at[n] = "stored" => row[task[n]] = "completed" \/ CancelAsked(task[n])
    /\ at[n] = "timedOutSet" => row[task[n]] = "failed" /\ Overtaken(task[n])

IInv ==
  /\ TypeOK /\ WorkedOnOnce /\ History /\ AboutToReport
  /\ VerdictWasStored /\ SecondVerdictIsARace

-----------------------------------------------------------------------------
(* Types.                                                                  *)

Events == {"task_completed", "task_failed", "task_cancelled"}

ControlTyped ==
  /\ row \in [Tasks -> {"none"} \cup Cancellable \cup Final]
  /\ error \in [Tasks -> {"none", "allFailed", "timedOut", "cancelled"}]
  /\ submit \in [Tasks -> {"new", "inserted", "accepted", "refused"}]
  /\ at \in [Instances -> WorkerStates]
  /\ task \in [Instances -> Tasks \cup {NoTask}]
  /\ tokens \in [Instances -> SUBSET Tasks]
  /\ \A n \in Instances : at[n] # "idle" => task[n] \in Tasks

RequestsTyped ==
  request \in
    [Requests -> {[at |-> "idle"]} \cup
                 [at : RequestStates, task : Tasks, on : Instances,
                  saw : Cancellable]]

SignalsTyped == signalled \in [Instances -> BOOLEAN]
QueueTyped == queue \in Seq(Tasks)
PublishedTyped == published \in [Tasks -> Seq(Events)]

LEMMA TypeParts ==
  ASSUME \A n \in Instances : at[n] # "idle" => task[n] \in Tasks
  PROVE  TypeOK <=> (/\ ControlTyped /\ RequestsTyped /\ SignalsTyped
                     /\ QueueTyped /\ PublishedTyped)
BY DEF TypeOK, ControlTyped, RequestsTyped, SignalsTyped, QueueTyped,
       PublishedTyped, Events

Typed == /\ ControlTyped /\ RequestsTyped /\ SignalsTyped
         /\ QueueTyped /\ PublishedTyped

\* The task of a request that has begun.
LEMMA RequestTask ==
  ASSUME RequestsTyped, NEW r \in Requests, request[r].at # "idle"
  PROVE  /\ request[r] \in [at : RequestStates, task : Tasks, on : Instances,
                            saw : Cancellable]
         /\ request[r].task \in Tasks /\ request[r].on \in Instances
BY DEF RequestsTyped

LEMMA ControlStep ==
  ASSUME ControlTyped, RequestsTyped, QueueTyped, [Next]_vars PROVE ControlTyped'
<1> USE NoTaskAssumption
    DEF ControlTyped, QueueTyped, WorkerStates, Working, Sent, Final, Cancellable,
        rowVars, workerVars, Work, SetRow, SetError, BecomeIdle
<1>1. ASSUME NEW t \in Tasks, Insert(t) PROVE ControlTyped'
  BY <1>1 DEF Insert
<1>2. ASSUME NEW t \in Tasks, Enqueue(t) PROVE ControlTyped'
  BY <1>2 DEF Enqueue
<1>3. ASSUME NEW t \in Tasks, EnqueueFails(t) PROVE ControlTyped'
  BY <1>3 DEF EnqueueFails
<1>4. ASSUME NEW n \in Instances, Dequeue(n) PROVE ControlTyped'
  BY <1>4 DEF Dequeue
<1>5. ASSUME NEW n \in Instances, DequeueLost(n) PROVE ControlTyped'
  BY <1>5 DEF DequeueLost
<1>6. ASSUME NEW n \in Instances, InsertToken(n) PROVE ControlTyped'
  BY <1>6 DEF InsertToken
<1>7. ASSUME NEW n \in Instances, BeginPlanning(n) PROVE ControlTyped'
  BY <1>7 DEF BeginPlanning
<1>8. ASSUME NEW n \in Instances, BeginRunning(n) PROVE ControlTyped'
  BY <1>8 DEF BeginRunning
<1>9. ASSUME NEW n \in Instances, StartBatches(n) PROVE ControlTyped'
  BY <1>9 DEF StartBatches
<1>10. ASSUME NEW n \in Instances, DispatchCancelled(n) PROVE ControlTyped'
  BY <1>10 DEF DispatchCancelled
<1>11. ASSUME NEW n \in Instances, DispatchAllFailed(n) PROVE ControlTyped'
  BY <1>11 DEF DispatchAllFailed
<1>12. ASSUME NEW n \in Instances, DispatchDone(n) PROVE ControlTyped'
  BY <1>12 DEF DispatchDone
<1>13. ASSUME NEW n \in Instances, StoreResult(n) PROVE ControlTyped'
  BY <1>13 DEF StoreResult
<1>14. ASSUME NEW n \in Instances, ReportCompleted(n) PROVE ControlTyped'
  BY <1>14 DEF ReportCompleted
<1>15. ASSUME NEW n \in Instances, ReportFailed(n) PROVE ControlTyped'
  BY <1>15 DEF ReportFailed
<1>16. ASSUME NEW n \in Instances, Return(n) PROVE ControlTyped'
  BY <1>16 DEF Return
<1>17. ASSUME NEW n \in Instances, InnerError(n) PROVE ControlTyped'
  BY <1>17 DEF InnerError
<1>18. ASSUME NEW n \in Instances, TimerFires(n) PROVE ControlTyped'
  BY <1>18 DEF TimerFires
<1>19. ASSUME NEW n \in Instances, TimeoutSetError(n) PROVE ControlTyped'
  BY <1>19 DEF TimeoutSetError
<1>20. ASSUME NEW n \in Instances, TimeoutReport(n) PROVE ControlTyped'
  BY <1>20 DEF TimeoutReport
<1>21. ASSUME NEW n \in Instances, RemoveToken(n) PROVE ControlTyped'
  BY <1>21 DEF RemoveToken
<1>22. ASSUME NEW n \in Instances, Abandon(n) PROVE ControlTyped'
  BY <1>22 DEF Abandon
<1>23. ASSUME NEW n \in Instances, Crash(n) PROVE ControlTyped'
  BY <1>23 DEF Crash
<1>24. ASSUME NEW r \in Requests, NEW n \in Instances, NEW t \in Tasks,
              CancelRead(r, n, t)
       PROVE  ControlTyped'
  BY <1>24 DEF CancelRead
<1>25. ASSUME NEW r \in Requests, CancelSignal(r) PROVE ControlTyped'
  BY <1>25 DEF CancelSignal
<1>26. ASSUME NEW r \in Requests, CancelSetError(r) PROVE ControlTyped'
  BY <1>26, RequestTask DEF CancelSetError, Proceed
<1>27. ASSUME NEW r \in Requests, CancelMark(r) PROVE ControlTyped'
  BY <1>27, RequestTask DEF CancelMark, Proceed
<1>28. ASSUME NEW r \in Requests, CancelReport(r) PROVE ControlTyped'
  BY <1>28 DEF CancelReport
<1>29. ASSUME NEW r \in Requests, CancelRemoveToken(r) PROVE ControlTyped'
  BY <1>29, RequestTask DEF CancelRemoveToken, Proceed
<1>30. ASSUME NEW r \in Requests, CancelError(r) PROVE ControlTyped'
  BY <1>30 DEF CancelError
<1>31. CASE UNCHANGED vars
  BY <1>31 DEF vars
<1> QED
  BY <1>1, <1>2, <1>3, <1>4, <1>5, <1>6, <1>7, <1>8, <1>9, <1>10, <1>11,
     <1>12, <1>13, <1>14, <1>15, <1>16, <1>17, <1>18, <1>19, <1>20, <1>21,
     <1>22, <1>23, <1>24, <1>25, <1>26, <1>27, <1>28, <1>29, <1>30, <1>31
  DEF Next, WorkerMove, RequestMove

LEMMA RequestsStep ==
  ASSUME RequestsTyped, ControlTyped, [Next]_vars PROVE RequestsTyped'
<1> USE DEF RequestsTyped
<1>1. ASSUME NEW t \in Tasks, Insert(t) PROVE RequestsTyped'
  BY <1>1 DEF Insert
<1>2. ASSUME NEW t \in Tasks, Enqueue(t) PROVE RequestsTyped'
  BY <1>2 DEF Enqueue
<1>3. ASSUME NEW t \in Tasks, EnqueueFails(t) PROVE RequestsTyped'
  BY <1>3 DEF EnqueueFails
<1>4. ASSUME NEW n \in Instances, Dequeue(n) PROVE RequestsTyped'
  BY <1>4 DEF Dequeue
<1>5. ASSUME NEW n \in Instances, DequeueLost(n) PROVE RequestsTyped'
  BY <1>5 DEF DequeueLost
<1>6. ASSUME NEW n \in Instances, InsertToken(n) PROVE RequestsTyped'
  BY <1>6 DEF InsertToken
<1>7. ASSUME NEW n \in Instances, BeginPlanning(n) PROVE RequestsTyped'
  BY <1>7 DEF BeginPlanning
<1>8. ASSUME NEW n \in Instances, BeginRunning(n) PROVE RequestsTyped'
  BY <1>8 DEF BeginRunning
<1>9. ASSUME NEW n \in Instances, StartBatches(n) PROVE RequestsTyped'
  BY <1>9 DEF StartBatches
<1>10. ASSUME NEW n \in Instances, DispatchCancelled(n) PROVE RequestsTyped'
  BY <1>10 DEF DispatchCancelled
<1>11. ASSUME NEW n \in Instances, DispatchAllFailed(n) PROVE RequestsTyped'
  BY <1>11 DEF DispatchAllFailed
<1>12. ASSUME NEW n \in Instances, DispatchDone(n) PROVE RequestsTyped'
  BY <1>12 DEF DispatchDone
<1>13. ASSUME NEW n \in Instances, StoreResult(n) PROVE RequestsTyped'
  BY <1>13 DEF StoreResult
<1>14. ASSUME NEW n \in Instances, ReportCompleted(n) PROVE RequestsTyped'
  BY <1>14 DEF ReportCompleted
<1>15. ASSUME NEW n \in Instances, ReportFailed(n) PROVE RequestsTyped'
  BY <1>15 DEF ReportFailed
<1>16. ASSUME NEW n \in Instances, Return(n) PROVE RequestsTyped'
  BY <1>16 DEF Return
<1>17. ASSUME NEW n \in Instances, InnerError(n) PROVE RequestsTyped'
  BY <1>17 DEF InnerError
<1>18. ASSUME NEW n \in Instances, TimerFires(n) PROVE RequestsTyped'
  BY <1>18 DEF TimerFires
<1>19. ASSUME NEW n \in Instances, TimeoutSetError(n) PROVE RequestsTyped'
  BY <1>19 DEF TimeoutSetError
<1>20. ASSUME NEW n \in Instances, TimeoutReport(n) PROVE RequestsTyped'
  BY <1>20 DEF TimeoutReport
<1>21. ASSUME NEW n \in Instances, RemoveToken(n) PROVE RequestsTyped'
  BY <1>21 DEF RemoveToken
<1>22. ASSUME NEW n \in Instances, Abandon(n) PROVE RequestsTyped'
  BY <1>22 DEF Abandon
<1>23. ASSUME NEW n \in Instances, Crash(n) PROVE RequestsTyped'
  BY <1>23 DEF Crash, RequestStates, InHandler
<1>24. ASSUME NEW r \in Requests, NEW n \in Instances, NEW t \in Tasks,
              CancelRead(r, n, t)
       PROVE  RequestsTyped'
  BY <1>24 DEF CancelRead, RequestStates, Cancellable
<1>25. ASSUME NEW r \in Requests, CancelSignal(r) PROVE RequestsTyped'
  BY <1>25, RequestTask DEF CancelSignal, Proceed, RequestStates
<1>26. ASSUME NEW r \in Requests, CancelSetError(r) PROVE RequestsTyped'
  BY <1>26, RequestTask DEF CancelSetError, Proceed, RequestStates
<1>27. ASSUME NEW r \in Requests, CancelMark(r) PROVE RequestsTyped'
  BY <1>27, RequestTask DEF CancelMark, Proceed, RequestStates
<1>28. ASSUME NEW r \in Requests, CancelReport(r) PROVE RequestsTyped'
  BY <1>28, RequestTask DEF CancelReport, Proceed, RequestStates
<1>29. ASSUME NEW r \in Requests, CancelRemoveToken(r) PROVE RequestsTyped'
  BY <1>29, RequestTask DEF CancelRemoveToken, Proceed, RequestStates
<1>30. ASSUME NEW r \in Requests, CancelError(r) PROVE RequestsTyped'
  BY <1>30, RequestTask DEF CancelError, Proceed, RequestStates
<1>31. CASE UNCHANGED vars
  BY <1>31 DEF vars
<1> QED
  BY <1>1, <1>2, <1>3, <1>4, <1>5, <1>6, <1>7, <1>8, <1>9, <1>10, <1>11,
     <1>12, <1>13, <1>14, <1>15, <1>16, <1>17, <1>18, <1>19, <1>20, <1>21,
     <1>22, <1>23, <1>24, <1>25, <1>26, <1>27, <1>28, <1>29, <1>30, <1>31
  DEF Next, WorkerMove, RequestMove

\* A PUBLISH adds one event at most.
LEMMA Published ==
  ASSUME PublishedTyped, NEW t \in Tasks, NEW e \in Events, Publish(t, e)
  PROVE  /\ PublishedTyped'
         /\ Len(published'[t]) <= Len(published[t]) + 1
         /\ \A u \in Tasks : u # t => published'[u] = published[u]
         /\ \A u \in Tasks, f \in Events :
              Announced(u, f)' => Announced(u, f) \/ (u = t /\ f = e)
<1> USE DEF PublishedTyped
<1>1. CASE UNCHANGED published
  BY <1>1 DEF Announced
<1>2. CASE published' = [published EXCEPT ![t] = Append(@, e)]
  <2>1. PublishedTyped'
    BY <1>2
  <2>2. \A u \in Tasks : u # t => published'[u] = published[u]
    BY <1>2
  <2>3. published'[t] = Append(published[t], e) /\ published[t] \in Seq(Events)
    BY <1>2
  <2>4. Len(published'[t]) <= Len(published[t]) + 1
    BY <2>3
  <2>5. ASSUME NEW u \in Tasks, NEW f \in Events, Announced(u, f)'
        PROVE  Announced(u, f) \/ (u = t /\ f = e)
    <3>1. PICK k \in DOMAIN published'[u] : published'[u][k] = f
      BY <2>5 DEF Announced
    <3>2. CASE u # t
      BY <2>2, <3>1, <3>2 DEF Announced
    <3>3. CASE u = t
      BY <2>3, <3>1, <3>3 DEF Announced
    <3> QED
      BY <3>2, <3>3
  <2> QED
    BY <2>1, <2>2, <2>4, <2>5
<1> QED
  BY <1>1, <1>2 DEF Publish

LEMMA PublishedStep ==
  ASSUME PublishedTyped, ControlTyped, RequestsTyped, [Next]_vars
  PROVE  PublishedTyped'
<1> USE DEF PublishedTyped
<1>1. ASSUME NEW t \in Tasks, Insert(t) PROVE PublishedTyped'
  BY <1>1 DEF Insert
<1>2. ASSUME NEW t \in Tasks, Enqueue(t) PROVE PublishedTyped'
  BY <1>2 DEF Enqueue
<1>3. ASSUME NEW t \in Tasks, EnqueueFails(t) PROVE PublishedTyped'
  BY <1>3 DEF EnqueueFails
<1>4. ASSUME NEW n \in Instances, Dequeue(n) PROVE PublishedTyped'
  BY <1>4 DEF Dequeue
<1>5. ASSUME NEW n \in Instances, DequeueLost(n) PROVE PublishedTyped'
  BY <1>5 DEF DequeueLost
<1>6. ASSUME NEW n \in Instances, InsertToken(n) PROVE PublishedTyped'
  BY <1>6 DEF InsertToken
<1>7. ASSUME NEW n \in Instances, BeginPlanning(n) PROVE PublishedTyped'
  BY <1>7 DEF BeginPlanning
<1>8. ASSUME NEW n \in Instances, BeginRunning(n) PROVE PublishedTyped'
  BY <1>8 DEF BeginRunning
<1>9. ASSUME NEW n \in Instances, StartBatches(n) PROVE PublishedTyped'
  BY <1>9 DEF StartBatches
<1>10. ASSUME NEW n \in Instances, DispatchCancelled(n) PROVE PublishedTyped'
  BY <1>10 DEF DispatchCancelled
<1>11. ASSUME NEW n \in Instances, DispatchAllFailed(n) PROVE PublishedTyped'
  BY <1>11 DEF DispatchAllFailed
<1>12. ASSUME NEW n \in Instances, DispatchDone(n) PROVE PublishedTyped'
  BY <1>12 DEF DispatchDone
<1>13. ASSUME NEW n \in Instances, StoreResult(n) PROVE PublishedTyped'
  BY <1>13 DEF StoreResult
<1>14. ASSUME NEW n \in Instances, ReportCompleted(n) PROVE PublishedTyped'
  <2>1. task[n] \in Tasks /\ Publish(task[n], "task_completed")
    BY <1>14 DEF ReportCompleted, Work, ControlTyped
  <2> QED
    BY <2>1, Published DEF Events
<1>15. ASSUME NEW n \in Instances, ReportFailed(n) PROVE PublishedTyped'
  <2>1. task[n] \in Tasks /\ Publish(task[n], "task_failed")
    BY <1>15 DEF ReportFailed, Work, ControlTyped
  <2> QED
    BY <2>1, Published DEF Events
<1>16. ASSUME NEW n \in Instances, Return(n) PROVE PublishedTyped'
  BY <1>16 DEF Return
<1>17. ASSUME NEW n \in Instances, InnerError(n) PROVE PublishedTyped'
  BY <1>17 DEF InnerError
<1>18. ASSUME NEW n \in Instances, TimerFires(n) PROVE PublishedTyped'
  BY <1>18 DEF TimerFires
<1>19. ASSUME NEW n \in Instances, TimeoutSetError(n) PROVE PublishedTyped'
  BY <1>19 DEF TimeoutSetError
<1>20. ASSUME NEW n \in Instances, TimeoutReport(n) PROVE PublishedTyped'
  <2>1. task[n] \in Tasks /\ Publish(task[n], "task_failed")
    BY <1>20 DEF TimeoutReport, Work, ControlTyped
  <2> QED
    BY <2>1, Published DEF Events
<1>21. ASSUME NEW n \in Instances, RemoveToken(n) PROVE PublishedTyped'
  BY <1>21 DEF RemoveToken
<1>22. ASSUME NEW n \in Instances, Abandon(n) PROVE PublishedTyped'
  BY <1>22 DEF Abandon
<1>23. ASSUME NEW n \in Instances, Crash(n) PROVE PublishedTyped'
  BY <1>23 DEF Crash
<1>24. ASSUME NEW r \in Requests, NEW n \in Instances, NEW t \in Tasks,
              CancelRead(r, n, t)
       PROVE  PublishedTyped'
  BY <1>24 DEF CancelRead
<1>25. ASSUME NEW r \in Requests, CancelSignal(r) PROVE PublishedTyped'
  BY <1>25 DEF CancelSignal
<1>26. ASSUME NEW r \in Requests, CancelSetError(r) PROVE PublishedTyped'
  BY <1>26 DEF CancelSetError
<1>27. ASSUME NEW r \in Requests, CancelMark(r) PROVE PublishedTyped'
  BY <1>27 DEF CancelMark
<1>28. ASSUME NEW r \in Requests, CancelReport(r) PROVE PublishedTyped'
  <2>1. request[r].task \in Tasks /\ Publish(request[r].task, "task_cancelled")
    BY <1>28, RequestTask DEF CancelReport, Proceed
  <2> QED
    BY <2>1, Published DEF Events
<1>29. ASSUME NEW r \in Requests, CancelRemoveToken(r) PROVE PublishedTyped'
  BY <1>29 DEF CancelRemoveToken
<1>30. ASSUME NEW r \in Requests, CancelError(r) PROVE PublishedTyped'
  BY <1>30 DEF CancelError
<1>31. CASE UNCHANGED vars
  BY <1>31 DEF vars
<1> QED
  BY <1>1, <1>2, <1>3, <1>4, <1>5, <1>6, <1>7, <1>8, <1>9, <1>10, <1>11,
     <1>12, <1>13, <1>14, <1>15, <1>16, <1>17, <1>18, <1>19, <1>20, <1>21,
     <1>22, <1>23, <1>24, <1>25, <1>26, <1>27, <1>28, <1>29, <1>30, <1>31
  DEF Next, WorkerMove, RequestMove

LEMMA QueueStep ==
  ASSUME QueueTyped, [Next]_vars PROVE QueueTyped'
<1> USE DEF QueueTyped
<1>1. ASSUME NEW t \in Tasks, Insert(t) PROVE QueueTyped'
  BY <1>1 DEF Insert
<1>2. ASSUME NEW t \in Tasks, Enqueue(t) PROVE QueueTyped'
  BY <1>2 DEF Enqueue
<1>3. ASSUME NEW t \in Tasks, EnqueueFails(t) PROVE QueueTyped'
  BY <1>3 DEF EnqueueFails
<1>4. ASSUME NEW n \in Instances, Dequeue(n) PROVE QueueTyped'
  BY <1>4 DEF Dequeue
<1>5. ASSUME NEW n \in Instances, DequeueLost(n) PROVE QueueTyped'
  BY <1>5 DEF DequeueLost
<1>6. ASSUME NEW n \in Instances, InsertToken(n) PROVE QueueTyped'
  BY <1>6 DEF InsertToken
<1>7. ASSUME NEW n \in Instances, BeginPlanning(n) PROVE QueueTyped'
  BY <1>7 DEF BeginPlanning
<1>8. ASSUME NEW n \in Instances, BeginRunning(n) PROVE QueueTyped'
  BY <1>8 DEF BeginRunning
<1>9. ASSUME NEW n \in Instances, StartBatches(n) PROVE QueueTyped'
  BY <1>9 DEF StartBatches
<1>10. ASSUME NEW n \in Instances, DispatchCancelled(n) PROVE QueueTyped'
  BY <1>10 DEF DispatchCancelled
<1>11. ASSUME NEW n \in Instances, DispatchAllFailed(n) PROVE QueueTyped'
  BY <1>11 DEF DispatchAllFailed
<1>12. ASSUME NEW n \in Instances, DispatchDone(n) PROVE QueueTyped'
  BY <1>12 DEF DispatchDone
<1>13. ASSUME NEW n \in Instances, StoreResult(n) PROVE QueueTyped'
  BY <1>13 DEF StoreResult
<1>14. ASSUME NEW n \in Instances, ReportCompleted(n) PROVE QueueTyped'
  BY <1>14 DEF ReportCompleted
<1>15. ASSUME NEW n \in Instances, ReportFailed(n) PROVE QueueTyped'
  BY <1>15 DEF ReportFailed
<1>16. ASSUME NEW n \in Instances, Return(n) PROVE QueueTyped'
  BY <1>16 DEF Return
<1>17. ASSUME NEW n \in Instances, InnerError(n) PROVE QueueTyped'
  BY <1>17 DEF InnerError
<1>18. ASSUME NEW n \in Instances, TimerFires(n) PROVE QueueTyped'
  BY <1>18 DEF TimerFires
<1>19. ASSUME NEW n \in Instances, TimeoutSetError(n) PROVE QueueTyped'
  BY <1>19 DEF TimeoutSetError
<1>20. ASSUME NEW n \in Instances, TimeoutReport(n) PROVE QueueTyped'
  BY <1>20 DEF TimeoutReport
<1>21. ASSUME NEW n \in Instances, RemoveToken(n) PROVE QueueTyped'
  BY <1>21 DEF RemoveToken
<1>22. ASSUME NEW n \in Instances, Abandon(n) PROVE QueueTyped'
  BY <1>22 DEF Abandon
<1>23. ASSUME NEW n \in Instances, Crash(n) PROVE QueueTyped'
  BY <1>23 DEF Crash
<1>24. ASSUME NEW r \in Requests, NEW n \in Instances, NEW t \in Tasks,
              CancelRead(r, n, t)
       PROVE  QueueTyped'
  BY <1>24 DEF CancelRead
<1>25. ASSUME NEW r \in Requests, CancelSignal(r) PROVE QueueTyped'
  BY <1>25 DEF CancelSignal
<1>26. ASSUME NEW r \in Requests, CancelSetError(r) PROVE QueueTyped'
  BY <1>26 DEF CancelSetError
<1>27. ASSUME NEW r \in Requests, CancelMark(r) PROVE QueueTyped'
  BY <1>27 DEF CancelMark
<1>28. ASSUME NEW r \in Requests, CancelReport(r) PROVE QueueTyped'
  BY <1>28 DEF CancelReport
<1>29. ASSUME NEW r \in Requests, CancelRemoveToken(r) PROVE QueueTyped'
  BY <1>29 DEF CancelRemoveToken
<1>30. ASSUME NEW r \in Requests, CancelError(r) PROVE QueueTyped'
  BY <1>30 DEF CancelError
<1>31. CASE UNCHANGED vars
  BY <1>31 DEF vars
<1> QED
  BY <1>1, <1>2, <1>3, <1>4, <1>5, <1>6, <1>7, <1>8, <1>9, <1>10, <1>11,
     <1>12, <1>13, <1>14, <1>15, <1>16, <1>17, <1>18, <1>19, <1>20, <1>21,
     <1>22, <1>23, <1>24, <1>25, <1>26, <1>27, <1>28, <1>29, <1>30, <1>31
  DEF Next, WorkerMove, RequestMove

LEMMA SignalsStep ==
  ASSUME SignalsTyped, RequestsTyped, [Next]_vars PROVE SignalsTyped'
<1> USE DEF SignalsTyped, workerVars, Work, BecomeIdle
<1>1. ASSUME NEW t \in Tasks, Insert(t) PROVE SignalsTyped'
  BY <1>1 DEF Insert
<1>2. ASSUME NEW t \in Tasks, Enqueue(t) PROVE SignalsTyped'
  BY <1>2 DEF Enqueue
<1>3. ASSUME NEW t \in Tasks, EnqueueFails(t) PROVE SignalsTyped'
  BY <1>3 DEF EnqueueFails
<1>4. ASSUME NEW n \in Instances, Dequeue(n) PROVE SignalsTyped'
  BY <1>4 DEF Dequeue
<1>5. ASSUME NEW n \in Instances, DequeueLost(n) PROVE SignalsTyped'
  BY <1>5 DEF DequeueLost
<1>6. ASSUME NEW n \in Instances, InsertToken(n) PROVE SignalsTyped'
  <2>1. signalled' = [signalled EXCEPT ![n] = FALSE]
    BY <1>6 DEF InsertToken
  <2> QED
    BY <2>1, Zenon
<1>7. ASSUME NEW n \in Instances, BeginPlanning(n) PROVE SignalsTyped'
  BY <1>7 DEF BeginPlanning
<1>8. ASSUME NEW n \in Instances, BeginRunning(n) PROVE SignalsTyped'
  BY <1>8 DEF BeginRunning
<1>9. ASSUME NEW n \in Instances, StartBatches(n) PROVE SignalsTyped'
  BY <1>9 DEF StartBatches
<1>10. ASSUME NEW n \in Instances, DispatchCancelled(n) PROVE SignalsTyped'
  BY <1>10 DEF DispatchCancelled
<1>11. ASSUME NEW n \in Instances, DispatchAllFailed(n) PROVE SignalsTyped'
  BY <1>11 DEF DispatchAllFailed
<1>12. ASSUME NEW n \in Instances, DispatchDone(n) PROVE SignalsTyped'
  BY <1>12 DEF DispatchDone
<1>13. ASSUME NEW n \in Instances, StoreResult(n) PROVE SignalsTyped'
  BY <1>13 DEF StoreResult
<1>14. ASSUME NEW n \in Instances, ReportCompleted(n) PROVE SignalsTyped'
  BY <1>14 DEF ReportCompleted
<1>15. ASSUME NEW n \in Instances, ReportFailed(n) PROVE SignalsTyped'
  BY <1>15 DEF ReportFailed
<1>16. ASSUME NEW n \in Instances, Return(n) PROVE SignalsTyped'
  BY <1>16 DEF Return
<1>17. ASSUME NEW n \in Instances, InnerError(n) PROVE SignalsTyped'
  BY <1>17 DEF InnerError
<1>18. ASSUME NEW n \in Instances, TimerFires(n) PROVE SignalsTyped'
  BY <1>18 DEF TimerFires
<1>19. ASSUME NEW n \in Instances, TimeoutSetError(n) PROVE SignalsTyped'
  BY <1>19 DEF TimeoutSetError
<1>20. ASSUME NEW n \in Instances, TimeoutReport(n) PROVE SignalsTyped'
  BY <1>20 DEF TimeoutReport
<1>21. ASSUME NEW n \in Instances, RemoveToken(n) PROVE SignalsTyped'
  <2>1. signalled' = [signalled EXCEPT ![n] = FALSE]
    BY <1>21 DEF RemoveToken
  <2> QED
    BY <2>1, Zenon
<1>22. ASSUME NEW n \in Instances, Abandon(n) PROVE SignalsTyped'
  <2>1. signalled' = [signalled EXCEPT ![n] = FALSE]
    BY <1>22 DEF Abandon
  <2> QED
    BY <2>1, Zenon
<1>23. ASSUME NEW n \in Instances, Crash(n) PROVE SignalsTyped'
  <2>1. signalled' = [signalled EXCEPT ![n] = FALSE]
    BY <1>23 DEF Crash
  <2> QED
    BY <2>1, Zenon
<1>24. ASSUME NEW r \in Requests, NEW n \in Instances, NEW t \in Tasks,
              CancelRead(r, n, t)
       PROVE  SignalsTyped'
  BY <1>24 DEF CancelRead
<1>25. ASSUME NEW r \in Requests, CancelSignal(r) PROVE SignalsTyped'
  <2> DEFINE m == request[r].on
             on == signalled[m] \/ (request[r].task \in tokens[m]
                                     /\ Executes(m, request[r].task))
  <2>1. signalled' = [signalled EXCEPT ![m] = on]
    BY <1>25 DEF CancelSignal
  <2>2. on \in BOOLEAN
    OBVIOUS
  <2> QED
    BY <2>1, <2>2, Zenon
<1>26. ASSUME NEW r \in Requests, CancelSetError(r) PROVE SignalsTyped'
  BY <1>26 DEF CancelSetError
<1>27. ASSUME NEW r \in Requests, CancelMark(r) PROVE SignalsTyped'
  BY <1>27 DEF CancelMark
<1>28. ASSUME NEW r \in Requests, CancelReport(r) PROVE SignalsTyped'
  BY <1>28 DEF CancelReport
<1>29. ASSUME NEW r \in Requests, CancelRemoveToken(r) PROVE SignalsTyped'
  BY <1>29 DEF CancelRemoveToken
<1>30. ASSUME NEW r \in Requests, CancelError(r) PROVE SignalsTyped'
  BY <1>30 DEF CancelError
<1>31. CASE UNCHANGED vars
  BY <1>31 DEF vars
<1> QED
  BY <1>1, <1>2, <1>3, <1>4, <1>5, <1>6, <1>7, <1>8, <1>9, <1>10, <1>11,
     <1>12, <1>13, <1>14, <1>15, <1>16, <1>17, <1>18, <1>19, <1>20, <1>21,
     <1>22, <1>23, <1>24, <1>25, <1>26, <1>27, <1>28, <1>29, <1>30, <1>31
  DEF Next, WorkerMove, RequestMove

LEMMA TypedStep ==
  ASSUME Typed, [Next]_vars PROVE Typed'
BY ControlStep, RequestsStep, SignalsStep, QueueStep, PublishedStep DEF Typed

-----------------------------------------------------------------------------
(* One execution for each task.                                            *)

\* The queue with a task at its end.
LEMMA QueueAppended ==
  ASSUME QueueTyped, WorkedOnOnce, NEW t \in Tasks, ~ Queued(t),
         queue' = Append(queue, t)
  PROVE  /\ \A u \in Tasks : Queued(u)' => Queued(u) \/ u = t
         /\ \A u \in Tasks : \A j, k \in DOMAIN queue' :
              queue'[j] = u /\ queue'[k] = u => j = k
BY DEF QueueTyped, WorkedOnOnce, Queued

\* The queue without its first task.
LEMMA QueuePopped ==
  ASSUME QueueTyped, WorkedOnOnce, queue # <<>>, queue' = Tail(queue)
  PROVE  /\ Head(queue) \in Tasks /\ Queued(Head(queue))
         /\ \A u \in Tasks : Queued(u)' => Queued(u) /\ u # Head(queue)
         /\ \A u \in Tasks : \A j, k \in DOMAIN queue' :
              queue'[j] = u /\ queue'[k] = u => j = k
<1> USE DEF QueueTyped
<1>1. /\ 1 \in DOMAIN queue /\ Head(queue) = queue[1] /\ Head(queue) \in Tasks
      /\ DOMAIN queue = 1 .. Len(queue) /\ DOMAIN queue' = 1 .. Len(queue) - 1
  OBVIOUS
<1>2. \A k \in DOMAIN queue' : k + 1 \in DOMAIN queue /\ queue'[k] = queue[k + 1]
  BY <1>1
<1>3. \A u \in Tasks : \A j, k \in DOMAIN queue :
        queue[j] = u /\ queue[k] = u => j = k
  BY DEF WorkedOnOnce
<1>4. \A u \in Tasks : Queued(u)' => u # Head(queue)
  BY <1>1, <1>2, <1>3 DEF Queued
<1>5. \A u \in Tasks : \A j, k \in DOMAIN queue' :
        queue'[j] = u /\ queue'[k] = u => j = k
  BY <1>1, <1>2, <1>3
<1> QED
  BY <1>1, <1>2, <1>4, <1>5 DEF Queued

LEMMA WorkedOnOnceStep ==
  ASSUME Typed, WorkedOnOnce, [Next]_vars PROVE WorkedOnOnce'
<1> USE NoTaskAssumption
    DEF Typed, ControlTyped, workerVars, Work, BecomeIdle
<1>1. ASSUME NEW t \in Tasks, Insert(t) PROVE WorkedOnOnce'
  BY <1>1 DEF Insert, WorkedOnOnce, Queued
<1>2. ASSUME NEW t \in Tasks, Enqueue(t) PROVE WorkedOnOnce'
  <2>1. CASE queue' = Append(queue, t)
    <3>1. ~ Queued(t) /\ \A m \in Instances : task[m] # t
      BY <1>2 DEF Enqueue, WorkedOnOnce
    <3>2. UNCHANGED task /\ submit' = [submit EXCEPT ![t] = "accepted"]
      BY <1>2 DEF Enqueue
    <3> QED
      BY <2>1, <3>1, <3>2, QueueAppended DEF WorkedOnOnce
  <2>2. CASE queue' = queue
    BY <1>2, <2>2 DEF Enqueue, WorkedOnOnce, Queued
  <2> QED
    BY <1>2, <2>1, <2>2 DEF Enqueue
<1>3. ASSUME NEW t \in Tasks, EnqueueFails(t) PROVE WorkedOnOnce'
  <2>1. CASE queue' = Append(queue, t)
    <3>1. ~ Queued(t) /\ \A m \in Instances : task[m] # t
      BY <1>3 DEF EnqueueFails, WorkedOnOnce
    <3>2. UNCHANGED task /\ submit' = [submit EXCEPT ![t] = "refused"]
      BY <1>3 DEF EnqueueFails
    <3> QED
      BY <2>1, <3>1, <3>2, QueueAppended DEF WorkedOnOnce
  <2>2. CASE queue' = queue
    BY <1>3, <2>2 DEF EnqueueFails, WorkedOnOnce, Queued
  <2> QED
    BY <1>3, <2>1, <2>2 DEF EnqueueFails
<1>4. ASSUME NEW n \in Instances, Dequeue(n) PROVE WorkedOnOnce'
  <2>1. /\ queue # <<>> /\ queue' = Tail(queue) /\ UNCHANGED submit
        /\ task' = [task EXCEPT ![n] = Head(queue)]
    BY <1>4 DEF Dequeue
  <2> QED
    BY <2>1, QueuePopped DEF WorkedOnOnce
<1>5. ASSUME NEW n \in Instances, DequeueLost(n) PROVE WorkedOnOnce'
  <2>1. queue # <<>> /\ queue' = Tail(queue) /\ UNCHANGED <<submit, task>>
    BY <1>5 DEF DequeueLost
  <2> QED
    BY <2>1, QueuePopped DEF WorkedOnOnce
<1>6. ASSUME NEW n \in Instances, InsertToken(n) PROVE WorkedOnOnce'
  BY <1>6 DEF InsertToken, WorkedOnOnce, Queued
<1>7. ASSUME NEW n \in Instances, BeginPlanning(n) PROVE WorkedOnOnce'
  BY <1>7 DEF BeginPlanning, WorkedOnOnce, Queued
<1>8. ASSUME NEW n \in Instances, BeginRunning(n) PROVE WorkedOnOnce'
  BY <1>8 DEF BeginRunning, WorkedOnOnce, Queued
<1>9. ASSUME NEW n \in Instances, StartBatches(n) PROVE WorkedOnOnce'
  BY <1>9 DEF StartBatches, WorkedOnOnce, Queued
<1>10. ASSUME NEW n \in Instances, DispatchCancelled(n) PROVE WorkedOnOnce'
  BY <1>10 DEF DispatchCancelled, WorkedOnOnce, Queued
<1>11. ASSUME NEW n \in Instances, DispatchAllFailed(n) PROVE WorkedOnOnce'
  BY <1>11 DEF DispatchAllFailed, WorkedOnOnce, Queued
<1>12. ASSUME NEW n \in Instances, DispatchDone(n) PROVE WorkedOnOnce'
  BY <1>12 DEF DispatchDone, WorkedOnOnce, Queued
<1>13. ASSUME NEW n \in Instances, StoreResult(n) PROVE WorkedOnOnce'
  BY <1>13 DEF StoreResult, WorkedOnOnce, Queued
<1>14. ASSUME NEW n \in Instances, ReportCompleted(n) PROVE WorkedOnOnce'
  BY <1>14 DEF ReportCompleted, WorkedOnOnce, Queued
<1>15. ASSUME NEW n \in Instances, ReportFailed(n) PROVE WorkedOnOnce'
  BY <1>15 DEF ReportFailed, WorkedOnOnce, Queued
<1>16. ASSUME NEW n \in Instances, Return(n) PROVE WorkedOnOnce'
  BY <1>16 DEF Return, WorkedOnOnce, Queued
<1>17. ASSUME NEW n \in Instances, InnerError(n) PROVE WorkedOnOnce'
  BY <1>17 DEF InnerError, WorkedOnOnce, Queued
<1>18. ASSUME NEW n \in Instances, TimerFires(n) PROVE WorkedOnOnce'
  BY <1>18 DEF TimerFires, WorkedOnOnce, Queued
<1>19. ASSUME NEW n \in Instances, TimeoutSetError(n) PROVE WorkedOnOnce'
  BY <1>19 DEF TimeoutSetError, WorkedOnOnce, Queued
<1>20. ASSUME NEW n \in Instances, TimeoutReport(n) PROVE WorkedOnOnce'
  BY <1>20 DEF TimeoutReport, WorkedOnOnce, Queued
<1>21. ASSUME NEW n \in Instances, RemoveToken(n) PROVE WorkedOnOnce'
  BY <1>21 DEF RemoveToken, WorkedOnOnce, Queued
<1>22. ASSUME NEW n \in Instances, Abandon(n) PROVE WorkedOnOnce'
  BY <1>22 DEF Abandon, WorkedOnOnce, Queued
<1>23. ASSUME NEW n \in Instances, Crash(n) PROVE WorkedOnOnce'
  BY <1>23 DEF Crash, WorkedOnOnce, Queued
<1>24. ASSUME NEW r \in Requests, NEW n \in Instances, NEW t \in Tasks,
              CancelRead(r, n, t)
       PROVE  WorkedOnOnce'
  BY <1>24 DEF CancelRead, WorkedOnOnce, Queued
<1>25. ASSUME NEW r \in Requests, CancelSignal(r) PROVE WorkedOnOnce'
  BY <1>25 DEF CancelSignal, WorkedOnOnce, Queued
<1>26. ASSUME NEW r \in Requests, CancelSetError(r) PROVE WorkedOnOnce'
  BY <1>26 DEF CancelSetError, WorkedOnOnce, Queued
<1>27. ASSUME NEW r \in Requests, CancelMark(r) PROVE WorkedOnOnce'
  BY <1>27 DEF CancelMark, WorkedOnOnce, Queued
<1>28. ASSUME NEW r \in Requests, CancelReport(r) PROVE WorkedOnOnce'
  BY <1>28 DEF CancelReport, WorkedOnOnce, Queued
<1>29. ASSUME NEW r \in Requests, CancelRemoveToken(r) PROVE WorkedOnOnce'
  BY <1>29 DEF CancelRemoveToken, WorkedOnOnce, Queued
<1>30. ASSUME NEW r \in Requests, CancelError(r) PROVE WorkedOnOnce'
  BY <1>30 DEF CancelError, WorkedOnOnce, Queued
<1>31. CASE UNCHANGED vars
  BY <1>31 DEF vars, WorkedOnOnce, Queued
<1> QED
  BY <1>1, <1>2, <1>3, <1>4, <1>5, <1>6, <1>7, <1>8, <1>9, <1>10, <1>11,
     <1>12, <1>13, <1>14, <1>15, <1>16, <1>17, <1>18, <1>19, <1>20, <1>21,
     <1>22, <1>23, <1>24, <1>25, <1>26, <1>27, <1>28, <1>29, <1>30, <1>31
  DEF Next, WorkerMove, RequestMove

-----------------------------------------------------------------------------
(* Verdicts.                                                               *)

\* Only handlers, and crashes, change the requests.
LEMMA OthersAskNothing ==
  /\ \A t \in Tasks :
       Insert(t) \/ Enqueue(t) \/ EnqueueFails(t) => UNCHANGED request
  /\ \A n \in Instances : WorkerMove(n) => UNCHANGED request
BY DEF WorkerMove, rowVars, workerVars, Insert, Enqueue,
   EnqueueFails, Dequeue, DequeueLost, InsertToken, BeginPlanning, BeginRunning,
   StartBatches, DispatchCancelled, DispatchAllFailed, DispatchDone, StoreResult,
   ReportCompleted, ReportFailed, Return, InnerError, TimerFires, TimeoutSetError,
   TimeoutReport, RemoveToken, Abandon

\* A request that has been made stays so, and its task the same.
LEMMA MadeStays ==
  ASSUME RequestsTyped, [Next]_vars, NEW q \in Requests, request[q].at # "idle"
  PROVE  request'[q].at # "idle" /\ request'[q].task = request[q].task
<1> DEFINE Goal == request'[q].at # "idle" /\ request'[q].task = request[q].task
<1>1. request[q] \in [at : RequestStates, task : Tasks, on : Instances,
                      saw : Cancellable]
  BY RequestTask
<1>2. CASE UNCHANGED request
  BY <1>2
<1>3. ASSUME NEW n \in Instances, Crash(n) PROVE Goal
  BY <1>1, <1>3 DEF Crash
<1>4. ASSUME NEW r \in Requests, RequestMove(r) PROVE Goal
  <2>1. CASE q # r
    <3>1. \E x : request' = [request EXCEPT ![r] = x]
      BY <1>4 DEF RequestMove, CancelRead, CancelSignal, CancelSetError, CancelMark,
         CancelReport, CancelRemoveToken, CancelError, Proceed
    <3> QED
      BY <2>1, <3>1
  <2>2. CASE q = r
    <3>1. PICK to \in RequestStates \ {"idle"} :
            request' = [request EXCEPT ![r].at = to]
      BY <1>4, <2>2 DEF RequestStates, RequestMove, CancelRead, CancelSignal,
         CancelSetError, CancelMark, CancelReport, CancelRemoveToken,
         CancelError, Proceed
    <3> QED
      BY <1>1, <2>2, <3>1 DEF RequestsTyped
  <2> QED
    BY <2>1, <2>2
<1> QED
  BY <1>2, <1>3, <1>4, OthersAskNothing DEF Next, vars

LEMMA AskedStays ==
  ASSUME RequestsTyped, [Next]_vars, NEW u \in Tasks, CancelAsked(u)
  PROVE  CancelAsked(u)'
BY MadeStays DEF CancelAsked

\* It is made for a task that has been submitted.
LEMMA AskedBefore ==
  ASSUME RequestsTyped, [Next]_vars, NEW u \in Tasks, CancelAsked(u)'
  PROVE  CancelAsked(u) \/ row[u] \in Cancellable
<1>1. PICK q \in Requests : request'[q].at # "idle" /\ request'[q].task = u
  BY DEF CancelAsked
<1>2. CASE UNCHANGED request
  BY <1>1, <1>2 DEF CancelAsked
<1>3. ASSUME NEW n \in Instances, Crash(n) PROVE CancelAsked(u)
  <2>1. CASE request'[q] = request[q]
    BY <1>1, <2>1 DEF CancelAsked
  <2>2. CASE /\ request[q].at \in InHandler
             /\ request'[q] = [request[q] EXCEPT !.at = "aborted"]
    <3>1. request[q].at # "idle"
      BY <2>2 DEF InHandler
    <3> QED
      BY <1>1, <2>2, <3>1, RequestTask DEF CancelAsked
  <2> QED
    BY <1>3, <2>1, <2>2 DEF Crash
<1>4. ASSUME NEW r \in Requests, RequestMove(r)
      PROVE  CancelAsked(u) \/ row[u] \in Cancellable
  <2>1. CASE q # r
    <3>1. \E x : request' = [request EXCEPT ![r] = x]
      BY <1>4 DEF RequestMove, CancelRead, CancelSignal, CancelSetError, CancelMark,
         CancelReport, CancelRemoveToken, CancelError, Proceed
    <3>2. request'[q] = request[q]
      BY <2>1, <3>1 DEF RequestsTyped
    <3> QED
      BY <1>1, <3>2 DEF CancelAsked
  <2>2. ASSUME q = r, NEW n \in Instances, NEW t \in Tasks, CancelRead(r, n, t)
        PROVE  row[u] \in Cancellable
    BY <1>1, <2>2 DEF CancelRead
  <2>3. CASE q = r /\ request[r].at # "idle"
    <3>1. \E to : request' = [request EXCEPT ![r].at = to]
      BY <1>4, <2>3 DEF RequestMove, CancelRead, CancelSignal, CancelSetError,
         CancelMark, CancelReport, CancelRemoveToken, CancelError, Proceed
    <3> QED
      BY <1>1, <2>3, <3>1, RequestTask DEF CancelAsked
  <2> QED
    BY <1>4, <2>1, <2>2, <2>3 DEF RequestMove, CancelSignal, CancelSetError,
       CancelMark, CancelReport, CancelRemoveToken, CancelError, Proceed
<1> QED
  BY <1>2, <1>3, <1>4, OthersAskNothing DEF Next, vars

\* What does not change with the queue, and with the events published.
LEMMA QueueSame ==
  ASSUME UNCHANGED queue, NEW u PROVE Queued(u)' <=> Queued(u)
BY DEF Queued

LEMMA PublishedSame ==
  ASSUME UNCHANGED published, NEW u, NEW e
  PROVE  Announced(u, e)' <=> Announced(u, e)
BY DEF Announced

LEMMA RequestAsked ==
  ASSUME RequestsTyped, NEW r \in Requests, request[r].at # "idle"
  PROVE  request[r].task \in Tasks /\ CancelAsked(request[r].task)
BY RequestTask DEF CancelAsked

Verdicts == History /\ AboutToReport /\ VerdictWasStored /\ SecondVerdictIsARace

LEMMA VerdictsStep ==
  ASSUME Typed, WorkedOnOnce, Verdicts, [Next]_vars PROVE Verdicts'
<1> USE NoTaskAssumption
    DEF Typed, ControlTyped, Verdicts, History, AboutToReport, VerdictWasStored,
        SecondVerdictIsARace, Ahead, BeforeVerdict, BeforeReport, Overtaken,
        workerVars, rowVars, Work, BecomeIdle, SetRow, SetError, Final
<1>0. \A u \in Tasks : CancelAsked(u) => CancelAsked(u)'
  BY AskedStays
<1>00. \A u \in Tasks : CancelAsked(u)' => CancelAsked(u) \/ row[u] \in Cancellable
  BY AskedBefore
<1> USE DEF Cancellable
<1>1. ASSUME NEW t \in Tasks, Insert(t) PROVE Verdicts'
  BY <1>1, <1>0, <1>00 DEF Insert, WorkedOnOnce, Queued, Announced
<1>2. ASSUME NEW t \in Tasks, Enqueue(t) PROVE Verdicts'
  BY <1>2, <1>0, <1>00 DEF Enqueue, WorkedOnOnce, Queued, Announced
<1>3. ASSUME NEW t \in Tasks, EnqueueFails(t) PROVE Verdicts'
  <2>1. \A u \in Tasks : Queued(u)' => Queued(u) \/ u = t
    <3>1. ~ Queued(t)
      BY <1>3 DEF EnqueueFails, WorkedOnOnce
    <3>2. CASE queue' = queue
      BY <3>2, QueueSame
    <3>3. CASE queue' = Append(queue, t)
      BY <3>1, <3>3, QueueAppended
    <3> QED
      BY <1>3, <3>2, <3>3 DEF EnqueueFails
  <2>8. \A u \in Tasks, e \in Events : Announced(u, e)' <=> Announced(u, e)
    BY <1>3, PublishedSame DEF EnqueueFails
  <2> QED
    BY <1>3, <1>0, <1>00, <2>1, <2>8 DEF EnqueueFails, Events
<1>4. ASSUME NEW n \in Instances, Dequeue(n) PROVE Verdicts'
  <2>1. Head(queue) \in Tasks /\ Queued(Head(queue))
        /\ \A u \in Tasks : Queued(u)' => Queued(u) /\ u # Head(queue)
    BY <1>4, QueuePopped DEF Dequeue
  <2>8. \A u \in Tasks, e \in Events : Announced(u, e)' <=> Announced(u, e)
    BY <1>4, PublishedSame DEF Dequeue
  <2>2. \A m \in Instances : task[m] # Head(queue)
    BY <2>1 DEF WorkedOnOnce
  <2>3. /\ at' = [at EXCEPT ![n] = "popped"]
        /\ task' = [task EXCEPT ![n] = Head(queue)]
        /\ UNCHANGED <<row, error, submit, published>>
    BY <1>4 DEF Dequeue
  <2> HIDE DEF Ahead
  <2>4. \A u \in Tasks, phases \in {BeforeVerdict, BeforeReport} :
          Ahead(u, phases)' => Ahead(u, phases)
    BY <2>1, <2>3 DEF Ahead
  <2> QED
    BY <1>0, <1>00, <2>1, <2>3, <2>4, <2>8 DEF Events
<1>5. ASSUME NEW n \in Instances, DequeueLost(n) PROVE Verdicts'
  <2>1. \A u \in Tasks : Queued(u)' => Queued(u)
    BY <1>5, QueuePopped DEF DequeueLost
  <2>8. \A u \in Tasks, e \in Events : Announced(u, e)' <=> Announced(u, e)
    BY <1>5, PublishedSame DEF DequeueLost
  <2> QED
    BY <1>5, <1>0, <1>00, <2>1, <2>8 DEF DequeueLost, Events
<1>6. ASSUME NEW n \in Instances, InsertToken(n) PROVE Verdicts'
  BY <1>6, <1>0, <1>00 DEF InsertToken, WorkedOnOnce, Queued, Announced
<1>7. ASSUME NEW n \in Instances, BeginPlanning(n) PROVE Verdicts'
  BY <1>7, <1>0, <1>00 DEF BeginPlanning, WorkedOnOnce, Queued, Announced
<1>8. ASSUME NEW n \in Instances, BeginRunning(n) PROVE Verdicts'
  BY <1>8, <1>0, <1>00 DEF BeginRunning, WorkedOnOnce, Queued, Announced
<1>9. ASSUME NEW n \in Instances, StartBatches(n) PROVE Verdicts'
  BY <1>9, <1>0, <1>00 DEF StartBatches, WorkedOnOnce, Queued, Announced
<1>10. ASSUME NEW n \in Instances, DispatchCancelled(n) PROVE Verdicts'
  BY <1>10, <1>0, <1>00 DEF DispatchCancelled, WorkedOnOnce, Queued, Announced
<1>11. ASSUME NEW n \in Instances, DispatchAllFailed(n) PROVE Verdicts'
  BY <1>11, <1>0, <1>00 DEF DispatchAllFailed, WorkedOnOnce, Queued, Announced
<1>12. ASSUME NEW n \in Instances, DispatchDone(n) PROVE Verdicts'
  BY <1>12, <1>0, <1>00 DEF DispatchDone, WorkedOnOnce, Queued, Announced
<1>13. ASSUME NEW n \in Instances, StoreResult(n) PROVE Verdicts'
  BY <1>13, <1>0, <1>00 DEF StoreResult, WorkedOnOnce, Queued, Announced
<1>14. ASSUME NEW n \in Instances, ReportCompleted(n) PROVE Verdicts'
  <2>1. /\ Len(published'[task[n]]) <= Len(published[task[n]]) + 1
        /\ \A u \in Tasks : u # task[n] => published'[u] = published[u]
        /\ \A u \in Tasks, f \in Events :
             Announced(u, f)' => Announced(u, f) \/ (u = task[n]
                                                       /\ f = "task_completed")
    BY <1>14, Published DEF ReportCompleted, Events
  <2>2. \A u \in Tasks : Len(published[u]) \in Nat /\ Len(published'[u]) \in Nat
    BY TypedStep DEF PublishedTyped
  <2>9. \A u \in Tasks : Queued(u)' <=> Queued(u)
    BY <1>14, QueueSame DEF ReportCompleted
  <2>3. /\ at[n] = "stored" /\ at' = [at EXCEPT ![n] = "completedSent"]
        /\ task[n] \in Tasks
        /\ UNCHANGED <<row, error, submit, task>>
    BY <1>14 DEF ReportCompleted
  <2>4. \A u \in Tasks, phases \in {BeforeVerdict, BeforeReport} :
          Ahead(u, phases)' => Ahead(u, phases) /\ u # task[n]
    <3> SUFFICES ASSUME NEW u \in Tasks, NEW phases \in {BeforeVerdict, BeforeReport},
                        Ahead(u, phases)'
                 PROVE  Ahead(u, phases) /\ u # task[n]
      OBVIOUS
    <3>1. u # task[n]
      BY <2>3, <2>9 DEF WorkedOnOnce
    <3> QED
      BY <2>3, <2>9, <3>1
  <2>11. submit[task[n]] # "new"
    BY <2>3 DEF WorkedOnOnce
  <2> HIDE DEF Ahead, History, AboutToReport, VerdictWasStored, SecondVerdictIsARace
  <2>5. History'
    <3> SUFFICES ASSUME NEW u \in Tasks
                 PROVE  /\ submit'[u] = "new" =>
                             /\ row'[u] = "none" /\ Len(published'[u]) = 0
                             /\ ~ CancelAsked(u)'
                        /\ Ahead(u, BeforeVerdict)' =>
                             row'[u] \notin Final \/ CancelAsked(u)'
                        /\ Ahead(u, BeforeReport)' =>
                             /\ Len(published'[u]) = 0 \/ CancelAsked(u)'
                             /\ ~ Announced(u, "task_failed")'
      BY DEF History
    <3>1. CASE u = task[n]
      BY <1>0, <1>00, <2>3, <2>4, <2>11, <3>1 DEF History
    <3>2. CASE u # task[n]
      <4>1. published'[u] = published[u]
            /\ (Announced(u, "task_failed")' => Announced(u, "task_failed"))
        BY <2>1, <3>2 DEF Events
      <4> QED
        BY <1>0, <1>00, <2>3, <2>4, <4>1 DEF History
    <3> QED
      BY <3>1, <3>2
  <2>6. AboutToReport'
    BY <1>0, <2>3 DEF AboutToReport
  <2>7. VerdictWasStored'
    <3>1. /\ Announced(task[n], "task_completed")' =>
               row'[task[n]] = "completed" \/ Overtaken(task[n])
          /\ Announced(task[n], "task_failed")' => row'[task[n]] = "failed"
      BY <2>1, <2>3 DEF Events, AboutToReport, VerdictWasStored, History, Ahead
    <3> QED
      BY <1>0, <2>1, <2>3, <3>1 DEF Events, VerdictWasStored
  <2>8. SecondVerdictIsARace'
    BY <1>0, <2>1, <2>2, <2>3
    DEF SecondVerdictIsARace, History, AboutToReport, Ahead
  <2> QED
    BY <2>5, <2>6, <2>7, <2>8
<1>15. ASSUME NEW n \in Instances, ReportFailed(n) PROVE Verdicts'
  <2>1. /\ Len(published'[task[n]]) <= Len(published[task[n]]) + 1
        /\ \A u \in Tasks : u # task[n] => published'[u] = published[u]
        /\ \A u \in Tasks, f \in Events :
             Announced(u, f)' => Announced(u, f) \/ (u = task[n] /\ f = "task_failed")
    BY <1>15, Published DEF ReportFailed, Events
  <2>2. \A u \in Tasks : Len(published[u]) \in Nat /\ Len(published'[u]) \in Nat
    BY TypedStep DEF PublishedTyped
  <2>9. \A u \in Tasks : Queued(u)' <=> Queued(u)
    BY <1>15, QueueSame DEF ReportFailed
  <2>3. /\ at[n] = "failing" /\ at' = [at EXCEPT ![n] = "failedSent"]
        /\ task[n] \in Tasks
        /\ UNCHANGED <<row, error, submit, task>>
    BY <1>15 DEF ReportFailed
  <2>4. \A u \in Tasks, phases \in {BeforeVerdict, BeforeReport} :
          Ahead(u, phases)' => Ahead(u, phases) /\ u # task[n]
    BY <2>3, <2>9 DEF WorkedOnOnce
  <2>11. submit[task[n]] # "new"
    BY <2>3 DEF WorkedOnOnce
  <2> HIDE DEF Ahead, History, AboutToReport, VerdictWasStored, SecondVerdictIsARace
  <2>5. History'
    <3> SUFFICES ASSUME NEW u \in Tasks
                 PROVE  /\ submit'[u] = "new" =>
                             /\ row'[u] = "none" /\ Len(published'[u]) = 0
                             /\ ~ CancelAsked(u)'
                        /\ Ahead(u, BeforeVerdict)' =>
                             row'[u] \notin Final \/ CancelAsked(u)'
                        /\ Ahead(u, BeforeReport)' =>
                             /\ Len(published'[u]) = 0 \/ CancelAsked(u)'
                             /\ ~ Announced(u, "task_failed")'
      BY DEF History
    <3>1. CASE u = task[n]
      BY <1>0, <1>00, <2>3, <2>4, <2>11, <3>1 DEF History
    <3>2. CASE u # task[n]
      <4>1. published'[u] = published[u]
            /\ (Announced(u, "task_failed")' => Announced(u, "task_failed"))
        BY <2>1, <3>2 DEF Events
      <4> QED
        BY <1>0, <1>00, <2>3, <2>4, <4>1 DEF History
    <3> QED
      BY <3>1, <3>2
  <2>6. AboutToReport'
    BY <1>0, <2>3 DEF AboutToReport
  <2>7. VerdictWasStored'
    <3>1. /\ Announced(task[n], "task_completed")' =>
               row'[task[n]] = "completed" \/ Overtaken(task[n])
          /\ Announced(task[n], "task_failed")' => row'[task[n]] = "failed"
      BY <2>1, <2>3 DEF Events, AboutToReport, VerdictWasStored
    <3> QED
      BY <1>0, <2>1, <2>3, <3>1 DEF Events, VerdictWasStored
  <2>8. SecondVerdictIsARace'
    BY <1>0, <2>1, <2>2, <2>3
    DEF SecondVerdictIsARace, History, AboutToReport, Ahead
  <2> QED
    BY <2>5, <2>6, <2>7, <2>8
<1>16. ASSUME NEW n \in Instances, Return(n) PROVE Verdicts'
  BY <1>16, <1>0, <1>00 DEF Return, WorkedOnOnce, Queued, Announced
<1>17. ASSUME NEW n \in Instances, InnerError(n) PROVE Verdicts'
  BY <1>17, <1>0, <1>00 DEF InnerError, WorkedOnOnce, Queued, Announced
<1>18. ASSUME NEW n \in Instances, TimerFires(n) PROVE Verdicts'
  <2>8. \A u \in Tasks, e \in Events : Announced(u, e)' <=> Announced(u, e)
    BY <1>18, PublishedSame DEF TimerFires
  <2>9. \A u \in Tasks : Queued(u)' <=> Queued(u)
    BY <1>18, QueueSame DEF TimerFires
  <2>1. /\ at' = [at EXCEPT ![n] = "timedOut"] /\ at[n] # "idle"
        /\ UNCHANGED <<row, error, submit, task, published>>
    BY <1>18 DEF TimerFires, Working, Sent
  <2> QED
    BY <1>0, <1>00, <2>1, <2>8, <2>9 DEF Events
<1>19. ASSUME NEW n \in Instances, TimeoutSetError(n) PROVE Verdicts'
  BY <1>19, <1>0, <1>00 DEF TimeoutSetError, WorkedOnOnce, Queued, Announced
<1>20. ASSUME NEW n \in Instances, TimeoutReport(n) PROVE Verdicts'
  <2>1. /\ Len(published'[task[n]]) <= Len(published[task[n]]) + 1
        /\ \A u \in Tasks : u # task[n] => published'[u] = published[u]
        /\ \A u \in Tasks, f \in Events :
             Announced(u, f)' => Announced(u, f) \/ (u = task[n] /\ f = "task_failed")
    BY <1>20, Published DEF TimeoutReport, Events
  <2>2. \A u \in Tasks : Len(published[u]) \in Nat /\ Len(published'[u]) \in Nat
    BY TypedStep DEF PublishedTyped
  <2>9. \A u \in Tasks : Queued(u)' <=> Queued(u)
    BY <1>20, QueueSame DEF TimeoutReport
  <2>3. /\ at[n] = "timedOutSet" /\ at' = [at EXCEPT ![n] = "returnErr"]
        /\ task[n] \in Tasks
        /\ UNCHANGED <<error, submit, task>>
    BY <1>20 DEF TimeoutReport
  <2>4. \A u \in Tasks, phases \in {BeforeVerdict, BeforeReport} :
          Ahead(u, phases)' => Ahead(u, phases) /\ u # task[n]
    BY <2>3, <2>9 DEF WorkedOnOnce
  <2>11. submit[task[n]] # "new"
    BY <2>3 DEF WorkedOnOnce
  <2> HIDE DEF Ahead, History, AboutToReport, VerdictWasStored, SecondVerdictIsARace
  <2>10. row' = row
    BY <1>20, <2>3 DEF TimeoutReport, AboutToReport
  <2>5. History'
    <3> SUFFICES ASSUME NEW u \in Tasks
                 PROVE  /\ submit'[u] = "new" =>
                             /\ row'[u] = "none" /\ Len(published'[u]) = 0
                             /\ ~ CancelAsked(u)'
                        /\ Ahead(u, BeforeVerdict)' =>
                             row'[u] \notin Final \/ CancelAsked(u)'
                        /\ Ahead(u, BeforeReport)' =>
                             /\ Len(published'[u]) = 0 \/ CancelAsked(u)'
                             /\ ~ Announced(u, "task_failed")'
      BY DEF History
    <3>1. CASE u = task[n]
      BY <1>0, <1>00, <2>3, <2>4, <2>11, <3>1, <2>10 DEF History
    <3>2. CASE u # task[n]
      <4>1. published'[u] = published[u]
            /\ (Announced(u, "task_failed")' => Announced(u, "task_failed"))
        BY <2>1, <3>2 DEF Events
      <4> QED
        BY <1>0, <1>00, <2>3, <2>4, <4>1, <2>10 DEF History
    <3> QED
      BY <3>1, <3>2
  <2>6. AboutToReport'
    BY <1>0, <2>3, <2>10 DEF AboutToReport
  <2>7. VerdictWasStored'
    <3>1. /\ Announced(task[n], "task_completed")' =>
               row'[task[n]] = "completed" \/ Overtaken(task[n])
          /\ Announced(task[n], "task_failed")' => row'[task[n]] = "failed"
      BY <2>1, <2>3, <2>10 DEF Events, AboutToReport, VerdictWasStored
    <3> QED
      BY <1>0, <2>1, <2>3, <2>10, <3>1 DEF Events, VerdictWasStored
  <2>8. SecondVerdictIsARace'
    BY <1>0, <2>1, <2>2, <2>3, <2>10
    DEF SecondVerdictIsARace, History, AboutToReport, Ahead
  <2> QED
    BY <2>5, <2>6, <2>7, <2>8
<1>21. ASSUME NEW n \in Instances, RemoveToken(n) PROVE Verdicts'
  BY <1>21, <1>0, <1>00 DEF RemoveToken, WorkedOnOnce, Queued, Announced
<1>22. ASSUME NEW n \in Instances, Abandon(n) PROVE Verdicts'
  BY <1>22, <1>0, <1>00 DEF Abandon, WorkedOnOnce, Queued, Announced
<1>23. ASSUME NEW n \in Instances, Crash(n) PROVE Verdicts'
  BY <1>23, <1>0, <1>00 DEF Crash, WorkedOnOnce, Queued, Announced
<1>24. ASSUME NEW r \in Requests, NEW n \in Instances, NEW t \in Tasks,
              CancelRead(r, n, t)
       PROVE  Verdicts'
  BY <1>24, <1>0, <1>00 DEF CancelRead, WorkedOnOnce, Queued, Announced
<1>25. ASSUME NEW r \in Requests, CancelSignal(r) PROVE Verdicts'
  BY <1>25, <1>0, <1>00 DEF CancelSignal, WorkedOnOnce, Queued, Announced
<1>26. ASSUME NEW r \in Requests, CancelSetError(r) PROVE Verdicts'
  <2> DEFINE t == request[r].task
  <2>1. t \in Tasks /\ CancelAsked(t)
    BY <1>26, RequestAsked DEF CancelSetError, Proceed
  <2> HIDE DEF t
  <2>2. /\ UNCHANGED published
        /\ \A u \in Tasks, e \in Events : Announced(u, e)' <=> Announced(u, e)
    BY <1>26, PublishedSame DEF CancelSetError
  <2>9. \A u \in Tasks : Queued(u)' <=> Queued(u)
    BY <1>26, QueueSame DEF CancelSetError
  <2>3. /\ UNCHANGED <<submit, at, task>>
        /\ row' = [row EXCEPT ![t] = "failed"]
        /\ error' = [error EXCEPT ![t] = "cancelled"]
    BY <1>26 DEF CancelSetError, t
  <2>4. \A u \in Tasks, phases \in {BeforeVerdict, BeforeReport} :
          Ahead(u, phases)' => Ahead(u, phases)
    BY <2>3, <2>9
  <2> HIDE DEF Ahead, History, AboutToReport, VerdictWasStored, SecondVerdictIsARace
  <2>5. History'
    <3> SUFFICES ASSUME NEW u \in Tasks
                 PROVE  /\ submit'[u] = "new" =>
                             /\ row'[u] = "none" /\ Len(published'[u]) = 0
                             /\ ~ CancelAsked(u)'
                        /\ Ahead(u, BeforeVerdict)' =>
                             row'[u] \notin Final \/ CancelAsked(u)'
                        /\ Ahead(u, BeforeReport)' =>
                             /\ Len(published'[u]) = 0 \/ CancelAsked(u)'
                             /\ ~ Announced(u, "task_failed")'
      BY DEF History
    <3> QED
      BY <1>0, <2>1, <2>2, <2>3, <2>4, <1>00 DEF Cancellable, Events, History
  <2>6. AboutToReport'
    BY <1>0, <2>1, <2>3 DEF AboutToReport
  <2>7. VerdictWasStored'
    BY <1>0, <2>1, <2>2, <2>3 DEF Events, VerdictWasStored
  <2>8. SecondVerdictIsARace'
    BY <1>0, <2>1, <2>2, <2>3 DEF SecondVerdictIsARace
  <2> QED
    BY <2>5, <2>6, <2>7, <2>8
<1>27. ASSUME NEW r \in Requests, CancelMark(r) PROVE Verdicts'
  <2> DEFINE t == request[r].task
  <2>1. t \in Tasks /\ CancelAsked(t)
    BY <1>27, RequestAsked DEF CancelMark, Proceed
  <2> HIDE DEF t
  <2>2. /\ UNCHANGED published
        /\ \A u \in Tasks, e \in Events : Announced(u, e)' <=> Announced(u, e)
    BY <1>27, PublishedSame DEF CancelMark
  <2>9. \A u \in Tasks : Queued(u)' <=> Queued(u)
    BY <1>27, QueueSame DEF CancelMark
  <2>3. /\ UNCHANGED <<submit, at, task>>
        /\ row' = [row EXCEPT ![t] = "failed"] /\ error' = error
    BY <1>27 DEF CancelMark, t
  <2>4. \A u \in Tasks, phases \in {BeforeVerdict, BeforeReport} :
          Ahead(u, phases)' => Ahead(u, phases)
    BY <2>3, <2>9
  <2> HIDE DEF Ahead, History, AboutToReport, VerdictWasStored, SecondVerdictIsARace
  <2>5. History'
    <3> SUFFICES ASSUME NEW u \in Tasks
                 PROVE  /\ submit'[u] = "new" =>
                             /\ row'[u] = "none" /\ Len(published'[u]) = 0
                             /\ ~ CancelAsked(u)'
                        /\ Ahead(u, BeforeVerdict)' =>
                             row'[u] \notin Final \/ CancelAsked(u)'
                        /\ Ahead(u, BeforeReport)' =>
                             /\ Len(published'[u]) = 0 \/ CancelAsked(u)'
                             /\ ~ Announced(u, "task_failed")'
      BY DEF History
    <3> QED
      BY <1>0, <2>1, <2>2, <2>3, <2>4, <1>00 DEF Cancellable, Events, History
  <2>6. AboutToReport'
    BY <1>0, <2>1, <2>3 DEF AboutToReport
  <2>7. VerdictWasStored'
    BY <1>0, <2>1, <2>2, <2>3 DEF Events, VerdictWasStored
  <2>8. SecondVerdictIsARace'
    BY <1>0, <2>1, <2>2, <2>3 DEF SecondVerdictIsARace
  <2> QED
    BY <2>5, <2>6, <2>7, <2>8
<1>28. ASSUME NEW r \in Requests, CancelReport(r) PROVE Verdicts'
  <2> DEFINE t == request[r].task
  <2>1. t \in Tasks /\ CancelAsked(t)
    BY <1>28, RequestAsked DEF CancelReport, Proceed
  <2> HIDE DEF t
  <2>2. /\ Len(published'[t]) <= Len(published[t]) + 1
        /\ \A u \in Tasks : u # t => published'[u] = published[u]
        /\ \A u \in Tasks, f \in Events :
             Announced(u, f)' => Announced(u, f) \/ (u = t /\ f = "task_cancelled")
    BY <1>28, <2>1, Published DEF CancelReport, Events, t
  <2>9. \A u \in Tasks : Queued(u)' <=> Queued(u)
    BY <1>28, QueueSame DEF CancelReport
  <2>3. /\ UNCHANGED <<row, error, submit, at, task>>
    BY <1>28 DEF CancelReport, t
  <2>4. \A u \in Tasks, phases \in {BeforeVerdict, BeforeReport} :
          Ahead(u, phases)' => Ahead(u, phases)
    BY <2>3, <2>9
  <2> HIDE DEF Ahead, History, AboutToReport, VerdictWasStored, SecondVerdictIsARace
  <2>5. History'
    <3> SUFFICES ASSUME NEW u \in Tasks
                 PROVE  /\ submit'[u] = "new" =>
                             /\ row'[u] = "none" /\ Len(published'[u]) = 0
                             /\ ~ CancelAsked(u)'
                        /\ Ahead(u, BeforeVerdict)' =>
                             row'[u] \notin Final \/ CancelAsked(u)'
                        /\ Ahead(u, BeforeReport)' =>
                             /\ Len(published'[u]) = 0 \/ CancelAsked(u)'
                             /\ ~ Announced(u, "task_failed")'
      BY DEF History
    <3> QED
      BY <1>0, <2>1, <2>2, <2>3, <2>4, <1>00 DEF Cancellable, Events, History
  <2>6. AboutToReport'
    BY <1>0, <2>1, <2>3 DEF AboutToReport
  <2>7. VerdictWasStored'
    BY <1>0, <2>1, <2>2, <2>3 DEF Events, VerdictWasStored
  <2>8. SecondVerdictIsARace'
    BY <1>0, <2>1, <2>2, <2>3 DEF SecondVerdictIsARace
  <2> QED
    BY <2>5, <2>6, <2>7, <2>8
<1>29. ASSUME NEW r \in Requests, CancelRemoveToken(r) PROVE Verdicts'
  BY <1>29, <1>0, <1>00 DEF CancelRemoveToken, WorkedOnOnce, Queued, Announced
<1>30. ASSUME NEW r \in Requests, CancelError(r) PROVE Verdicts'
  BY <1>30, <1>0, <1>00 DEF CancelError, WorkedOnOnce, Queued, Announced
<1>31. CASE UNCHANGED vars
  BY <1>31 DEF vars, Queued, Announced, CancelAsked
<1> QED
  BY <1>1, <1>2, <1>3, <1>4, <1>5, <1>6, <1>7, <1>8, <1>9, <1>10, <1>11,
     <1>12, <1>13, <1>14, <1>15, <1>16, <1>17, <1>18, <1>19, <1>20, <1>21,
     <1>22, <1>23, <1>24, <1>25, <1>26, <1>27, <1>28, <1>29, <1>30, <1>31
  DEF Next, WorkerMove, RequestMove

LEMMA InitHolds == Init => Typed /\ WorkedOnOnce /\ Verdicts
<1> SUFFICES ASSUME Init PROVE Typed /\ WorkedOnOnce /\ Verdicts
  OBVIOUS
<1> USE NoTaskAssumption DEF Init
<1>1. ControlTyped /\ RequestsTyped /\ QueueTyped /\ PublishedTyped
  BY DEF ControlTyped, RequestsTyped, QueueTyped, PublishedTyped, WorkerStates
<1>2. SignalsTyped
  BY Zenon DEF SignalsTyped
<1>3. WorkedOnOnce
  BY DEF WorkedOnOnce, Queued
<1>4. \A u \in Tasks : ~ CancelAsked(u) /\ \A e \in Events : ~ Announced(u, e)
  BY DEF CancelAsked, Announced
<1>5. Verdicts
  BY <1>4 DEF Verdicts, History, AboutToReport, VerdictWasStored,
     SecondVerdictIsARace, Ahead, Queued, BeforeVerdict, BeforeReport, Events, Final
<1> QED
  BY <1>1, <1>2, <1>3, <1>5 DEF Typed

LEMMA Parts == IInv <=> Typed /\ WorkedOnOnce /\ Verdicts
<1>1. IInv => \A n \in Instances : at[n] # "idle" => task[n] \in Tasks
  BY DEF IInv, AboutToReport
<1>2. Typed => \A n \in Instances : at[n] # "idle" => task[n] \in Tasks
  BY DEF Typed, ControlTyped
<1> QED
  BY <1>1, <1>2, TypeParts DEF IInv, Typed, Verdicts

\* The inductive invariant.
THEOREM InvariantHolds == Spec => []IInv
<1>1. Init => IInv
  BY InitHolds, Parts
<1>2. IInv /\ [Next]_vars => IInv'
  <2> SUFFICES ASSUME IInv, [Next]_vars PROVE IInv'
    OBVIOUS
  <2>1. Typed /\ WorkedOnOnce /\ Verdicts
    BY Parts
  <2>2. (Typed /\ WorkedOnOnce /\ Verdicts)'
    BY <2>1, TypedStep, WorkedOnOnceStep, VerdictsStep
  <2>3. (IInv <=> Typed /\ WorkedOnOnce /\ Verdicts)'
    BY Parts, PTL
  <2> QED
    BY <2>2, <2>3
<1> QED
  BY <1>1, <1>2, PTL DEF Spec

\* Type correctness.
THEOREM TypeCorrect == Spec => []TypeOK
<1>1. IInv => TypeOK
  BY DEF IInv
<1> QED
  BY <1>1, InvariantHolds, PTL

\* A task is in the queue once, or with one worker, or with none.
THEOREM OneExecution == Spec => []WorkedOnOnce
<1>1. IInv => WorkedOnOnce
  BY DEF IInv
<1> QED
  BY <1>1, InvariantHolds, PTL

\* A verdict is stored before it is announced, and stays as announced but for
\* a cancellation or the timer.
THEOREM VerdictsAreStored == Spec => []VerdictWasStored
<1>1. IInv => VerdictWasStored
  BY DEF IInv
<1> QED
  BY <1>1, InvariantHolds, PTL

\* Two verdicts are announced only in a race with a cancellation or the timer.
THEOREM OneVerdict == Spec => []SecondVerdictIsARace
<1>1. IInv => SecondVerdictIsARace
  BY DEF IInv
<1> QED
  BY <1>1, InvariantHolds, PTL

LEMMA FinalStep ==
  ASSUME IInv, [Next]_vars, NEW u \in Tasks, row[u] \in Final, row'[u] # row[u]
  PROVE  CancelAsked(u) \/ error'[u] = "timedOut"
<1> DEFINE Goal == CancelAsked(u) \/ error'[u] = "timedOut"
<1>0. Typed /\ History /\ AboutToReport
  BY Parts DEF Verdicts
<1> USE <1>0
    DEF Typed, ControlTyped, Ahead, BeforeVerdict, BeforeReport, rowVars, Work,
        SetRow, SetError, Final
<1>1. ASSUME NEW t \in Tasks, Insert(t) PROVE Goal
  BY <1>1 DEF Insert, History, AboutToReport
<1>2. ASSUME NEW t \in Tasks, Enqueue(t) PROVE Goal
  BY <1>2 DEF Enqueue, History, AboutToReport
<1>3. ASSUME NEW t \in Tasks, EnqueueFails(t) PROVE Goal
  BY <1>3 DEF EnqueueFails, History, AboutToReport
<1>4. ASSUME NEW n \in Instances, Dequeue(n) PROVE Goal
  BY <1>4 DEF Dequeue, History, AboutToReport
<1>5. ASSUME NEW n \in Instances, DequeueLost(n) PROVE Goal
  BY <1>5 DEF DequeueLost, History, AboutToReport
<1>6. ASSUME NEW n \in Instances, InsertToken(n) PROVE Goal
  BY <1>6 DEF InsertToken, History, AboutToReport
<1>7. ASSUME NEW n \in Instances, BeginPlanning(n) PROVE Goal
  BY <1>7 DEF BeginPlanning, History, AboutToReport
<1>8. ASSUME NEW n \in Instances, BeginRunning(n) PROVE Goal
  BY <1>8 DEF BeginRunning, History, AboutToReport
<1>9. ASSUME NEW n \in Instances, StartBatches(n) PROVE Goal
  BY <1>9 DEF StartBatches, History, AboutToReport
<1>10. ASSUME NEW n \in Instances, DispatchCancelled(n) PROVE Goal
  BY <1>10 DEF DispatchCancelled, History, AboutToReport
<1>11. ASSUME NEW n \in Instances, DispatchAllFailed(n) PROVE Goal
  BY <1>11 DEF DispatchAllFailed, History, AboutToReport
<1>12. ASSUME NEW n \in Instances, DispatchDone(n) PROVE Goal
  BY <1>12 DEF DispatchDone, History, AboutToReport
<1>13. ASSUME NEW n \in Instances, StoreResult(n) PROVE Goal
  BY <1>13 DEF StoreResult, History, AboutToReport
<1>14. ASSUME NEW n \in Instances, ReportCompleted(n) PROVE Goal
  BY <1>14 DEF ReportCompleted, History, AboutToReport
<1>15. ASSUME NEW n \in Instances, ReportFailed(n) PROVE Goal
  BY <1>15 DEF ReportFailed, History, AboutToReport
<1>16. ASSUME NEW n \in Instances, Return(n) PROVE Goal
  BY <1>16 DEF Return, History, AboutToReport
<1>17. ASSUME NEW n \in Instances, InnerError(n) PROVE Goal
  BY <1>17 DEF InnerError, History, AboutToReport
<1>18. ASSUME NEW n \in Instances, TimerFires(n) PROVE Goal
  BY <1>18 DEF TimerFires, History, AboutToReport
<1>19. ASSUME NEW n \in Instances, TimeoutSetError(n) PROVE Goal
  BY <1>19 DEF TimeoutSetError, History, AboutToReport
<1>20. ASSUME NEW n \in Instances, TimeoutReport(n) PROVE Goal
  BY <1>20 DEF TimeoutReport, History, AboutToReport
<1>21. ASSUME NEW n \in Instances, RemoveToken(n) PROVE Goal
  BY <1>21 DEF RemoveToken, History, AboutToReport
<1>22. ASSUME NEW n \in Instances, Abandon(n) PROVE Goal
  BY <1>22 DEF Abandon, History, AboutToReport
<1>23. ASSUME NEW n \in Instances, Crash(n) PROVE Goal
  BY <1>23 DEF Crash, History, AboutToReport
<1>24. ASSUME NEW r \in Requests, NEW n \in Instances, NEW t \in Tasks,
              CancelRead(r, n, t)
       PROVE  Goal
  BY <1>24 DEF CancelRead, History, AboutToReport
<1>25. ASSUME NEW r \in Requests, CancelSignal(r) PROVE Goal
  BY <1>25 DEF CancelSignal, History, AboutToReport
<1>26. ASSUME NEW r \in Requests, CancelSetError(r) PROVE Goal
  <2>1. request[r].task \in Tasks /\ CancelAsked(request[r].task)
    BY <1>26, RequestAsked DEF CancelSetError, Proceed
  <2> QED
    BY <1>26, <2>1 DEF CancelSetError
<1>27. ASSUME NEW r \in Requests, CancelMark(r) PROVE Goal
  <2>1. request[r].task \in Tasks /\ CancelAsked(request[r].task)
    BY <1>27, RequestAsked DEF CancelMark, Proceed
  <2> QED
    BY <1>27, <2>1 DEF CancelMark
<1>28. ASSUME NEW r \in Requests, CancelReport(r) PROVE Goal
  BY <1>28 DEF CancelReport, History, AboutToReport
<1>29. ASSUME NEW r \in Requests, CancelRemoveToken(r) PROVE Goal
  BY <1>29 DEF CancelRemoveToken, History, AboutToReport
<1>30. ASSUME NEW r \in Requests, CancelError(r) PROVE Goal
  BY <1>30 DEF CancelError, History, AboutToReport
<1>31. CASE UNCHANGED vars
  BY <1>31 DEF vars
<1> QED
  BY <1>1, <1>2, <1>3, <1>4, <1>5, <1>6, <1>7, <1>8, <1>9, <1>10, <1>11,
     <1>12, <1>13, <1>14, <1>15, <1>16, <1>17, <1>18, <1>19, <1>20, <1>21,
     <1>22, <1>23, <1>24, <1>25, <1>26, <1>27, <1>28, <1>29, <1>30, <1>31
  DEF Next, WorkerMove, RequestMove

\* The row of a task with a verdict changes only by a cancellation or the timer.
THEOREM FinalRowStays == Spec => FinalRowKept
<1>1. IInv /\ [Next]_vars =>
        [\A t \in Tasks : row[t] \in Final /\ row'[t] # row[t] =>
            CancelAsked(t) \/ error'[t] = "timedOut"]_vars
  BY FinalStep
<1> QED
  BY <1>1, InvariantHolds, PTL DEF Spec, FinalRowKept

=============================================================================
