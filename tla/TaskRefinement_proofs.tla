------------------------ MODULE TaskRefinement_proofs ------------------------
(***************************************************************************)
(* TaskLifecycle implements TaskVerdict: whoever watches one task sees one *)
(* execution of it and at most one verdict of that, for every set of       *)
(* tasks, instances and requests and every set of faults.                  *)
(***************************************************************************)
EXTENDS TaskLifecycle_proofs

-----------------------------------------------------------------------------
(* What a step changes in the view of one task.                            *)

LEMMA OnlyWorker ==
  ASSUME NEW works, NEW t, NEW n \in Instances, works[n] = t,
         \A m \in Instances : works[m] = t => m = n
  PROVE  (CHOOSE m \in Instances : works[m] = t) = n
OBVIOUS

\* A worker goes on.
LEMMA WorkMoves ==
  ASSUME Typed, WorkedOnOnce, UNCHANGED <<submit, queue>>,
         NEW n \in Instances, NEW to, at' = [at EXCEPT ![n] = to], UNCHANGED task,
         NEW t \in Tasks
  PROVE  /\ task[n] = t => Execution(t) = Stage(at[n]) /\ Execution(t)' = Stage(to)
         /\ task[n] # t => UNCHANGED Execution(t)
<1> USE DEF Typed, ControlTyped
<1>1. CASE task[n] = t
  <2>1. \A m \in Instances : task[m] = t => m = n
    BY <1>1 DEF WorkedOnOnce
  <2>2. (CHOOSE m \in Instances : task[m] = t) = n
    BY <1>1, <2>1, OnlyWorker
  <2>3. (CHOOSE m \in Instances : task'[m] = t) = n
    BY <1>1, <2>1, OnlyWorker
  <2> QED
    BY <1>1, <2>2, <2>3 DEF Execution
<1>2. CASE task[n] # t /\ \E m \in Instances : task[m] = t
  <2>1. PICK m \in Instances : task[m] = t
    BY <1>2
  <2>2. \A k \in Instances : task[k] = t => k = m
    BY <2>1 DEF WorkedOnOnce
  <2>3. (CHOOSE k \in Instances : task[k] = t) = m
    BY <2>1, <2>2, OnlyWorker
  <2>4. (CHOOSE k \in Instances : task'[k] = t) = m
    BY <2>1, <2>2, OnlyWorker
  <2>5. Execution(t) = Stage(at[m])
    BY <2>1, <2>3 DEF Execution
  <2>6. Execution(t)' = Stage(at'[m])
    BY <2>1, <2>4 DEF Execution
  <2> QED
    BY <1>2, <2>1, <2>5, <2>6
<1>3. CASE ~ \E m \in Instances : task[m] = t
  BY <1>3 DEF Execution, Queued
<1> QED
  BY <1>1, <1>2, <1>3

LEMMA WorkSteps ==
  ASSUME Typed, WorkedOnOnce, UNCHANGED <<submit, queue>>,
         NEW n \in Instances, NEW from, NEW to, Work(n, from, to), NEW t \in Tasks
  PROVE  /\ task[n] = t => Execution(t) = Stage(from) /\ Execution(t)' = Stage(to)
         /\ task[n] # t => UNCHANGED Execution(t)
BY WorkMoves DEF Work

LEMMA Stages ==
  /\ \A place \in {"popped", "begin", "planning", "dispatch", "batches",
                    "synthesizing"} : Stage(place) = "working"
  /\ Stage("failing") = "failed" /\ Stage("stored") = "completed"
  /\ \A place \in Sent : Stage(place) = "sent"
  /\ Stage("timedOut") = "expired" /\ Stage("timedOutSet") = "judged"
  /\ Stage("returnOk") = "over" /\ Stage("returnErr") = "over"
BY DEF Stage, Sent

\* A worker gives up what it works on: nobody takes it up again.
LEMMA WorkEnds ==
  ASSUME Typed, WorkedOnOnce, UNCHANGED <<submit, queue>>,
         NEW n \in Instances, BecomeIdle(n), NEW t \in Tasks
  PROVE  /\ task[n] = t => Execution(t) = Stage(at[n]) /\ Execution(t)' = "over"
         /\ task[n] # t => UNCHANGED Execution(t)
<1> USE NoTaskAssumption DEF Typed, ControlTyped, BecomeIdle
<1>1. CASE task[n] = t
  <2>1. \A m \in Instances : task[m] = t => m = n
    BY <1>1 DEF WorkedOnOnce
  <2>2. (CHOOSE m \in Instances : task[m] = t) = n
    BY <1>1, <2>1, OnlyWorker
  <2>3. ~ \E m \in Instances : task'[m] = t
    BY <2>1
  <2>4. submit[t] \notin {"new", "inserted"} /\ ~ Queued(t)
    BY <1>1 DEF WorkedOnOnce
  <2> QED
    BY <1>1, <2>2, <2>3, <2>4 DEF Execution, Queued
<1>2. CASE task[n] # t /\ \E m \in Instances : task[m] = t
  <2>1. PICK m \in Instances : task[m] = t
    BY <1>2
  <2>2. \A k \in Instances : task[k] = t => k = m
    BY <2>1 DEF WorkedOnOnce
  <2>3. (CHOOSE k \in Instances : task[k] = t) = m
    BY <2>1, <2>2, OnlyWorker
  <2>4. task'[m] = t /\ \A k \in Instances : task'[k] = t => k = m
    BY <1>2, <2>1, <2>2
  <2>5. (CHOOSE k \in Instances : task'[k] = t) = m
    BY <2>4, OnlyWorker
  <2>6. Execution(t) = Stage(at[m])
    BY <2>1, <2>3 DEF Execution
  <2>7. Execution(t)' = Stage(at'[m])
    BY <2>4, <2>5 DEF Execution
  <2> QED
    BY <1>2, <2>1, <2>6, <2>7
<1>3. CASE ~ \E m \in Instances : task[m] = t
  <2>1. ~ \E m \in Instances : task'[m] = t
    BY <1>3
  <2> QED
    BY <1>3, <2>1 DEF Execution, Queued
<1> QED
  BY <1>1, <1>2, <1>3

\* A request goes on.
LEMMA RequestMoves ==
  ASSUME RequestsTyped, NEW r \in Requests, NEW from \in RequestStates \ {"idle"},
         NEW to \in RequestStates \ {"idle"}, Proceed(r, from, to), NEW t \in Tasks
  PROVE  /\ request[r].task \in Tasks
         /\ request[r].task = t =>
              Handlings(t)' = [Handlings(t) EXCEPT ![r] = Handling(r, t)']
         /\ request[r].task # t => UNCHANGED Handlings(t)
<1>1. /\ request[r] \in [at : RequestStates, task : Tasks, on : Instances,
                         saw : Cancellable]
      /\ request[r].at = from /\ request[r].task \in Tasks
  BY RequestTask DEF Proceed
<1>2. /\ request'[r].at = to /\ request'[r].task = request[r].task
      /\ \A q \in Requests : q # r => request'[q] = request[q]
  BY <1>1 DEF Proceed, RequestsTyped
<1>3. ASSUME NEW q \in Requests, request'[q] = request[q]
      PROVE  UNCHANGED Handling(q, t)
  BY <1>3, Zenon DEF Handling
<1>4. request[r].task # t => Handling(r, t) = "idle" /\ Handling(r, t)' = "idle"
  BY <1>1, <1>2 DEF Handling
<1> HIDE DEF Handling
<1>5. request[r].task = t =>
        Handlings(t)' = [Handlings(t) EXCEPT ![r] = Handling(r, t)']
  BY <1>2, <1>3 DEF Handlings
<1>6. request[r].task # t => UNCHANGED Handlings(t)
  BY <1>2, <1>3, <1>4 DEF Handlings
<1> QED
  BY <1>1, <1>5, <1>6

LEMMA RowSame ==
  ASSUME UNCHANGED rowVars, NEW t \in Tasks
  PROVE  UNCHANGED <<Shown(t), TimedOut(t)>>
BY DEF rowVars, Shown, TimedOut

LEMMA RequestsSame ==
  ASSUME UNCHANGED request, NEW t \in Tasks
  PROVE  UNCHANGED Handlings(t)
<1>1. \A q \in Requests : UNCHANGED Handling(q, t)
  BY DEF Handling
<1> QED
  BY <1>1, Zenon DEF Handlings

LEMMA WorkSame ==
  ASSUME UNCHANGED <<submit, queue, at, task>>, NEW t \in Tasks
  PROVE  UNCHANGED Execution(t)
BY Zenon DEF Execution, Queued

-----------------------------------------------------------------------------
(* The steps of TaskVerdict.                                               *)

\* What ImplementsTaskVerdict asks of a step for task t.
Allowed(t) ==
  /\ [Verdict(t)!Next]_(Verdict(t)!vars)
  /\ published'[t] # published[t] =>
       \E e \in Verdict(t)!Terminal :
         /\ Verdict(t)!Announces(e)
         /\ published'[t] = Append(published[t], e)

LEMMA Unseen ==
  ASSUME NEW t \in Tasks, published'[t] = published[t],
         UNCHANGED <<Shown(t), TimedOut(t), Execution(t), Handlings(t)>>
  PROVE  Allowed(t)
BY DEF Allowed, Verdict!vars

LEMMA Quietly ==
  ASSUME NEW t \in Tasks, published'[t] = published[t], Verdict(t)!Quiet
  PROVE  Allowed(t)
BY DEF Allowed, Verdict!Next

LEMMA Aloud ==
  ASSUME PublishedTyped, NEW t \in Tasks, NEW e \in Events, Publish(t, e),
         Verdict(t)!Announces(e)
  PROVE  Allowed(t)
<1>1. e \in Verdict(t)!Terminal
  BY DEF Events, Verdict!Terminal
<1>2. published'[t] # published[t] => published'[t] = Append(published[t], e)
  BY DEF Publish, PublishedTyped
<1> QED
  BY <1>1, <1>2 DEF Allowed, Verdict!Next

LEMMA Drops ==
  ASSUME NEW t \in Tasks, published'[t] = published[t],
         UNCHANGED <<Shown(t), TimedOut(t)>>, Execution(t)' \in {Execution(t), "over"},
         NEW lost \in SUBSET {r \in Requests : Handlings(t)[r] # "idle"},
         Handlings(t)' = [r \in Requests |->
                            IF r \in lost THEN "lost" ELSE Handlings(t)[r]]
  PROVE  Allowed(t)
<1>1. \E some \in SUBSET {r \in Requests : Handlings(t)[r] # "idle"} :
        Handlings(t)' = [r \in Requests |->
                           IF r \in some THEN "lost" ELSE Handlings(t)[r]]
  OBVIOUS
<1>2. Verdict(t)!Drop
  BY <1>1 DEF Verdict!Drop
<1> QED
  BY <1>2, Quietly DEF Verdict!Quiet

\* Only the execution ends.
LEMMA Ends ==
  ASSUME NEW t \in Tasks, published'[t] = published[t],
         UNCHANGED <<Shown(t), TimedOut(t), Handlings(t)>>,
         Execution(t)' \in {Execution(t), "over"}
  PROVE  Allowed(t)
<1>1. {} \in SUBSET {r \in Requests : Handlings(t)[r] # "idle"}
  OBVIOUS
<1>2. Handlings(t)' = [r \in Requests |->
                         IF r \in {} THEN "lost" ELSE Handlings(t)[r]]
  BY DEF Handlings
<1> QED
  BY <1>1, <1>2, Drops

\* A worker goes on, or gives up, and tells nobody.
LEMMA MovesQuietly ==
  ASSUME Typed, WorkedOnOnce, UNCHANGED <<rowVars, submit, queue, request, published>>,
         NEW n \in Instances, NEW from, NEW to, Work(n, from, to),
         \/ Stage(to) \in {Stage(from), "over"}
         \/ Stage(to) = "expired" /\ Stage(from) \in {"working", "sent"} \cup Final,
         NEW t \in Tasks
  PROVE  Allowed(t)
<1>1. UNCHANGED <<Shown(t), TimedOut(t), Handlings(t)>>
  BY RowSame, RequestsSame
<1>2. CASE task[n] # t
  BY <1>1, <1>2, WorkSteps, Unseen
<1>3. CASE task[n] = t
  <2>1. Execution(t) = Stage(from) /\ Execution(t)' = Stage(to)
    BY <1>3, WorkSteps
  <2>2. CASE Stage(to) \in {Stage(from), "over"}
    BY <1>1, <2>1, <2>2, Ends
  <2>3. CASE Stage(to) = "expired" /\ Stage(from) \in {"working", "sent"} \cup Final
    <3>1. Verdict(t)!Expire
      BY <1>1, <2>1, <2>3 DEF Verdict!Expire, Verdict!Final, Final
    <3> QED
      BY <3>1, Quietly DEF Verdict!Quiet
  <2> QED
    BY <2>2, <2>3
<1> QED
  BY <1>2, <1>3

LEMMA EndsQuietly ==
  ASSUME Typed, WorkedOnOnce, UNCHANGED <<rowVars, submit, queue, request, published>>,
         NEW n \in Instances, BecomeIdle(n), NEW t \in Tasks
  PROVE  Allowed(t)
<1>1. UNCHANGED <<Shown(t), TimedOut(t), Handlings(t)>>
  BY RowSame, RequestsSame
<1>2. Execution(t)' \in {Execution(t), "over"}
  BY WorkEnds
<1> QED
  BY <1>1, <1>2, Ends

-----------------------------------------------------------------------------
(* Every step.                                                             *)

LEMMA SubmitAllowed ==
  ASSUME Typed, WorkedOnOnce, Verdicts, NEW u \in Tasks,
         Insert(u) \/ Enqueue(u) \/ EnqueueFails(u), NEW t \in Tasks
  PROVE  Allowed(t)
<1> USE DEF Typed, ControlTyped, rowVars, workerVars
<1>1. UNCHANGED Handlings(t) /\ published' = published
  BY RequestsSame DEF Insert, Enqueue, EnqueueFails
<1>2. CASE Insert(u)
  <2>1. UNCHANGED <<Shown(t), TimedOut(t)>>
    BY <1>2 DEF Insert, SetRow, Verdicts, History, Shown, TimedOut, Final
  <2>2. UNCHANGED Execution(t)
    <3>1. submit'[t] \in {"new", "inserted"} <=> submit[t] \in {"new", "inserted"}
      BY <1>2 DEF Insert
    <3>2. UNCHANGED <<queue, at, task>>
      BY <1>2 DEF Insert
    <3> QED
      BY <3>1, <3>2, Zenon DEF Execution, Queued
  <2> QED
    BY <1>1, <2>1, <2>2, Unseen
<1>3. CASE Enqueue(u) \/ EnqueueFails(u)
  <2>1. UNCHANGED <<row, error, at, task>> /\ submit[u] = "inserted"
    BY <1>3 DEF Enqueue, EnqueueFails
  <2>2. UNCHANGED <<Shown(t), TimedOut(t)>>
    BY <2>1, RowSame
  <2>3. Queued(t) => Queued(t)'
    <3>1. CASE queue' = Append(queue, u)
      <4>1. \A k \in DOMAIN queue : k \in DOMAIN queue' /\ queue'[k] = queue[k]
        BY <3>1 DEF QueueTyped
      <4> QED
        BY <4>1, Zenon DEF Queued
    <3>2. CASE queue' = queue
      BY <3>2, QueueSame
    <3> QED
      BY <1>3, <3>1, <3>2 DEF Enqueue, EnqueueFails
  <2>4. CASE Execution(t)' = Execution(t)
    BY <1>1, <2>2, <2>4, Unseen
  <2>5. CASE Execution(t)' # Execution(t)
    <3>1. ~ \E n \in Instances : task[n] = t
      BY <2>1, <2>5, Zenon DEF Execution
    <3>2. Execution(t)' \in {"working", "over"}
      BY <2>1, <3>1 DEF Execution
    <3>3. Execution(t) = "working"
      <4>1. CASE t = u
        BY <2>1, <3>1, <4>1 DEF Execution
      <4>2. CASE t # u
        <5>1. submit'[t] = submit[t]
          BY <1>3, <4>2 DEF Enqueue, EnqueueFails
        <5>2. Queued(t)' => Queued(t)
          <6>1. ~ Queued(u)
            BY <2>1 DEF WorkedOnOnce
          <6>2. CASE queue' = Append(queue, u)
            BY <4>2, <6>1, <6>2, QueueAppended
          <6>3. CASE queue' = queue
            BY <6>3, QueueSame
          <6> QED
            BY <1>3, <6>2, <6>3 DEF Enqueue, EnqueueFails
        <5>3. Execution(t) = IF submit[t] \in {"new", "inserted"} \/ Queued(t)
                               THEN "working" ELSE "over"
          BY <3>1 DEF Execution
        <5>4. Execution(t)' = IF submit'[t] \in {"new", "inserted"} \/ Queued(t)'
                                THEN "working" ELSE "over"
          BY <2>1, <3>1 DEF Execution
        <5> QED
          BY <2>3, <2>5, <5>1, <5>2, <5>3, <5>4
      <4> QED
        BY <4>1, <4>2
    <3> QED
      BY <1>1, <2>2, <3>2, <3>3, Ends
  <2> QED
    BY <2>4, <2>5
<1> QED
  BY <1>2, <1>3

LEMMA DequeueAllowed ==
  ASSUME Typed, WorkedOnOnce, NEW n \in Instances, Dequeue(n) \/ DequeueLost(n),
         NEW t \in Tasks
  PROVE  Allowed(t)
<1> USE DEF Typed, ControlTyped, rowVars, workerVars
<1>1. UNCHANGED <<Shown(t), TimedOut(t), Handlings(t)>> /\ published' = published
  BY RowSame, RequestsSame DEF Dequeue, DequeueLost
<1>2. /\ queue # <<>> /\ queue' = Tail(queue)
      /\ at[n] = "idle" /\ UNCHANGED submit
  BY DEF Dequeue, DequeueLost
<1>3. /\ Head(queue) \in Tasks /\ Queued(Head(queue))
      /\ Queued(t)' => Queued(t) /\ t # Head(queue)
  BY <1>2, QueuePopped
<1>4. Execution(t)' \in {Execution(t), "over"}
  <2>1. CASE t = Head(queue)
    <3>1. Execution(t) = "working"
      BY <1>3, <2>1 DEF Execution, WorkedOnOnce
    <3>2. CASE DequeueLost(n)
      <4>1. ~ \E m \in Instances : task'[m] = t
        BY <1>3, <2>1, <3>2 DEF DequeueLost, WorkedOnOnce
      <4> QED
        BY <3>1, <4>1 DEF Execution
    <3>3. CASE Dequeue(n)
      <4>1. task'[n] = t /\ \A m \in Instances : task'[m] = t => m = n
        BY <1>3, <2>1, <3>3 DEF Dequeue, WorkedOnOnce
      <4>2. (CHOOSE m \in Instances : task'[m] = t) = n
        BY <4>1, OnlyWorker
      <4>3. Execution(t)' = Stage(at'[n])
        BY <4>1, <4>2 DEF Execution
      <4>4. at'[n] = "popped"
        BY <3>3 DEF Dequeue
      <4> QED
        BY <3>1, <4>3, <4>4 DEF Stage, Sent
    <3> QED
      BY <3>2, <3>3
  <2>2. CASE t # Head(queue) /\ \E m \in Instances : task'[m] = t
    <3>1. PICK m \in Instances : task'[m] = t
      BY <2>2
    <3>2. task[m] = t /\ at'[m] = at[m]
      BY <2>2, <3>1 DEF Dequeue, DequeueLost
    <3>3. \A k \in Instances : task[k] = t => k = m
      BY <3>2 DEF WorkedOnOnce
    <3>4. \A k \in Instances : task'[k] = t => k = m
      BY <2>2, <3>3 DEF Dequeue, DequeueLost
    <3>5. Execution(t) = Stage(at[m])
      BY <3>2, <3>3, OnlyWorker DEF Execution
    <3>6. Execution(t)' = Stage(at'[m])
      BY <3>1, <3>4, OnlyWorker DEF Execution
    <3> QED
      BY <3>2, <3>5, <3>6
  <2>3. CASE t # Head(queue) /\ ~ \E m \in Instances : task'[m] = t
    <3>1. CASE ~ \E m \in Instances : task[m] = t
      BY <1>2, <1>3, <2>3, <3>1 DEF Execution
    <3>2. CASE \E m \in Instances : task[m] = t
      BY <1>2, <1>3, <2>3, <3>2 DEF Execution, WorkedOnOnce
    <3> QED
      BY <3>1, <3>2
  <2> QED
    BY <2>1, <2>2, <2>3
<1> QED
  BY <1>1, <1>4, Ends

\* A worker that writes the row of its task, or announces its verdict.
LEMMA WorkerSpeaks ==
  ASSUME Typed, WorkedOnOnce, NEW n \in Instances, NEW t \in Tasks,
         BeginPlanning(n) \/ BeginRunning(n) \/ DispatchAllFailed(n) \/
         StoreResult(n) \/ ReportCompleted(n) \/ ReportFailed(n) \/
         TimeoutSetError(n) \/ TimeoutReport(n)
  PROVE  Allowed(t)
<1> USE DEF Typed, ControlTyped
<1>1. /\ task[n] \in Tasks
      /\ UNCHANGED <<submit, queue, request>>
  BY DEF Work, BeginPlanning, BeginRunning, DispatchAllFailed, StoreResult,
     ReportCompleted, ReportFailed, TimeoutSetError, TimeoutReport, rowVars
<1>2. UNCHANGED Handlings(t)
  BY <1>1, RequestsSame
<1>3. CASE task[n] # t
  <2>1. \E from, to : Work(n, from, to)
    BY DEF BeginPlanning, BeginRunning, DispatchAllFailed, StoreResult,
       ReportCompleted, ReportFailed, TimeoutSetError, TimeoutReport
  <2>2. UNCHANGED Execution(t)
    BY <1>1, <1>3, <2>1, WorkSteps
  <2>3. row'[t] = row[t] /\ error'[t] = error[t] /\ published'[t] = published[t]
    BY <1>3 DEF BeginPlanning, BeginRunning, DispatchAllFailed, StoreResult,
       ReportCompleted, ReportFailed, TimeoutSetError, TimeoutReport, SetRow,
       SetError, Publish, PublishedTyped, rowVars
  <2> QED
    BY <1>2, <2>2, <2>3, Unseen DEF Shown, TimedOut
<1>4. CASE task[n] = t
  <2> USE <1>1, <1>2, <1>4
  <2>1. CASE BeginPlanning(n) \/ BeginRunning(n)
    <3>1. /\ \E from \in {"begin", "planning"}, to \in {"planning", "dispatch"} :
               Work(n, from, to)
          /\ row'[t] \notin Final /\ UNCHANGED <<error, published>>
      BY <2>1 DEF BeginPlanning, BeginRunning, SetRow, Final
    <3>2. Execution(t) = "working" /\ Execution(t)' = "working"
      BY <3>1, WorkSteps, Stages DEF Sent
    <3>3. Verdict(t)!Advance
      BY <3>1, <3>2 DEF Verdict!Advance, Shown, TimedOut
    <3> QED
      BY <3>1, <3>3, Quietly DEF Verdict!Quiet
  <2>2. CASE DispatchAllFailed(n)
    <3>1. /\ \E from \in {"dispatch", "batches"} : Work(n, from, "failing")
          /\ row'[t] = "failed" /\ error'[t] = "allFailed" /\ UNCHANGED published
      BY <2>2 DEF DispatchAllFailed, SetError, SetRow
    <3>2. Execution(t) = "working" /\ Execution(t)' = "failed"
      BY <3>1, WorkSteps, Stages DEF Sent
    <3>3. Verdict(t)!StoreVerdict("failed")
      BY <3>1, <3>2 DEF Verdict!StoreVerdict, Shown, TimedOut, Final
    <3> QED
      BY <3>1, <3>3, Quietly DEF Verdict!Quiet, Verdict!Final
  <2>3. CASE StoreResult(n)
    <3>1. /\ Work(n, "synthesizing", "stored")
          /\ row'[t] = "completed" /\ UNCHANGED <<error, published>>
      BY <2>3 DEF StoreResult, SetRow
    <3>2. Execution(t) = "working" /\ Execution(t)' = "completed"
      BY <3>1, WorkSteps, Stages DEF Sent
    <3>3. Verdict(t)!StoreVerdict("completed")
      BY <3>1, <3>2 DEF Verdict!StoreVerdict, Shown, TimedOut, Final
    <3> QED
      BY <3>1, <3>3, Quietly DEF Verdict!Quiet, Verdict!Final
  <2>4. CASE ReportCompleted(n)
    <3>1. /\ Work(n, "stored", "completedSent")
          /\ UNCHANGED rowVars /\ Publish(t, "task_completed")
      BY <2>4 DEF ReportCompleted
    <3>2. Execution(t) = "completed" /\ Execution(t)' = "sent"
      BY <3>1, WorkSteps, Stages DEF Sent
    <3>3. Verdict(t)!Report("task_completed")
      BY <3>1, <3>2, RowSame DEF Verdict!Report
    <3> QED
      BY <3>1, <3>3, Aloud DEF Verdict!Announces, Events
  <2>5. CASE ReportFailed(n)
    <3>1. /\ Work(n, "failing", "failedSent")
          /\ UNCHANGED rowVars /\ Publish(t, "task_failed")
      BY <2>5 DEF ReportFailed
    <3>2. Execution(t) = "failed" /\ Execution(t)' = "sent"
      BY <3>1, WorkSteps, Stages DEF Sent
    <3>3. Verdict(t)!Report("task_failed")
      BY <3>1, <3>2, RowSame DEF Verdict!Report
    <3> QED
      BY <3>1, <3>3, Aloud DEF Verdict!Announces, Events
  <2>6. CASE TimeoutSetError(n)
    <3>1. /\ Work(n, "timedOut", "timedOutSet")
          /\ row'[t] = "failed" /\ error'[t] = "timedOut" /\ UNCHANGED published
      BY <2>6 DEF TimeoutSetError, SetError, SetRow
    <3>2. Execution(t) = "expired" /\ Execution(t)' = "judged"
      BY <3>1, WorkSteps, Stages DEF Sent
    <3>3. Verdict(t)!StoreExpiry
      BY <3>1, <3>2 DEF Verdict!StoreExpiry, Shown, TimedOut, Final
    <3> QED
      BY <3>1, <3>3, Quietly DEF Verdict!Quiet
  <2>7. CASE TimeoutReport(n)
    <3>1. /\ Work(n, "timedOutSet", "returnErr")
          /\ row'[t] = "failed" /\ UNCHANGED error /\ Publish(t, "task_failed")
      BY <2>7 DEF TimeoutReport, SetRow
    <3>2. Execution(t) = "judged" /\ Execution(t)' = "over"
      BY <3>1, WorkSteps, Stages DEF Sent
    <3>3. Verdict(t)!ReportExpiry("task_failed")
      BY <3>1, <3>2 DEF Verdict!ReportExpiry, Shown, TimedOut, Final
    <3> QED
      BY <3>1, <3>3, Aloud DEF Verdict!Announces, Events
  <2> QED
    BY <2>1, <2>2, <2>3, <2>4, <2>5, <2>6, <2>7
<1> QED
  BY <1>3, <1>4

LEMMA WorkerAllowed ==
  ASSUME Typed, WorkedOnOnce, NEW n \in Instances, WorkerMove(n), NEW t \in Tasks
  PROVE  Allowed(t)
<1>1. CASE Dequeue(n) \/ DequeueLost(n)
  BY <1>1, DequeueAllowed
<1>2. CASE BeginPlanning(n) \/ BeginRunning(n) \/ DispatchAllFailed(n) \/
           StoreResult(n) \/ ReportCompleted(n) \/ ReportFailed(n) \/
           TimeoutSetError(n) \/ TimeoutReport(n)
  BY <1>2, WorkerSpeaks
<1>3. CASE InsertToken(n)
  <2>1. UNCHANGED <<Shown(t), TimedOut(t), Handlings(t)>> /\ published' = published
    BY <1>3, RowSame, RequestsSame DEF InsertToken, rowVars
  <2>2. UNCHANGED Execution(t)
    <3>1. Stage("popped") = Stage("begin")
      BY DEF Stage, Sent
    <3> QED
      BY <1>3, <3>1, WorkMoves DEF InsertToken
  <2> QED
    BY <2>1, <2>2, Unseen
<1>4. CASE StartBatches(n) \/ DispatchDone(n)
  <2>1. /\ \E from \in {"dispatch", "batches"}, to \in {"batches", "synthesizing"} :
             Work(n, from, to)
        /\ UNCHANGED <<rowVars, submit, queue, request, published>>
    BY <1>4 DEF StartBatches, DispatchDone
  <2> QED
    BY <2>1, MovesQuietly DEF Stage, Sent
<1>5. CASE DispatchCancelled(n) \/ Return(n) \/ InnerError(n)
  <2>1. /\ \E from, to : Work(n, from, to) /\ to \in {"returnOk", "returnErr"}
        /\ UNCHANGED <<rowVars, submit, queue, request, published>>
    BY <1>5 DEF DispatchCancelled, Return, InnerError
  <2>2. \A to \in {"returnOk", "returnErr"} : Stage(to) = "over"
    BY DEF Stage, Sent
  <2> QED
    BY <2>1, <2>2, MovesQuietly
<1>6. CASE TimerFires(n)
  <2>1. /\ \E from \in Working \cup Sent : Work(n, from, "timedOut")
        /\ UNCHANGED <<rowVars, submit, queue, request, published>>
    BY <1>6 DEF TimerFires
  <2>2. \A from \in Working \cup Sent : Stage(from) \in {"working", "sent"} \cup Final
    BY DEF Stage, Working, Sent, Final
  <2>3. Stage("timedOut") = "expired"
    BY DEF Stage, Sent
  <2> QED
    BY <2>1, <2>2, <2>3, MovesQuietly
<1>7. CASE RemoveToken(n) \/ Abandon(n)
  <2>1. BecomeIdle(n) /\ UNCHANGED <<rowVars, submit, queue, request, published>>
    BY <1>7 DEF RemoveToken, Abandon
  <2> QED
    BY <2>1, EndsQuietly
<1> QED
  BY <1>1, <1>2, <1>3, <1>4, <1>5, <1>6, <1>7 DEF WorkerMove

LEMMA CancelReadAllowed ==
  ASSUME Typed, NEW r \in Requests, NEW n \in Instances, NEW u \in Tasks,
         CancelRead(r, n, u), NEW t \in Tasks
  PROVE  Allowed(t)
<1>1. /\ UNCHANGED <<Shown(t), TimedOut(t), Execution(t)>> /\ published' = published
      /\ request[r].at = "idle" /\ row[u] \in Cancellable
  BY RowSame, WorkSame DEF CancelRead, rowVars, workerVars
<1>2. /\ request'[r].at = "read" /\ request'[r].task = u
      /\ \A q \in Requests : q # r => request'[q] = request[q]
  BY DEF CancelRead, Typed, RequestsTyped
<1>3. ASSUME NEW q \in Requests, q # r PROVE UNCHANGED Handling(q, t)
  BY <1>2, <1>3, Zenon DEF Handling
<1>4. /\ Handling(r, t) = "idle"
      /\ Handling(r, t)' = IF u = t THEN "read" ELSE "idle"
  BY <1>1, <1>2 DEF Handling, HandlerStage
<1>5. CASE u = t
  <2>1. Handlings(t)' = [Handlings(t) EXCEPT ![r] = "read"]
    BY <1>3, <1>4, <1>5 DEF Handlings
  <2>2. Handlings(t)[r] = "idle" /\ Shown(t) = "open"
    BY <1>1, <1>4, <1>5 DEF Handlings, Shown, Cancellable, Final
  <2>3. Verdict(t)!CancelRead(r)
    BY <1>1, <2>1, <2>2 DEF Verdict!CancelRead, Verdict!Handle
  <2> QED
    BY <1>1, <2>3, Quietly DEF Verdict!Quiet
<1>6. CASE u # t
  <2>1. UNCHANGED Handlings(t)
    BY <1>3, <1>4, <1>6 DEF Handlings
  <2> QED
    BY <1>1, <2>1, Unseen
<1> QED
  BY <1>5, <1>6

LEMMA HandlerAllowed ==
  ASSUME Typed, NEW r \in Requests,
         CancelSignal(r) \/ CancelSetError(r) \/ CancelMark(r) \/ CancelReport(r) \/
         CancelRemoveToken(r) \/ CancelError(r),
         NEW t \in Tasks
  PROVE  Allowed(t)
<1> USE DEF Typed
<1>1. PICK from \in RequestStates \ {"idle"}, to \in RequestStates \ {"idle"} :
        Proceed(r, from, to)
  BY DEF CancelSignal, CancelSetError, CancelMark, CancelReport, CancelRemoveToken,
     CancelError, RequestStates
<1>2. /\ request[r].task \in Tasks
      /\ request[r].task = t =>
           Handlings(t)' = [Handlings(t) EXCEPT ![r] = Handling(r, t)']
      /\ request[r].task # t => UNCHANGED Handlings(t)
  BY <1>1, RequestMoves
<1>3. UNCHANGED Execution(t)
  BY WorkSame DEF CancelSignal, CancelSetError, CancelMark, CancelReport,
     CancelRemoveToken, CancelError, workerVars
<1>4. CASE request[r].task # t
  <2>1. row'[t] = row[t] /\ error'[t] = error[t] /\ published'[t] = published[t]
    BY <1>2, <1>4 DEF CancelSignal, CancelSetError, CancelMark, CancelReport,
       CancelRemoveToken, CancelError, SetRow, SetError, Publish, ControlTyped,
       PublishedTyped, rowVars
  <2> QED
    BY <1>2, <1>3, <1>4, <2>1, Unseen DEF Shown, TimedOut
<1>5. CASE request[r].task = t
  <2>1. \A a \in RequestStates \ {"idle"}, b \in RequestStates \ {"idle"} :
          Proceed(r, a, b) => /\ Handlings(t)[r] = HandlerStage(a)
                              /\ Handling(r, t)' = HandlerStage(b)
    BY <1>2, <1>5, RequestTask DEF Proceed, Handlings, Handling, RequestsTyped
  <2>2. CASE CancelSetError(r)
    <3>1. /\ Proceed(r, "sentSignal", "errorSet") /\ UNCHANGED published
          /\ row'[t] = "failed" /\ error'[t] = "cancelled"
      BY <1>5, <2>2 DEF CancelSetError, SetError, SetRow, ControlTyped
    <3>2. Handlings(t)[r] = "read" /\ Handling(r, t)' = "set"
      BY <2>1, <3>1 DEF RequestStates, HandlerStage
    <3>3. Verdict(t)!CancelSetError(r)
      BY <1>2, <1>3, <1>5, <3>1, <3>2
      DEF Verdict!CancelSetError, Verdict!Handle, Shown, TimedOut, Final
    <3> QED
      BY <3>1, <3>3, Quietly DEF Verdict!Quiet
  <2>3. CASE CancelMark(r)
    <3>1. /\ Proceed(r, "errorSet", "marked") /\ UNCHANGED published
          /\ row'[t] = "failed" /\ error' = error
      BY <1>5, <2>3 DEF CancelMark, SetRow, ControlTyped
    <3>2. Handlings(t)[r] = "set" /\ Handling(r, t)' = "marked"
      BY <2>1, <3>1 DEF RequestStates, HandlerStage
    <3>3. Verdict(t)!CancelMark(r)
      BY <1>2, <1>3, <1>5, <3>1, <3>2
      DEF Verdict!CancelMark, Verdict!Handle, Shown, TimedOut, Final
    <3> QED
      BY <3>1, <3>3, Quietly DEF Verdict!Quiet
  <2>4. CASE CancelReport(r)
    <3>1. /\ Proceed(r, "marked", "reported") /\ UNCHANGED rowVars
          /\ Publish(t, "task_cancelled")
      BY <1>5, <2>4 DEF CancelReport
    <3>2. Handlings(t)[r] = "marked" /\ Handling(r, t)' = "done"
      BY <2>1, <3>1 DEF RequestStates, HandlerStage
    <3>3. Verdict(t)!CancelReport(r, "task_cancelled")
      BY <1>2, <1>3, <1>5, <3>1, <3>2, RowSame
      DEF Verdict!CancelReport, Verdict!Handle
    <3> QED
      BY <3>1, <3>3, Aloud DEF Verdict!Announces, Events
  <2>5. CASE CancelSignal(r) \/ CancelRemoveToken(r)
    <3>1. /\ Proceed(r, "read", "sentSignal") \/ Proceed(r, "reported", "done")
          /\ UNCHANGED <<row, error, published>>
      BY <2>5 DEF CancelSignal, CancelRemoveToken, rowVars
    <3>2. Handlings(t)[r] = Handling(r, t)'
      BY <2>1, <3>1 DEF RequestStates, HandlerStage
    <3>3. UNCHANGED Handlings(t)
      BY <1>2, <1>5, <3>2 DEF Handlings
    <3> QED
      BY <1>3, <3>1, <3>3, RowSame, Unseen DEF rowVars
  <2>6. CASE CancelError(r)
    <3>1. /\ \E a \in {"sentSignal", "errorSet"} : Proceed(r, a, "aborted")
          /\ UNCHANGED <<row, error, published>>
      BY <2>6 DEF CancelError, rowVars
    <3>2. Handlings(t)[r] \in {"read", "set"} /\ Handling(r, t)' = "lost"
      BY <2>1, <3>1 DEF RequestStates, HandlerStage
    <3>3. Handlings(t)' = [q \in Requests |->
                             IF q \in {r} THEN "lost" ELSE Handlings(t)[q]]
      BY <1>2, <1>5, <3>2 DEF Handlings
    <3>4. {r} \in SUBSET {q \in Requests : Handlings(t)[q] # "idle"}
      BY <3>2
    <3> QED
      BY <1>3, <3>1, <3>3, <3>4, RowSame, Drops DEF rowVars
  <2> QED
    BY <2>2, <2>3, <2>4, <2>5, <2>6
<1> QED
  BY <1>4, <1>5

\* The handlers of the instance are lost with it.
LEMMA CrashAllowed ==
  ASSUME Typed, WorkedOnOnce, NEW n \in Instances, Crash(n), NEW t \in Tasks
  PROVE  Allowed(t)
<1> DEFINE lost == {q \in Requests : /\ request[q].at \in InHandler
                                     /\ request[q].on = n /\ request[q].task = t}
<1>1. /\ UNCHANGED <<Shown(t), TimedOut(t)>> /\ published' = published
      /\ BecomeIdle(n) /\ UNCHANGED <<submit, queue>>
  BY RowSame DEF Crash
<1>2. Execution(t)' \in {Execution(t), "over"}
  BY <1>1, WorkEnds
<1>3. ASSUME NEW q \in Requests
      PROVE  Handling(q, t)' = IF q \in lost THEN "lost" ELSE Handling(q, t)
  <2>1. CASE request[q].at \in InHandler /\ request[q].on = n
    <3>1. request[q].at # "idle"
      BY <2>1 DEF InHandler
    <3>2. request[q] \in [at : RequestStates, task : Tasks, on : Instances,
                          saw : Cancellable]
      BY <3>1, RequestTask DEF Typed
    <3>3. request'[q].at = "aborted" /\ request'[q].task = request[q].task
      BY <2>1, <3>2 DEF Crash
    <3> QED
      BY <2>1, <3>1, <3>3 DEF Handling, HandlerStage
  <2>2. CASE ~ (request[q].at \in InHandler /\ request[q].on = n)
    <3>1. request'[q] = request[q] /\ q \notin lost
      BY <2>2 DEF Crash
    <3>2. UNCHANGED Handling(q, t)
      BY <3>1, Zenon DEF Handling
    <3> QED
      BY <3>1, <3>2
  <2> QED
    BY <2>1, <2>2
<1>4. lost \in SUBSET {q \in Requests : Handlings(t)[q] # "idle"}
  BY DEF Handlings, Handling, HandlerStage, InHandler
<1> HIDE DEF lost
<1>5. Handlings(t)' = [q \in Requests |->
                         IF q \in lost THEN "lost" ELSE Handlings(t)[q]]
  BY <1>3 DEF Handlings
<1> QED
  BY <1>1, <1>2, <1>4, <1>5, Drops

LEMMA StepAllowed ==
  ASSUME IInv, [Next]_vars, NEW t \in Tasks
  PROVE  Allowed(t)
<1>1. Typed /\ WorkedOnOnce /\ Verdicts
  BY Parts
<1>2. CASE UNCHANGED vars
  BY <1>2, RowSame, WorkSame, RequestsSame, Unseen DEF vars, rowVars
<1> QED
  BY <1>1, <1>2, SubmitAllowed, WorkerAllowed, CancelReadAllowed, HandlerAllowed,
     CrashAllowed
  DEF Next, RequestMove

LEMMA InitAllowed ==
  ASSUME Init, NEW t \in Tasks
  PROVE  Verdict(t)!Init
<1>1. Shown(t) = "open" /\ TimedOut(t) = FALSE
  BY DEF Init, Shown, TimedOut, Final
<1>2. Execution(t) = "working"
  BY NoTaskAssumption DEF Init, Execution
<1>3. Handlings(t) = [r \in Requests |-> "idle"]
  BY DEF Init, Handlings, Handling
<1> QED
  BY <1>1, <1>2, <1>3 DEF Verdict!Init

-----------------------------------------------------------------------------

\* Whatever instances, queue and requests do, those who watch a task see what
\* TaskVerdict allows, and an event only with the step that may announce it.
THEOREM Implements == Spec => ImplementsTaskVerdict
<1>1. Init => \A t \in Tasks : Verdict(t)!Init
  BY InitAllowed
<1>2. IInv /\ [Next]_vars =>
        [\A t \in Tasks :
           /\ [Verdict(t)!Next]_(Verdict(t)!vars)
           /\ published'[t] # published[t] =>
                \E e \in Verdict(t)!Terminal :
                  /\ Verdict(t)!Announces(e)
                  /\ published'[t] = Append(published[t], e)]_vars
  BY StepAllowed DEF Allowed
<1> QED
  BY <1>1, <1>2, InvariantHolds, PTL DEF Spec, ImplementsTaskVerdict

\* TaskLifecycle implements TaskVerdict, task by task.
THEOREM ImplementsEachVerdict == Spec => \A t \in Tasks : Verdict(t)!Spec
<1>1. ASSUME NEW t \in Tasks PROVE Spec => Verdict(t)!Spec
  <2>1. Init => Verdict(t)!Init
    BY InitAllowed
  <2>2. IInv /\ [Next]_vars => [Verdict(t)!Next]_(Verdict(t)!vars)
    BY StepAllowed DEF Allowed
  <2> QED
    BY <2>1, <2>2, InvariantHolds, PTL DEF Spec, Verdict!Spec
<1> QED
  BY <1>1

=============================================================================
