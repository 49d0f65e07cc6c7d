---------------------------- MODULE TaskLifecycle ----------------------------
(***************************************************************************)
(* The life of tasks across the instances of the backend: submission       *)
(* (api.rs, create_task), the Redis queue, the worker of each instance     *)
(* (Orchestrator::run_worker, execute_task and, phase by phase,            *)
(* execute_task_inner), the cancel handler (Orchestrator::cancel_task),    *)
(* the 30 minute timer and the row of the task in PostgreSQL.  The queue   *)
(* and the rows are shared; a cancellation token belongs to one instance.  *)
(* The dispatch loop is one phase here, with the outcomes that the module  *)
(* StepDispatch shows it has.                                              *)
(***************************************************************************)
EXTENDS Naturals, Sequences, FiniteSets

CONSTANTS
  Tasks,      \* the tasks users submit
  Instances,  \* backend processes, one worker each
  Requests,   \* POST /api/tasks/{id}/cancel requests, each made at most once
  NoTask,     \* what an idle worker works on
  Faults      \* the failures of the environment that are in scope

FaultKinds == {"database",  \* a statement fails
               "redis",     \* a queue command or PUBLISH fails, or its reply is lost
               "llm",       \* planning or synthesis returns an error
               "panic",     \* execute_task panics, the worker is restarted
               "crash"}     \* an instance dies and is started again

ASSUME NoTaskAssumption == NoTask \notin Tasks
ASSUME TaskFaultsAssumption == Faults \subseteq FaultKinds

VARIABLES
  row,        \* tasks.status, "none" before the INSERT
  error,      \* tasks.error
  submit,     \* where create_task is with the task
  queue,      \* the Redis list
  at,         \* where the worker of each instance is
  task,       \* the task it works on
  signalled,  \* is the token it works under cancelled?
  tokens,     \* keys of cancellation_tokens of each instance
  request,    \* where each cancel request is, its task and instance
  published   \* the terminal events published for each task, in order

vars == <<row, error, submit, queue, at, task, signalled, tokens, request,
          published>>

rowVars == <<row, error>>
workerVars == <<at, task, signalled>>

Final == {"completed", "failed"}
Cancellable == {"pending", "planning", "running"}

\* In execute_task_inner, with more to do.
Working == {"begin", "planning", "dispatch", "batches", "failing",
            "synthesizing", "stored"}

\* Its terminal event sent, in the PUBLISH or returning from it.
Sent == {"failedSent", "completedSent"}

WorkerStates == Working \cup Sent \cup
                {"idle", "popped", "timedOut", "timedOutSet", "returnOk",
                 "returnErr"}

RequestStates == {"idle", "read", "sentSignal", "errorSet", "marked",
                  "reported", "done", "aborted"}

InHandler == RequestStates \ {"idle", "done", "aborted"}

\* The instance's worker is in execute_task for t, its token created.
Executes(n, t) == task[n] = t /\ at[n] \notin {"idle", "popped"}

Queued(t) == \E k \in DOMAIN queue : queue[k] = t

-----------------------------------------------------------------------------

Init ==
  /\ row = [t \in Tasks |-> "none"]
  /\ error = [t \in Tasks |-> "none"]
  /\ submit = [t \in Tasks |-> "new"]
  /\ queue = <<>>
  /\ at = [n \in Instances |-> "idle"]
  /\ task = [n \in Instances |-> NoTask]
  /\ signalled = [n \in Instances |-> FALSE]
  /\ tokens = [n \in Instances |-> {}]
  /\ request = [r \in Requests |-> [at |-> "idle"]]
  /\ published = [t \in Tasks |-> <<>>]

SetRow(t, status) == row' = [row EXCEPT ![t] = status]

\* set_task_error: both columns.
SetError(t, why) == /\ SetRow(t, "failed")
                    /\ error' = [error EXCEPT ![t] = why]

\* emit: an error is only logged, and the event lost.
Publish(t, event) ==
  \/ published' = [published EXCEPT ![t] = Append(@, event)]
  \/ "redis" \in Faults /\ UNCHANGED published

-----------------------------------------------------------------------------
(* create_task: INSERT, then RPUSH.                                        *)

Insert(t) ==
  /\ submit[t] = "new"
  /\ submit' = [submit EXCEPT ![t] = "inserted"]
  /\ SetRow(t, "pending")
  /\ UNCHANGED <<error, queue, workerVars, tokens, request, published>>

\* Mutant: the push is repeated.
Enqueue_twice(t) ==
  /\ submit[t] = "inserted"
  /\ submit' = [submit EXCEPT ![t] = "accepted"]
  /\ queue' = queue \o <<t, t>>
  /\ UNCHANGED <<rowVars, workerVars, tokens, request, published>>

Enqueue(t) ==
  /\ submit[t] = "inserted"
  /\ submit' = [submit EXCEPT ![t] = "accepted"]
  /\ queue' = Append(queue, t)
  /\ UNCHANGED <<rowVars, workerVars, tokens, request, published>>

\* The caller gets an error, or the instance dies first: the row stays.  If
\* it was the reply that was lost, the task is in the queue as well.
EnqueueFails(t) ==
  /\ Faults \cap {"redis", "crash"} # {}
  /\ submit[t] = "inserted"
  /\ submit' = [submit EXCEPT ![t] = "refused"]
  /\ queue' \in {queue, Append(queue, t)}
  /\ UNCHANGED <<rowVars, workerVars, tokens, request, published>>

-----------------------------------------------------------------------------
(* The worker of instance n.                                               *)

Work(n, from, to) ==
  /\ at[n] = from
  /\ at' = [at EXCEPT ![n] = to]
  /\ UNCHANGED <<task, signalled>>

\* Mutant: the element is read and left in the list.
Dequeue_peek(n) ==
  /\ at[n] = "idle" /\ queue # <<>>
  /\ at' = [at EXCEPT ![n] = "popped"]
  /\ task' = [task EXCEPT ![n] = Head(queue)]
  /\ UNCHANGED <<rowVars, submit, queue, signalled, tokens, request, published>>

\* BLPOP.
Dequeue(n) ==
  /\ at[n] = "idle" /\ queue # <<>>
  /\ queue' = Tail(queue)
  /\ at' = [at EXCEPT ![n] = "popped"]
  /\ task' = [task EXCEPT ![n] = Head(queue)]
  /\ UNCHANGED <<rowVars, submit, signalled, tokens, request, published>>

\* The reply of BLPOP is lost: dequeue_task returns Ok(None).
DequeueLost(n) ==
  /\ "redis" \in Faults
  /\ at[n] = "idle" /\ queue # <<>>
  /\ queue' = Tail(queue)
  /\ UNCHANGED <<rowVars, submit, workerVars, tokens, request, published>>

\* Mutant: the token is not registered.
InsertToken_private(n) ==
  /\ at[n] = "popped"
  /\ at' = [at EXCEPT ![n] = "begin"]
  /\ signalled' = [signalled EXCEPT ![n] = FALSE]
  /\ UNCHANGED <<rowVars, submit, queue, task, tokens, request, published>>

\* execute_task: a new token, whatever the row says.
InsertToken(n) ==
  /\ at[n] = "popped"
  /\ at' = [at EXCEPT ![n] = "begin"]
  /\ signalled' = [signalled EXCEPT ![n] = FALSE]
  /\ tokens' = [tokens EXCEPT ![n] = @ \cup {task[n]}]
  /\ UNCHANGED <<rowVars, submit, queue, task, request, published>>

\* The status of the row read by get_task is not looked at.
BeginPlanning(n) ==
  /\ Work(n, "begin", "planning")
  /\ SetRow(task[n], "planning")
  /\ UNCHANGED <<error, submit, queue, tokens, request, published>>

\* create_plan, the plan and its step rows stored.
BeginRunning(n) ==
  /\ Work(n, "planning", "dispatch")
  /\ SetRow(task[n], "running")
  /\ UNCHANGED <<error, submit, queue, tokens, request, published>>

\* The head of the dispatch loop, for the first time.
StartBatches(n) ==
  /\ ~signalled[n]
  /\ Work(n, "dispatch", "batches")
  /\ UNCHANGED <<rowVars, submit, queue, tokens, request, published>>

\* The dispatch loop saw the token cancelled at its head: Ok, no write.
DispatchCancelled(n) ==
  /\ signalled[n]
  /\ \E from \in {"dispatch", "batches"} : Work(n, from, "returnOk")
  /\ UNCHANGED <<rowVars, submit, queue, tokens, request, published>>

\* Mutant: the error is not stored.
DispatchAllFailed_silent(n) ==
  /\ \E from \in {"dispatch", "batches"} : Work(n, from, "failing")
  /\ UNCHANGED <<rowVars, submit, queue, tokens, request, published>>

\* It ended without a completed step, the plan being empty or no step able to
\* run at the first head, or every step failed.
DispatchAllFailed(n) ==
  /\ \E from \in {"dispatch", "batches"} : Work(n, from, "failing")
  /\ SetError(task[n], "allFailed")
  /\ UNCHANGED <<submit, queue, tokens, request, published>>

\* It ended with one at least; a token cancelled meanwhile is not looked at.
DispatchDone(n) ==
  /\ Work(n, "batches", "synthesizing")
  /\ UNCHANGED <<rowVars, submit, queue, tokens, request, published>>

\* Mutant: the error of set_task_result is dropped.
StoreResult_unchecked(n) ==
  /\ Work(n, "synthesizing", "stored")
  /\ SetRow(task[n], "completed") \/ ("database" \in Faults /\ UNCHANGED row)
  /\ UNCHANGED <<error, submit, queue, tokens, request, published>>

\* set_task_result, whatever the row says.
StoreResult(n) ==
  /\ Work(n, "synthesizing", "stored")
  /\ SetRow(task[n], "completed")
  /\ UNCHANGED <<error, submit, queue, tokens, request, published>>

\* extract_learnings has run; its errors are dropped.
ReportCompleted(n) ==
  /\ Work(n, "stored", "completedSent")
  /\ Publish(task[n], "task_completed")
  /\ UNCHANGED <<rowVars, submit, queue, tokens, request>>

ReportFailed(n) ==
  /\ Work(n, "failing", "failedSent")
  /\ Publish(task[n], "task_failed")
  /\ UNCHANGED <<rowVars, submit, queue, tokens, request>>

Return(n) ==
  /\ \/ Work(n, "completedSent", "returnOk")
     \/ Work(n, "failedSent", "returnErr")
  /\ UNCHANGED <<rowVars, submit, queue, tokens, request, published>>

\* A `?` of execute_task_inner: planning and synthesis call the LLM, all
\* these phases the database, "batches" when all steps have failed and the
\* error cannot be stored.  Nothing is written and nothing published.
InnerError(n) ==
  /\ \E from \in {"begin", "planning", "dispatch", "batches", "synthesizing"} :
       /\ \/ "database" \in Faults
          \/ "llm" \in Faults /\ from \in {"planning", "synthesizing"}
       /\ Work(n, from, "returnErr")
  /\ UNCHANGED <<rowVars, submit, queue, tokens, request, published>>

\* 30 minutes have passed: execute_task_inner is dropped where it is.
TimerFires(n) ==
  /\ \E from \in Working \cup Sent : Work(n, from, "timedOut")
  /\ UNCHANGED <<rowVars, submit, queue, tokens, request, published>>

TimeoutSetError(n) ==
  /\ Work(n, "timedOut", "timedOutSet")
  /\ SetError(task[n], "timedOut")
  /\ UNCHANGED <<submit, queue, tokens, request, published>>

TimeoutReport(n) ==
  /\ Work(n, "timedOutSet", "returnErr")
  /\ SetRow(task[n], "failed")
  /\ Publish(task[n], "task_failed")
  /\ UNCHANGED <<error, submit, queue, tokens, request>>

BecomeIdle(n) ==
  /\ at' = [at EXCEPT ![n] = "idle"]
  /\ task' = [task EXCEPT ![n] = NoTask]
  /\ signalled' = [signalled EXCEPT ![n] = FALSE]

\* Mutant: the token stays behind.
RemoveToken_forgotten(n) ==
  /\ at[n] \in {"returnOk", "returnErr"}
  /\ BecomeIdle(n)
  /\ UNCHANGED <<rowVars, submit, queue, tokens, request, published>>

\* The end of execute_task; an error is logged by run_worker, no more.
RemoveToken(n) ==
  /\ at[n] \in {"returnOk", "returnErr"}
  /\ BecomeIdle(n)
  /\ tokens' = [tokens EXCEPT ![n] = @ \ {task[n]}]
  /\ UNCHANGED <<rowVars, submit, queue, request, published>>

\* Mutant: nobody restarts a worker that panicked.
Abandon_unsupervised(n) ==
  /\ "panic" \in Faults /\ at[n] \in Working
  /\ at' = [at EXCEPT ![n] = "dead"]
  /\ UNCHANGED <<rowVars, submit, queue, task, signalled, tokens, request,
                 published>>

\* A `?` in the timeout branch of execute_task, or a panic that ends the
\* worker (main.rs starts another): either skips the removal of the token.
Abandon(n) ==
  /\ \/ "database" \in Faults /\ at[n] \in {"timedOut", "timedOutSet"}
     \/ "panic" \in Faults /\ at[n] \in Working
  /\ BecomeIdle(n)
  /\ UNCHANGED <<rowVars, submit, queue, tokens, request, published>>

WorkerMove(n) ==
  \/ Dequeue(n) \/ DequeueLost(n) \/ InsertToken(n)
  \/ BeginPlanning(n) \/ BeginRunning(n)
  \/ StartBatches(n) \/ DispatchCancelled(n)
  \/ DispatchAllFailed(n) \/ DispatchDone(n)
  \/ StoreResult(n) \/ ReportCompleted(n) \/ ReportFailed(n) \/ Return(n)
  \/ InnerError(n)
  \/ TimerFires(n) \/ TimeoutSetError(n) \/ TimeoutReport(n)
  \/ RemoveToken(n) \/ Abandon(n)

-----------------------------------------------------------------------------
(* cancel_task, for request r: one action per await.                       *)

\* get_task on instance n; a final status is refused (400, not modelled).
CancelRead(r, n, t) ==
  /\ request[r].at = "idle"
  /\ row[t] \in Cancellable
  /\ request' = [request EXCEPT ![r] =
                   [at |-> "read", task |-> t, on |-> n, saw |-> row[t]]]
  /\ UNCHANGED <<rowVars, submit, queue, workerVars, tokens, published>>

Proceed(r, from, to) ==
  /\ request[r].at = from
  /\ request' = [request EXCEPT ![r].at = to]

\* The token under the task's key, if this instance has one, is cancelled.
CancelSignal(r) ==
  /\ Proceed(r, "read", "sentSignal")
  /\ LET n == request[r].on
         t == request[r].task
     IN  signalled' = [signalled EXCEPT ![n] =
                         @ \/ (t \in tokens[n] /\ Executes(n, t))]
  /\ UNCHANGED <<rowVars, submit, queue, at, task, tokens, published>>

CancelSetError(r) ==
  /\ Proceed(r, "sentSignal", "errorSet")
  /\ SetError(request[r].task, "cancelled")
  /\ UNCHANGED <<submit, queue, workerVars, tokens, published>>

\* Mutant: a status the column does not have.
CancelMark_cancelled(r) ==
  /\ Proceed(r, "errorSet", "marked")
  /\ SetRow(request[r].task, "cancelled")
  /\ UNCHANGED <<error, submit, queue, workerVars, tokens, published>>

CancelMark(r) ==
  /\ Proceed(r, "errorSet", "marked")
  /\ SetRow(request[r].task, "failed")
  /\ UNCHANGED <<error, submit, queue, workerVars, tokens, published>>

CancelReport(r) ==
  /\ Proceed(r, "marked", "reported")
  /\ Publish(request[r].task, "task_cancelled")
  /\ UNCHANGED <<rowVars, submit, queue, workerVars, tokens>>

\* The key goes, even if it is now that of a token created since the signal.
CancelRemoveToken(r) ==
  /\ Proceed(r, "reported", "done")
  /\ tokens' = [tokens EXCEPT ![request[r].on] = @ \ {request[r].task}]
  /\ UNCHANGED <<rowVars, submit, queue, workerVars, published>>

CancelError(r) ==
  /\ "database" \in Faults
  /\ \E from \in {"sentSignal", "errorSet"} : Proceed(r, from, "aborted")
  /\ UNCHANGED <<rowVars, submit, queue, workerVars, tokens, published>>

RequestMove(r) ==
  \/ \E n \in Instances, t \in Tasks : CancelRead(r, n, t)
  \/ CancelSignal(r) \/ CancelSetError(r) \/ CancelMark(r)
  \/ CancelReport(r) \/ CancelRemoveToken(r) \/ CancelError(r)

-----------------------------------------------------------------------------

\* The instance restarts: its memory is gone, with its handlers.
Crash(n) ==
  /\ "crash" \in Faults
  /\ BecomeIdle(n)
  /\ tokens' = [tokens EXCEPT ![n] = {}]
  /\ request' = [r \in Requests |->
                   IF request[r].at \in InHandler /\ request[r].on = n
                     THEN [request[r] EXCEPT !.at = "aborted"] ELSE request[r]]
  /\ UNCHANGED <<rowVars, submit, queue, published>>

Next ==
  \/ \E t \in Tasks : Insert(t) \/ Enqueue(t) \/ EnqueueFails(t)
  \/ \E n \in Instances : WorkerMove(n) \/ Crash(n)
  \/ \E r \in Requests : RequestMove(r)

Spec == Init /\ [][Next]_vars

-----------------------------------------------------------------------------
(* Fairness: an instance that has work goes on with it.  Every phase of a  *)
(* task is left, at the latest when the 30 minute timer drops it; handlers *)
(* run to their end.  Users need not submit or cancel anything, and no     *)
(* fault need occur.                                                       *)

Fairness ==
  /\ \A t \in Tasks : WF_vars(Enqueue(t))
  /\ \A n \in Instances : WF_vars(WorkerMove(n))
  /\ \A r \in Requests : WF_vars(request[r].at \in InHandler /\ RequestMove(r))

FairSpec == Spec /\ Fairness

-----------------------------------------------------------------------------
(* Properties.                                                             *)

TypeOK ==
  /\ row \in [Tasks -> {"none"} \cup Cancellable \cup Final]
  /\ error \in [Tasks -> {"none", "allFailed", "timedOut", "cancelled"}]
  /\ submit \in [Tasks -> {"new", "inserted", "accepted", "refused"}]
  /\ queue \in Seq(Tasks)
  /\ at \in [Instances -> WorkerStates]
  /\ task \in [Instances -> Tasks \cup {NoTask}]
  /\ signalled \in [Instances -> BOOLEAN]
  /\ tokens \in [Instances -> SUBSET Tasks]
  /\ request \in
       [Requests -> {[at |-> "idle"]} \cup
                    [at : RequestStates, task : Tasks, on : Instances,
                     saw : Cancellable]]
  /\ published \in
       [Tasks -> Seq({"task_completed", "task_failed", "task_cancelled"})]

\* A cancel request has been made for the task.
CancelAsked(t) == \E r \in Requests : request[r].at # "idle" /\ request[r].task = t

\* Redis FIFO queue, several instances: a task is in the queue once, or with
\* one worker, or with none, and not before create_task has pushed it.
WorkedOnOnce ==
  \A t \in Tasks :
    /\ \A j, k \in DOMAIN queue : queue[j] = t /\ queue[k] = t => j = k
    /\ \A m, n \in Instances : task[m] = t /\ task[n] = t => m = n
    /\ Queued(t) => \A n \in Instances : task[n] # t
    /\ Queued(t) \/ (\E n \in Instances : task[n] = t)
         => submit[t] \in {"accepted", "refused"}

\* The row of a task that has a verdict changes only by a cancellation or by
\* the timer: no second execution, no other handler touches it.
FinalRowKept ==
  [][\A t \in Tasks : row[t] \in Final /\ row'[t] # row[t] =>
       CancelAsked(t) \/ error'[t] = "timedOut"]_vars

Announced(t, event) == \E k \in DOMAIN published[t] : published[t][k] = event

\* A verdict is announced after it was stored: subscribers who refetch on
\* task_completed find the result, unless the timer or a cancellation has
\* overtaken it, and on task_failed they find the task failed.
VerdictWasStored ==
  \A t \in Tasks :
    /\ Announced(t, "task_completed") =>
         row[t] = "completed" \/ error[t] = "timedOut" \/ CancelAsked(t)
    /\ Announced(t, "task_failed") => row[t] = "failed"

\* Two verdicts are announced for a task only if a cancellation or the timer
\* raced with the end of its execution.
SecondVerdictIsARace ==
  \A t \in Tasks : Len(published[t]) > 1 => error[t] = "timedOut" \/ CancelAsked(t)

\* Where the execution of task t is: not begun counts as working.
Stage(place) ==
  CASE place = "stored" -> "completed"
    [] place = "failing" -> "failed"
    [] place \in Sent -> "sent"
    [] place = "timedOut" -> "expired"
    [] place = "timedOutSet" -> "judged"
    [] place \in {"returnOk", "returnErr"} -> "over"
    [] OTHER -> "working"

Execution(t) ==
  IF \E n \in Instances : task[n] = t
    THEN Stage(at[CHOOSE n \in Instances : task[n] = t])
    ELSE IF submit[t] \in {"new", "inserted"} \/ Queued(t) THEN "working" ELSE "over"

\* Where request r is, for task t.
HandlerStage(place) ==
  CASE place \in {"read", "sentSignal"} -> "read"
    [] place = "errorSet" -> "set"
    [] place = "marked" -> "marked"
    [] place \in {"reported", "done"} -> "done"
    [] OTHER -> "lost"

Handling(r, t) ==
  IF request[r].at # "idle" /\ request[r].task = t
    THEN HandlerStage(request[r].at) ELSE "idle"

\* What those who watch task t can tell of its row, its execution and the
\* requests for it.
Shown(t) == IF row[t] \in Final THEN row[t] ELSE "open"
TimedOut(t) == error[t] = "timedOut"
Handlings(t) == [r \in Requests |-> Handling(r, t)]

Verdict(t) == INSTANCE TaskVerdict WITH
                row <- Shown(t), timedOut <- TimedOut(t),
                execution <- Execution(t), cancel <- Handlings(t)

\* Two instances, a shared queue and any number of requests are, to those who
\* watch one task, one execution with at most one verdict, and an event is
\* published only with the step that TaskVerdict allows for it.
ImplementsTaskVerdict ==
  /\ \A t \in Tasks : Verdict(t)!Init
  /\ [][\A t \in Tasks :
          /\ [Verdict(t)!Next]_(Verdict(t)!vars)
          /\ published'[t] # published[t] =>
               \E e \in Verdict(t)!Terminal :
                 /\ Verdict(t)!Announces(e)
                 /\ published'[t] = Append(published[t], e)]_vars

\* A key of cancellation_tokens is that of the task under execution, so that
\* the map does not grow and no cancel request meets a stale token.  It holds
\* as long as no panic and no failing statement skips the removal.
TokenIsOfTheExecution ==
  \A n \in Instances : \A t \in tokens[n] : Executes(n, t)

\* Without failures, a task with no verdict yet is still being carried, by
\* create_task, the queue or a worker; only a cancelled one can be left with
\* a status that says otherwise.
NoneStranded ==
  \A t \in Tasks : row[t] \in Cancellable =>
    \/ CancelAsked(t)
    \/ submit[t] = "inserted"
    \/ Queued(t)
    \/ \E n \in Instances : task[n] = t /\ at[n] \notin {"returnOk", "returnErr"}

\* A request that found task t still pending has removed its token from
\* instance n, which may have been created since.
TokenTaken(n, t) ==
  \E q \in Requests :
    request[q] = [at |-> "done", task |-> t, on |-> n, saw |-> "pending"]

\* If a cancel request found the task planning or running, and is handled by
\* the instance that executes it, then the execution has been signalled: the
\* token is registered before the row says so and kept for as long.  Of all
\* other requests for the task only one can take the token away unsignalled:
\* one that read the row before the execution wrote it, and is done by now.
SignalReachesExecution ==
  \A r \in Requests :
    request[r].at \in (InHandler \ {"read"}) \cup {"done"} =>
      LET n == request[r].on
          t == request[r].task
      IN  \/ request[r].saw = "pending"
          \/ ~ Executes(n, t)
          \/ signalled[n]
          \/ TokenTaken(n, t)

\* Every task in the queue is taken from it, whatever becomes of the tasks
\* before it: errors, panics, timeouts and crashes do not stop the workers.
QueueDrains == \A t \in Tasks : Queued(t) ~> ~ Queued(t)

\* Without failures, every accepted task gets a verdict, stored for good and
\* announced, or was cancelled.
EveryTaskEnds ==
  \A t \in Tasks : submit[t] = "accepted" ~>
    [](/\ row[t] \in Final \/ CancelAsked(t)
       /\ published[t] # <<>>)

\* "Cancel a running task", to which the API answers {"status": "cancelled"}:
\* once the request is done, the task is failed and stays so.
CancelSticks ==
  \A r \in Requests :
    request[r].at = "done" => row[request[r].task] = "failed"

=============================================================================
