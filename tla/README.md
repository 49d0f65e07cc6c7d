# Hanuman, specified

TLA+ specifications of this repository's backend and of the page that shows a
task: the orchestrator that plans, executes and judges a user's task, the workers
and the queue it runs on, the pool of sandbox containers, the agent loop with its
LLM client, the events of a task on their way to the page, and what belongs to a
user: sessions and memories. TLC checks them on small instances; TLAPS proves
every safety property that a run shows to hold, for every value of the
constants. Paths below are relative to the repository.

## 1. Inventory

| Component | Source (`backend/src/`) | State | Operations |
|---|---|---|---|
| Dispatch loop and steps | `orchestrator.rs` `execute_task_inner` (184-300), `execute_single_step` | `completed`, `failed`, the JoinSet, each step's attempt, `task_steps.status`, `step_*` events | find ready steps, spawn a batch, join, block, judge; acquire, run, retry, store, release |
| Task lifecycle | `orchestrator.rs` `run_worker`, `execute_task`, `cancel_task`; `api.rs`; `redis_client.rs`; `main.rs` | `tasks.status/error/result`, the Redis list, `cancellation_tokens` of each instance, the worker | submit, pop, plan, run, synthesize, store, report, cancel, time out, restart |
| Sandbox pool | `sandbox.rs` | the `VecDeque` of ids behind a lock, containers in Docker | acquire, exec, release, destroy, warm, replenish |
| Agent runtime | `agent_runtime.rs`, `tools/*` | conversation, turns, traces, delegation depth | think, act, observe, delegate, forced summary |
| LLM client | `llm.rs` | attempt counter | send, back off, give up |
| Event stream | `redis_client.rs` 59-121, `ws.rs` | Redis Pub/Sub, a subscription and a channel for each socket | publish, subscribe, relay, forward, end |
| Task page | `frontend/src/app/tasks/[id]/page.tsx` | status, sockets, reconnect timer, what it knows of the verdict | fetch, connect, reconnect, cancel, leave |
| User memory | `db.rs` 227-316, `orchestrator.rs` 696-748 | `user_memory` rows | upsert, prune, load, delete |
| Authentication | `auth.rs` | OAuth states, sessions, refresh tokens, the cookie | login, exchange, validate, logout, dev-seed |
| Static parts | `agents/`, `soul.rs`, `config.rs`, `models.rs`, `error.rs`, migrations, other pages | none of their own | |

How they interact. A browser signs in with KOOMPI and holds a session.
`POST /api/tasks` inserts a row for the session's user and pushes its id on a
Redis list. One worker per backend process pops ids and executes one task at a
time; it reads the user's memories, plans, and runs one future per ready step in a
JoinSet, each with a container of its own from the pool, in which the agent
runtime lets the LLM call tools; at the end it stores what is worth remembering.
Steps and dispatcher write rows and publish events, which a WebSocket handler
forwards to the page. `POST .../cancel` is handled by whatever process gets it: it
signals the token, if that process holds one, and writes the row. A 30 minute
timer drops the whole execution, its futures included.

What is hard: the dispatcher merges results while siblings run and fail; the
cancel handler, the timer and the execution write the same row in any order;
tokens are local while queue and rows are shared; a pop is a delivery without
acknowledgement; releasing a container is the last statement of a future that
can be dropped; the pool is checked and filled in separate steps; a run that
delegates is recursive and each of its error paths has to leave a conversation
the LLM's API accepts; Pub/Sub keeps nothing, so a page sees only what is published
while it is subscribed; a page has two sources of truth, its socket and its
fetches; memories are read, upserted and pruned by concurrent workers; an OAuth
state may be carried by two callbacks.

What makes each part correct: *dispatch loop*: prerequisites first, nothing left
in flight between rounds, every step settled once and truthfully stored and
reported, an end for every plan. *Lifecycle*: one execution per task, verdicts
stored before they are announced and kept, cancellation heard, no task stranded,
the queue drained. *Pool*: exclusive, started, cleaned containers, a bounded
number of them, none lost but by a failure. *Agent loop*: well-formed
conversations, failures confined, complete traces, an end. *Event stream and
page*: what is shown is true, is not taken back, and comes if it was published to
a subscribed socket; one socket at a time. *Sessions and memories*: one session
per login, nobody's memories told to another, a bounded store that keeps what is
most used.

`PROJECT.json` lists every hazard at its line with the properties aimed at it.

## 2. Modules

| Module | What it is | Theorems |
|---|---|---|
| `StepDispatch` | one execution of one plan: dispatcher, one future per step, cancel, timer | `StepDispatch_proofs` |
| `PlanExecution` | what that promises, in terms of steps that wait, run, are done or failed | refinement, same module |
| `TaskLifecycle` | tasks, queue, instances, workers, cancel requests; the dispatch loop is one phase | `TaskLifecycle_proofs`, `TaskCancel_proofs` |
| `TaskVerdict` | what that promises to who watches one task: its row, its one execution, its cancellations | refinement, `TaskRefinement_proofs` |
| `SandboxPool` | the pool, step futures as its users, replenish jobs, Docker | `SandboxPool_proofs` |
| `AgentRun` | one attempt at a step: a stack of runs, the LLM's answers and retries | `AgentRun_proofs` |
| `EventStream` | composes `TaskVerdict` with the events of the task: Redis, handler, forwarder, sockets, the page | `EventStream_proofs` |
| `AuthSession` | sign-in, sessions, logout | with `UserMemory` |
| `UserMemory` | extends `AuthSession`: requests of sessions, the tasks they create, memories | `UserMemory_proofs` |
| `MC*` | plans, learnings and symmetry sets for TLC | |

Common conventions. A step ends at an `.await` of the code whose order with
other actors matters; consecutive awaits that only this actor can observe are
one step. Failures of the environment are a constant `Faults`: a run names those
in scope. Data (goals, prompts, outputs) is absent; events that nobody branches
on are absent. Definitions with an underscore suffix and a comment "Mutant" are
deliberately wrong variants of the definition that follows, used to see that
the properties notice; no specification uses them.

### StepDispatch

`deps` is the graph parsed at `orchestrator.rs:171`, `completed` and `failed` are
the HashSets, `batch` is `ready`, `thread[i]` is the place of step i's future
(`acquire`, then `enter` .. `publish` inside `execute_single_step`, `release`,
`finished` until `join_next` takes it), `attempt[i]` its loop variable, `held`
the steps that own a container. `Spawn`, `BlockRemaining`, `StopCancelled` and
`ExitLoop` are the branches at the loop's head; `JoinCompleted`, `JoinFailed` and
`JoinBroken` the arms of the `match` on `join_next`; `Conclude` the test
`completed.is_empty()`. The step's actions follow `execute_single_step` line by
line. `MarkRowsFailed` is the status write whose error the code drops;
`DatabaseError` the writes whose error it returns. `Timeout` drops the JoinSet.

A broken batch (`BatchBroken`) is one that lost a future (`Lost`) to a sandbox error
or a panic: the code itself gives up on knowing which step failed, and fails all
of the batch that is not settled while its other futures run on. One of these may
complete and is then in both HashSets. `SettledOnce` says that nothing else gets
there, and `NothingSkipped` what it costs: the loop's count ends it with as many
steps left out, at most, as were counted twice. `VerdictsTruthful`, the failed steps
of `RowsTellOutcome` and the refinement except broken batches.
`JoinBroken` marks the abandoned steps at once where the code awaits between
two of them: each step's own writes commute with the marking of the others.
An agent's name always resolves, because the `code` agent is registered.

### PlanExecution

The abstract specification: `StartBatch`, `Settle`, `GiveUpWaiting`, `Judge`,
`StopCancelled`, `TimeOut`, and `Break`, after which it promises nothing. The
mapping reads a step's status off the HashSets and the futures (`stepStatus`):
done or failed once counted, waiting while not spawned, running otherwise. A
batch that a sandbox error or a panic breaks maps to `Break`: every status is
`unknown` and the outcome `broken` from there on.

### TaskLifecycle

`row` and `error` are columns of `tasks`; `queue` the Redis list; `at[n]`,
`task[n]`, `signalled[n]` the worker of instance n, its task and whether the
token it works under is cancelled; `tokens[n]` the keys of the instance's map;
`request[r]` a cancel handler between its awaits. `BeginPlanning`,
`BeginRunning`, `StartBatches`, `Dispatch*`, `StoreResult`, `Report*` are the
phases of `execute_task_inner`; `InnerError` is any `?` in it; `TimerFires`,
`TimeoutSetError`, `TimeoutReport` the timeout branch of `execute_task`;
`Abandon` the ways out of it that skip the removal of the token. The outcomes of
the dispatch phase are those `StepDispatch` has: cancelled, all failed, at least
one completed. Planning, synthesis and learnings are calls that may fail.

### TaskVerdict

The abstract specification of one task, as those see it who read its row and hear
its events. `row` is `open` until it is final; `timedOut` says that the timer's error
is in it; `execution` is the one execution the task gets, from `working` through
the verdict it has stored to `sent` and `over`, or to `expired` and `judged` where the
timer has dropped it; `cancel[r]` is where request r is. `Advance` is any write of
the execution that leaves the row open: it takes a cancellation back, as the code
does. `StoreVerdict` does not look at the row; `Drop` is any silent end, of the
execution or of handlers. `Announces(e)` are the steps that publish event e.

The mapping, at the end of `TaskLifecycle`, reads `execution` off the worker that has
the task (`Stage` of its place), or else off the queue: a task that nobody has
taken yet is `working`, one that nobody has and that is not queued is `over`.
`Handlings(t)` hides the requests for other tasks. `ImplementsTaskVerdict` also says
that what is published for a task is what `TaskVerdict` announces in that step.

### SandboxPool

Users are step futures between `acquire` and the end of `release`; jobs are the
tasks `acquire` spawns. Each call to Docker is a state of its own, so that a
failure or a dropped future falls before or after it; a request whose future was
dropped, or that returned an error, may have been carried out all the same
(`Unanswered`). A container may die at any moment (`Dies`, the fault `death`): `acquire`
does not look, so that it may be served, and what is checked is that it was started
and not removed (`OnlyStartedServed`); it cannot be cleaned, and release replaces it.
`Lost` are the containers that exist in Docker (`Existing`) and that neither the pool
nor a step or job knows. A user whose future
was dropped is `gone` until the next step takes its place, so that a drop cannot
be mistaken for an orderly end. A step that has its container waits for a free
job: the number of jobs at a time is a bound of the model. `residue` says which kinds of
files an earlier step may have left in a container: those the cleaning command's
globs match and those they do not. `strays` are containers in which a tool call
timed out, whose process nobody stops. `replenish_pool` has no caller.

### AgentRun

`stack` holds the run of the step's agent and the runs it delegates to, each
with its turns, its conversation, the calls still to process and the rows it
inserted in `reasoning_traces` (a failed INSERT is a gap). `attempt` is the loop
variable of `request_with_retry`. `finished` is the run that returned in the last
step. A tool that succeeds, fails, times out or does not exist is one action,
`ToolReturns`, because the four arms do the same to the state modelled: one tool
message, one trace. A run that returns hands its parent the answer to the call
in the same step. Token usage, artifacts and events are not modelled; the attempt
can also be dropped by the timer, which `StepDispatch` has.

### EventStream

One task and one mounted page. For each socket w the page makes: `handler[w]` is
`handle_socket`, `forwarder[w]` the task that `subscribe_task_events` spawns,
`stream[w]` what Redis has sent it, `inbox[w]` the mpsc channel between the two,
`wire[w]` what is on its way to the page, `sock[w]` the socket as the browser sees
it. `status`, `terminal`, `timer`, `cancelling` are the page's state and refs,
`initial` its first fetch, whose answer may be applied late. `OnOpen`,
`OnMessage`, `OnClose`, `TimerFires`, `ClickStop`, `Leave` are its callbacks;
`ScheduleReconnect` is the function of that name.

The task itself is an instance of `TaskVerdict`, which `TaskLifecycle` implements: `TaskMove`
is a step of it that publishes nothing, `Announce` one that does. So the page faces
a timer that overtakes a stored verdict, a row that an execution opens again
after a cancellation, requests other than its own (`Others`; its own are `Clicks`, one for each time its
button is clicked) and an execution that ends
in silence. `InScope` says which of these are failures that the run asks for, and
ties the page's request to its button (`click`). A click may be refused
(`CancelRefused`) or end in a network error, before or after the backend had it
(`CancelUnanswered`); both give the button back. `result` remembers that the execution
has stored a result, which a later write to the row may hide. Events of steps do not change what the page reads here, but
they are what makes a forwarder notice that its handler has gone. The mpsc channel
is unbounded in the code too.

### AuthSession and UserMemory

`csrf[l]` is the Redis key of the OAuth state of login l; `exchange[c]` a call of
`exchange_token` or `dev_seed` between its awaits; `session[c]`, `refresh[c]` the
keys it stores; `browser[c]` the cookie. KOOMPI, the identity provider, is
external: `Grant` and `Deny` are its answers, of which one may name nobody, because the
status of `userinfo` is not looked at: the session is then of the user `""`
(`Nobody`). `redis` errors are of two kinds: not carried out, or carried out with
the reply lost.

`job[r]` is a request of a session and the task it creates: its user is what
the `AuthUser` extractor found (`Authenticate`), its `account` who it really was,
kept to state the properties. `Start` reads the context of the planner, none if the
statement fails, `Learn`
takes the LLM's items, `Remember` upserts one, `Prune` deletes what is beyond the
limit, `Delete` is the endpoint. `now` orders the rows as `updated_at` does. A
crash or a failing statement leaves the items stored so far unpruned (`Abandon`).
A row's `value` stands for the account of the task it was learnt from.

## 3. Runs

| Run | Question | Bounds | Result |
|---|---|---|---|
| `dispatch_faults` | are steps run, counted, stored and reported right; does the loop end; does it implement `PlanExecution`? | 11 plans of up to 3 steps, 2 attempts; sandbox errors, panics, failing statements | holds |
| `lifecycle_faults` | is a task worked on once, are verdicts stored and kept, is a cancellation heard; is it all one `TaskVerdict`? | 1 task, 2 instances, 2 cancel requests, all faults | holds |
| `lifecycle_cancel` | does every task end, and leave no token? | 1 task, 2 instances, 2 requests, no faults | holds |
| `queue_drains` | does the worker survive everything? | 2 tasks, 1 instance, all faults | holds |
| `cancel_sticks` | does a cancelled task stay cancelled? | 1 task, 1 instance, 1 request, no faults | violated |
| `pool_faults` | are containers exclusive, started, clean, bounded in number? | 3 containers, 2 steps, 2 jobs, target 2, all faults | holds |
| `pool_clean` | is a pooled container clean? | 2 containers, 1 step, no faults | violated |
| `agent_run` | are conversations well formed, failures confined, traces complete? | 2 turns, depth 1, answers of 1 or 2 calls, 1 retry, all faults | holds |
| `agent_traces` | is every thought traced? | 2 turns, depth 1, no faults | violated |
| `event_stream` | is what the page shows true and kept, and does a verdict arrive? | 2 sockets, 1 step event on the way to each, 1 click, Redis, network, timer and lost backend | holds |
| `forwarder_exits` | does the forwarder end with its handler? | 1 socket, no faults | violated |
| `user_memory` | one session per login, own memories, a bounded store? | 2 accounts, 1 login, 2 callbacks, 2 requests, 3 keys, limit 1, context of 1, all faults | holds |

Why the bounds are enough to be of interest. Three steps give chains, forks, joins,
steps beside a chain, cycles, a self-dependency and an index out of range; two attempts
have a first, a retried and a last one. Two instances are what one queue element
delivered twice needs; two requests for one task what one handler removing the other's
token needs; two tasks, in `queue_drains`, a worker that has to go on with the next. Two
replenish jobs and a target of two let both jobs read the same length and top up twice.
Two turns have a turn before the limit and one at it, two calls an order of answers, one
level of delegation a run that may delegate and one that may not. Two sockets are one
that is lost and its successor, with the old handler and forwarder still about; a fault
that makes the page connect again occurs only while it has a socket left (`Spare`), and
step events are left out once it has none. Step events are bounded by how many are on
their way to a socket at a time (`MaxSteps`), not in all. The timer and the loss of the
execution strike before the Stop button is clicked (`Struck`) and a handler is lost
before it has written: the fault `compound` lifts this bound, and two more: that a click
goes unanswered only after the first fetch is over, and that the page is not left after
a click. The safety properties are proved with it, and with any number of clicks. Two
callbacks race for one login or are of two accounts; two requests are two extractions,
or an extraction and a deletion, of one user; with a limit of one and an answer of two
items a prune deletes, and a third key comes from the other request. The constants of
the code are larger (3 attempts, target 3, 20 or 25 turns, depth 3, 3 retries, 200
memories of which 50 are read) and nothing branches on them but the comparison the model
keeps. Every run disables the deadlock check because the systems stop when there is
nothing left to do.

What the violated runs show, in the code's terms:

- `cancel_sticks`: the endpoint answers `cancelled`, but a task that was still queued
  has no token, and its execution never looks at the row's status; nor does
  anything look at the token after the loop's last head. The next status write
  replaces the cancellation.
- `pool_clean`: `rm -rf /workspace/*` and its like leave names that start with a dot.
- `agent_traces`: the summary forced at the turn limit is returned without a trace.
- `forwarder_exits`: the comment at `redis_client.rs:77` says that the background task
  exits when its receiver is dropped. It notices at the next event only, and the
  handler drops the receiver after the terminal event, which is the task's last.

Two more things the models show of the code without a run of their own. The
comment at `orchestrator.rs:199`, that steps left when none is ready "are blocked by
failed deps", holds for acyclic plans only (`BlockedByFailureIfAcyclic`);
`depends_on` is the LLM's and unchecked, and a cyclic plan is reported as blocked
by failures that never were. And the page may wait for ever for a verdict that was
published while it was not subscribed, because `refetchAll` does not set its
status; `VerdictDelivered` speaks of sockets that were subscribed.

## 4. Fairness

`StepDispatch`: weak fairness of the dispatcher and of each step's future; the
runtime polls what is ready. It assumes that an agent's run returns: `AgentRun`
shows that it does (`AttemptEnds`) as long as each LLM request returns. That is an
assumption, for the HTTP client sets no timeout; the 30 minute timer backs it,
and is given no fairness, so that no property holds thanks to it alone.
`TaskLifecycle`: weak fairness of each worker, of the push that follows an
INSERT and of a handler that has begun; a worker in a phase leaves it at the
latest when the timer fires. Users need not do anything and no fault need occur.
`AgentRun`: weak fairness of the run; tools are timed out by the code.
`EventStream`: weak fairness of the page's callbacks together (`PageMove`) and, for each
socket, of its handler and forwarder (`ServerMove`), tasks of the runtime that are polled
when they are ready. The task itself is given none: a verdict that is on its way
arrives, whatever becomes of the execution. The user need not click or leave.
`SandboxPool` and `UserMemory` have no liveness property: an acquired container
comes back only if a step ends, which is `StepDispatch`'s, and nothing waits for a
memory.

## 5. Proofs

Each theorem is of `Spec`, without fairness, for every value of the constants
under the named assumptions of its module (`PlansAssumption`,
`AttemptsAssumption`, `NoTaskAssumption`, ...). None bounds a number of tasks, instances,
steps, containers, sockets, requests or accounts. The pattern is the same: an
inductive invariant `IInv` made of the properties and of named conjuncts that say
what is true between two awaits, one lemma for each conjunct with one step for
each action, `InvariantHolds`, and the properties from it.

`StepDispatch_proofs`: `TypeOK`, `DependenciesRanFirst`, `RoundsAreJoined`,
`SettledOnce`, `NothingSkipped`, `RowsTellOutcome`, `VerdictsTruthful`,
`BlockedByFailureIfAcyclic`, and `ImplementsAbstract`: `StepDispatch` implements
`PlanExecution`, whatever fails. The properties speak of what was counted, stored
and reported, and a step changes those at different awaits: the invariant ties
each future's place to what its row, its verdicts, its attempt, its result and its
container must be at that place, and the dispatcher's sets to the futures that
were joined. The least obvious conjuncts are about counting (`LoopContinues`
compares two cardinalities: by lemma `CountMissesNoMore` it then leaves out no more
steps than the sets have in common), about broken batches (`FailedInFlight`: a step
that was failed while its future runs on is in a batch that lost one) and about blocking: in an
acyclic plan, the steps that remain when none is ready contain one with a failed
dependency outside them.

`TaskLifecycle_proofs`: `TypeOK`, `WorkedOnOnce`, `VerdictWasStored`, `FinalRowKept`,
and `SecondVerdictIsARace`, that more than one terminal event is published for a
task only if a cancellation or the timer has raced with its execution; with every fault.
`WorkedOnOnce` is inductive as it stands and carries the rest: only one worker can
change a task. `History` says what cannot have happened to a task whose verdict, or
report, is still ahead of it; `AboutToReport` what the row must hold where a worker
is about to publish.

`TaskRefinement_proofs`: `Implements`, that is `ImplementsTaskVerdict`, and
`ImplementsEachVerdict`, the same for the specification `Verdict(t)!Spec` of each task.
Under each action, the tasks it is not about see nothing (`Unseen`): their row and
requests are the same (`RowSame`, `RequestsSame`) and so is their execution
(`WorkSteps`), because by `WorkedOnOnce` the worker that moves is nobody else's. For the
task it is about, the worker's step is a step from stage to stage. Popping a task
needs `WorkedOnOnce` once more (the same id is not queued behind it, or it would be
`over` and then `working`), and `INSERT` needs `History` (no verdict can be in a row
that is not there).

`TaskCancel_proofs`: `TokenIsOfTheExecution`, unless statements fail or workers
panic; `NoneStranded`, without faults; `SignalReachesExecution`, with all of them. The
last needs `RowHasBegun` (a row that says planning or running is of a task whose
execution has begun), `TokenIsHeld` (its token is registered unless a request has
removed it) and `SignalComes` (a request that found the task begun, on the instance
that executes it, finds the token and has signalled it afterwards, unless another
request, which had found the task still pending, has taken the token and is done).

`SandboxPool_proofs`: `TypeOK`, `Exclusive`, `OnlyStartedServed`, `CleanUnlessStrayed`,
`LostOnlyByFailure`, `PopulationBounded`. `HandsMatch` ties the place of a future or job to
the container it holds and to what Docker has made of it; `CleanHistory` says that a
container is untouched until it has been started, and that what is about to be
pushed has been cleaned. A step that loses a container loses the one it had in hand,
or one that Docker made for a request it did not answer (`LosesOne`). The containers
that are not lost are in the pool or in a hand (`Accounted`), each hand is that of a
busy step or of a job that owes, and so the first half of `PopulationBounded` follows
(`ImageBound`, `BooksBounded`). The second half adds no sum to be reasoned about: what the
replenish jobs still owe is one set of pairs of a job and a number (`Owed`), and who
has a container another (`Busy`). The step to argue about is the check of the pool's length
(`CheckedAdds`): the job then owes what is missing at that moment, and every other job a
target at most, whatever length it found. The other steps move one element from one
of the three to another, or drop it.

`AgentRun_proofs`: `TypeOK`, `ConversationsWellFormed`, `FailsByItsOwnRequest`,
`TracesFollowConversation`. The calls of an assistant's message are answered in
order, so that the invariant says by index, and without selecting a subsequence,
where a run is: `Ready`, every call of its conversation answered; `Waiting`, those
before the current call; `Nested`, that every run but the top one waits for a
delegation. The rows a run has inserted follow its turns by position (`Tracked`),
gaps included.

`EventStream_proofs`: `TypeOK`, `VerdictShownIsTrue`, `OneSocketAtATime`,
`VerdictStays`. What may be said of a verdict (`Truth`) stays true whatever the task does
next (`TruthStays`), and this needs `RowFollows`, what the row holds at each stage of an
execution nobody has asked to cancel. Then it is enough that a step copies
verdicts and makes none up: each queue, the answer of the fetch and the page hold
after it what was true before (`QueuesStayTrue`, `PageStaysTrue`), and what is announced
is true (`AnnouncedIsTrue`). A result is stored with the row, and only there (`ResultFollows`).
`VerdictIsKnown` says that a page which shows a verdict does
not reconnect.

`UserMemory_proofs`: `TypeOK`, `SessionPerLogin`, `SessionOfAccount`, `OwnMemory`,
`MemoryBounded`, `MostUsedSurvive`. `OneWinner` says of exchanges on their way what
`SessionPerLogin` says of sessions: past the GETDEL there is one for each state, and the
state is gone; `OwnJob` that a request acts for the account of the session it came
with, or for nobody. `MemoryBounded` is not inductive, because a prune by one extraction
counts rows that another has stored: `LimitInv` says that the rows no extraction
at work has stored (`Settled`) are within the limit, and that no two rows have the
same user and key, or the same time (`RowsDistinct`), without which an upsert could
add a row and the ranking have ties. `MostUsedSurvive` is an action property: what a prune keeps is
those rows that fewer than the limit are ahead of (`Kept`), and a row that is
deleted leaves a full store of rows upserted more often, or as often and later
(`DroppedLast`), which is
proved by taking, of the deleted rows, one whose rows ahead are least by inclusion.

Only model-checked: liveness (`ExecutionEnds`, `EveryTaskEnds`, `QueueDrains`,
`AttemptEnds`, `VerdictDelivered`), which is beyond the prover. The four violated
properties are false, and have no theorem.

## 6. Not modelled

- `replan` and `replenish_pool`, which nothing calls.
- In `AgentRun`: token usage, artifacts, and the order in which the rows of several
  runs are read back (`db.rs:421` orders by turn number, which they share).
- How many containers are lost over time: each failure may leave one in Docker that
  nobody removes, and `PopulationBounded` does not count those. Nor is it modelled that
  such a container, or a stray process in one, ever ends.
- Which rows and events of a broken batch say what (see `StepDispatch`).
- What a failed execution leaves behind for good (a row that is not final, a page
  without a terminal event): `QueueDrains` says only that the next task is worked on.
- That a timeout of the LLM's API is not retried, although `docs/plans/2026-03-02-reliability-visibility-parallelism-design.md:51` lists it as
  retryable: `AgentRun` has what the code does, and no run states the divergence.
- Read-only endpoints and lists, the delay of the page's backoff, its rendering.
- Prompts, the parsing of the LLM's JSON, what tools do in a container: text and I/O.
- Static data (agents, configuration, types), migrations, deployment.

## 7. Plan

1. The composition of `StepDispatch` with `SandboxPool`, replacing `held` by the
   pool's containers, and the proof that it preserves both.
2. An abstract attempt (what `StepDispatch` needs of a run) that `AgentRun` implements.
3. Token usage, artifacts and the reading order of traces, in `AgentRun`.
