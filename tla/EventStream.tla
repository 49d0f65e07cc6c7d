----------------------------- MODULE EventStream -----------------------------
(***************************************************************************)
(* The events of one task, from their PUBLISH to the page that shows it.   *)
(* A socket of the page has a handler in the backend (ws.rs), which has a  *)
(* Redis subscription read by a background task of its own, the forwarder  *)
(* (redis_client.rs, subscribe_task_events).  Pub/Sub keeps nothing for    *)
(* who is not subscribed.  The page (tasks/[id]/page.tsx) also fetches the *)
(* task over HTTP, and connects again when a socket closes.  Of the task's *)
(* execution, its timer and its cancellations there is what TaskVerdict    *)
(* promises, which TaskLifecycle implements.                               *)
(***************************************************************************)
EXTENDS Naturals, Sequences, FiniteSets

CONSTANTS
  Clicks,      \* bound: requests to cancel the task that the page makes
  Others,      \* requests to cancel the task that others make than the page
  MaxSockets,  \* bound: connections the page makes; faults leave one to make
  MaxSteps,    \* bound: events of steps on their way to a socket
  Faults       \* the failures of the environment that are in scope

StreamFaults == {"redis",    \* PUBLISH or SUBSCRIBE fails, a subscription is lost
                 "network",  \* a socket is refused or cut, a fetch fails
                 "timer",    \* the task's 30 minutes pass
                 "backend",  \* its execution, or the handler of a request, is lost
                 "compound"} \* combinations that Struck, InScope and
                             \* CancelUnanswered leave out

ASSUME RequestsAssumption == Clicks \cap Others = {}
ASSUME SocketsAssumption == MaxSockets \in Nat \ {0}
ASSUME StepsAssumption == MaxSteps \in Nat
ASSUME StreamFaultsAssumption == Faults \subseteq StreamFaults

VARIABLES
  row,         \* tasks.status, final or not
  timedOut,    \* its error is that of the timer
  execution,   \* where the execution of the task is
  cancel,      \* where the handler of each cancel request is
  result,      \* tasks.result is set; no statement ever clears it
  click,       \* of each click on the Stop button, what the page knows
  handler,     \* where handle_socket is, for each socket
  forwarder,   \* the background task of each subscription
  stream,      \* what Redis has sent to the subscription
  inbox,       \* the mpsc channel from the forwarder to the handler
  wire,        \* what the handler has sent to the page
  sock,        \* the socket, for the page
  status,      \* ConnectionStatus of the page
  terminal,    \* terminalRef
  timer,       \* a reconnectTimer is set
  cancelling,  \* the Stop button waits for the cancellation
  mounted,     \* the page has not been left
  initial      \* the initial fetch: sent, the row it read, or done

Requests == Clicks \cup Others

Task == INSTANCE TaskVerdict

taskVars == <<row, timedOut, execution, cancel>>
serverVars == <<handler, forwarder, stream, inbox>>
pageVars == <<status, terminal, timer, cancelling, mounted>>

vars == <<taskVars, result, click, serverVars, wire, sock, pageVars, initial>>

Sockets == 1 .. MaxSockets

Final == Task!Final
Rows == Final \cup {"open"}

Terminal == Task!Terminal
Events == Terminal \cup {"step"}

Closed == {"unused", "closed", "cut"}

\* Bound: a fault that makes the page connect again must leave it a socket.
Spare == sock[MaxSockets] = "unused"

\* What the page shows for a terminal event.
Verdict(event) == IF event = "task_completed" THEN "completed" ELSE "failed"

-----------------------------------------------------------------------------

\* The page has been mounted: the task is being fetched, the first socket
\* connects.  Either may take until the task has long ended.
Init ==
  /\ Task!Init
  /\ result = FALSE
  /\ click = [k \in Clicks |-> "none"]
  /\ handler = [w \in Sockets |-> "none"]
  /\ forwarder = [w \in Sockets |-> "none"]
  /\ stream = [w \in Sockets |-> <<>>]
  /\ inbox = [w \in Sockets |-> <<>>]
  /\ wire = [w \in Sockets |-> <<>>]
  /\ sock = [w \in Sockets |-> IF w = 1 THEN "connecting" ELSE "unused"]
  /\ status = "connecting"
  /\ terminal = FALSE
  /\ timer = FALSE
  /\ cancelling = FALSE
  /\ mounted = TRUE
  /\ initial = "sent"

-----------------------------------------------------------------------------
(* The execution of the task and its cancellation.                         *)

\* emit: to the subscriptions there are, or lost with its error logged.
Publish(event) ==
  \/ stream' = [w \in Sockets |-> IF forwarder[w] = "on"
                                    THEN Append(stream[w], event)
                                    ELSE stream[w]]
  \/ "redis" \in Faults /\ UNCHANGED stream

OnTheirWay(w) == stream[w] \o inbox[w] \o wire[w]

\* Bound: the steps of a page's last socket are left out.
StepEvent ==
  /\ execution = "working" /\ Spare
  /\ \A w \in Sockets :
       LET queue == OnTheirWay(w)
       IN  Cardinality({k \in DOMAIN queue : queue[k] = "step"}) < MaxSteps
  /\ Publish("step")
  /\ UNCHANGED <<taskVars, result, click, handler, forwarder, inbox, wire,
                sock, pageVars, initial>>

\* Bound: the timer and the loss of an execution strike before the Stop button
\* is clicked, a handler is lost before it has written, unless "compound".
Struck == "compound" \in Faults \/ \A k \in Clicks : click[k] = "none"

Becomes(end) == execution # end /\ execution' = end

\* A request of the page is handled once it is made, whether or not the page
\* still waits for the answer.  Without faults, only an execution whose token
\* is cancelled ends with no verdict.
InScope ==
  /\ \A k \in Clicks :
       cancel'[k] # cancel[k] => click[k] \in {"asked", "unanswered"}
  /\ Becomes("expired") => "timer" \in Faults /\ Struck
  /\ Becomes("over") => \/ "backend" \in Faults /\ Struck
                        \/ execution = "working" /\ ~ Task!Unasked
  /\ \A r \in Requests : cancel[r] # "lost" /\ cancel'[r] = "lost" =>
       "backend" \in Faults /\ (cancel[r] = "read" \/ "compound" \in Faults)

\* What the task does in silence: the statement that makes the row completed
\* sets its result, too ...
TaskMove ==
  /\ Task!Quiet /\ InScope
  /\ result' = (result \/ row' = "completed")
  /\ UNCHANGED <<click, serverVars, wire, sock, pageVars, initial>>

\* ... and what it publishes.
Announce ==
  /\ \E e \in Terminal : Task!Announces(e) /\ Publish(e)
  /\ UNCHANGED <<result, click, handler, forwarder, inbox, wire, sock,
                pageVars, initial>>

\* handleCancel: any answer but an ok one gives the button back.  The ok one,
\* {"status": "cancelled"}, changes nothing on the page.
CancelRefused(k) ==
  /\ click[k] = "asked"
  /\ \/ cancel[k] = "idle" /\ row \in Final
     \/ cancel[k] = "lost"
  /\ click' = [click EXCEPT ![k] = "refused"]
  /\ cancelling' = FALSE
  /\ UNCHANGED <<taskVars, result, serverVars, wire, sock, status, terminal,
                timer, mounted, initial>>

\* So does a network error, before the request has come to the backend or after
\* (bound: not while the first fetch is on its way, unless "compound").
CancelUnanswered(k) ==
  /\ "network" \in Faults
  /\ "compound" \in Faults \/ initial = "done"
  /\ click[k] = "asked"
  /\ click' = [click EXCEPT ![k] = "unanswered"]
  /\ cancelling' = FALSE
  /\ UNCHANGED <<taskVars, result, serverVars, wire, sock, status, terminal,
                timer, mounted, initial>>

Backend ==
  \/ StepEvent \/ TaskMove \/ Announce
  \/ \E k \in Clicks : CancelRefused(k)

-----------------------------------------------------------------------------
(* The handler of socket w and the forwarder of its subscription.          *)

\* The upgrade is answered before handle_socket is started.
Accept(w) ==
  /\ sock[w] = "connecting" /\ handler[w] = "none"
  /\ handler' = [handler EXCEPT ![w] = "subscribing"]
  /\ UNCHANGED <<taskVars, result, click, forwarder, stream, inbox, wire, sock,
                pageVars, initial>>

Subscribe(w) ==
  /\ handler[w] = "subscribing"
  /\ handler' = [handler EXCEPT ![w] = "forwarding"]
  /\ forwarder' = [forwarder EXCEPT ![w] = "on"]
  /\ UNCHANGED <<taskVars, result, click, stream, inbox, wire, sock, pageVars,
                initial>>

\* The error message it sends is no event to the page; the socket is dropped.
SubscribeFails(w) ==
  /\ "redis" \in Faults /\ Spare
  /\ handler[w] = "subscribing"
  /\ handler' = [handler EXCEPT ![w] = "ended"]
  /\ UNCHANGED <<taskVars, result, click, forwarder, stream, inbox, wire, sock,
                pageVars, initial>>

\* The forwarder takes the next message of the subscription; the handler
\* being gone, its send fails and it breaks, which closes the subscription.
Relay(w) ==
  /\ forwarder[w] = "on" /\ stream[w] # <<>>
  /\ IF handler[w] = "forwarding"
       THEN /\ inbox' = [inbox EXCEPT ![w] = Append(@, Head(stream[w]))]
            /\ stream' = [stream EXCEPT ![w] = Tail(@)]
            /\ UNCHANGED forwarder
       ELSE /\ forwarder' = [forwarder EXCEPT ![w] = "off"]
            /\ stream' = [stream EXCEPT ![w] = <<>>]
            /\ UNCHANGED inbox
  /\ UNCHANGED <<taskVars, result, click, handler, wire, sock, pageVars,
                initial>>

\* The connection to Redis is lost: the stream ends, the sender is dropped.
LoseSubscription(w) ==
  /\ "redis" \in Faults /\ Spare
  /\ forwarder[w] = "on"
  /\ forwarder' = [forwarder EXCEPT ![w] = "lost"]
  /\ stream' = [stream EXCEPT ![w] = <<>>]
  /\ UNCHANGED <<taskVars, result, click, handler, inbox, wire, sock, pageVars,
                initial>>

\* Mutant: the loop is left before the terminal event is sent.
Forward_early(w) ==
  /\ handler[w] = "forwarding" /\ inbox[w] # <<>>
  /\ LET event == Head(inbox[w])
     IN  /\ wire' = IF event \in Terminal THEN wire
                                          ELSE [wire EXCEPT ![w] = Append(@, event)]
         /\ handler' = [handler EXCEPT ![w] =
                          IF event \in Terminal THEN "ended" ELSE @]
  /\ inbox' = [inbox EXCEPT ![w] = Tail(@)]
  /\ UNCHANGED <<taskVars, result, click, forwarder, stream, sock, pageVars,
                initial>>

\* The next event is sent; the loop is left when it was a terminal one, or
\* when the page has closed the socket and the send fails (the first send
\* after that may still succeed).
Forward(w) ==
  /\ handler[w] = "forwarding" /\ inbox[w] # <<>>
  /\ LET event == Head(inbox[w])
         ends == event \in Terminal
     IN  IF sock[w] \in {"connecting", "open"}
           THEN /\ wire' = [wire EXCEPT ![w] = Append(@, event)]
                /\ handler' = [handler EXCEPT ![w] = IF ends THEN "ended" ELSE @]
           ELSE /\ \/ handler' = [handler EXCEPT ![w] = "ended"]
                   \/ ~ ends /\ UNCHANGED handler
                /\ UNCHANGED wire
  /\ inbox' = [inbox EXCEPT ![w] = IF handler'[w] = "ended" THEN <<>> ELSE Tail(@)]
  /\ UNCHANGED <<taskVars, result, click, forwarder, stream, sock, pageVars,
                initial>>

\* recv returned None.
StreamEnds(w) ==
  /\ handler[w] = "forwarding"
  /\ forwarder[w] \in {"off", "lost"} /\ inbox[w] = <<>>
  /\ handler' = [handler EXCEPT ![w] = "ended"]
  /\ UNCHANGED <<taskVars, result, click, forwarder, stream, inbox, wire, sock,
                pageVars, initial>>

ServerMove(w) == Accept(w) \/ Subscribe(w) \/ Relay(w) \/ Forward(w) \/ StreamEnds(w)
ServerFault(w) == SubscribeFails(w) \/ LoseSubscription(w)

-----------------------------------------------------------------------------
(* The page.  refetchAll (on reconnecting and after a verdict) sets the    *)
(* task, steps and artifacts that are shown, and nothing that is read      *)
(* here: in particular not the connection status.                          *)

\* ws.onopen.
OnOpen(w) ==
  /\ sock[w] = "connecting" /\ handler[w] # "none"
  /\ sock' = [sock EXCEPT ![w] = "open"]
  /\ status' = "live"
  /\ UNCHANGED <<taskVars, result, click, serverVars, wire, terminal, timer,
                cancelling, mounted, initial>>

\* ws.onmessage; events of steps refresh the list of steps, not the task.
OnMessage(w) ==
  /\ sock[w] = "open" /\ wire[w] # <<>>
  /\ wire' = [wire EXCEPT ![w] = Tail(@)]
  /\ LET event == Head(wire[w])
     IN  IF event \in Terminal
           THEN /\ terminal' = TRUE
                /\ status' = Verdict(event)
                /\ cancelling' = FALSE
           ELSE UNCHANGED <<terminal, status, cancelling>>
  /\ UNCHANGED <<taskVars, result, click, serverVars, sock, timer, mounted,
                initial>>

\* Mutant: the verdict is not looked at.
ScheduleReconnect_always ==
  /\ status' = "reconnecting"
  /\ timer' = TRUE

\* scheduleReconnect, for a page that knows no verdict; the delay (1 s to
\* 30 s) and the count of attempts behind it are left out.
ScheduleReconnect ==
  IF terminal THEN UNCHANGED <<status, timer>>
              ELSE /\ status' = "reconnecting"
                   /\ timer' = TRUE

\* ws.onclose: the handler has dropped the socket, or the page has closed it.
OnClose(w) ==
  /\ \/ sock[w] = "open" /\ handler[w] = "ended" /\ wire[w] = <<>>
     \/ sock[w] = "closing"
  /\ sock' = [sock EXCEPT ![w] = "closed"]
  /\ wire' = [wire EXCEPT ![w] = <<>>]
  /\ ScheduleReconnect
  /\ UNCHANGED <<taskVars, result, click, serverVars, terminal, cancelling,
                mounted, initial>>

\* The socket is refused or cut: what was on its way is lost.
Cut(w) ==
  /\ "network" \in Faults /\ Spare
  /\ sock[w] \in {"connecting", "open"}
  /\ sock' = [sock EXCEPT ![w] = "cut"]
  /\ wire' = [wire EXCEPT ![w] = <<>>]
  /\ ScheduleReconnect
  /\ UNCHANGED <<taskVars, result, click, serverVars, terminal, cancelling,
                mounted, initial>>

\* Mutant: an interval instead of a timeout.
TimerFires_again ==
  /\ timer /\ ~ terminal
  /\ \E w \in Sockets :
       /\ sock[w] = "unused" /\ \A v \in 1 .. w - 1 : sock[v] # "unused"
       /\ sock' = [sock EXCEPT ![w] = "connecting"]
  /\ UNCHANGED <<taskVars, result, click, serverVars, wire, pageVars, initial>>

\* The callback of scheduleReconnect: connectWs, then refetchAll.
TimerFires ==
  /\ timer
  /\ timer' = FALSE
  /\ IF terminal
       THEN UNCHANGED sock
       ELSE \E w \in Sockets :
              /\ sock[w] = "unused" /\ \A v \in 1 .. w - 1 : sock[v] # "unused"
              /\ sock' = [sock EXCEPT ![w] = "connecting"]
  /\ UNCHANGED <<taskVars, result, click, serverVars, wire, status, terminal,
                cancelling, mounted, initial>>

\* A GET of the task reads the row; the answers may overtake each other.
InitialRead ==
  /\ initial = "sent"
  /\ initial' = row
  /\ UNCHANGED <<taskVars, result, click, serverVars, wire, sock, pageVars>>

\* Mutant: the page takes over whatever status the row has.
InitialApply_copied ==
  /\ initial \in Rows
  /\ initial' = "done"
  /\ terminal' = (initial \in Final)
  /\ status' = initial
  /\ UNCHANGED <<taskVars, result, click, serverVars, wire, sock, timer,
                cancelling, mounted>>

\* The answer is applied, whatever the page has shown since it was sent.
InitialApply ==
  /\ initial \in Rows
  /\ initial' = "done"
  /\ IF initial \in Final THEN terminal' = TRUE /\ status' = initial
                          ELSE UNCHANGED <<terminal, status>>
  /\ UNCHANGED <<taskVars, result, click, serverVars, wire, sock, timer,
                cancelling, mounted>>

\* A fetch that fails is logged, and not repeated.
FetchFails ==
  /\ "network" \in Faults
  /\ initial # "done" /\ initial' = "done"
  /\ UNCHANGED <<taskVars, result, click, serverVars, wire, sock, pageVars>>

\* handleCancel; the button is there as long as no verdict is shown.
ClickStop(k) ==
  /\ mounted /\ ~ cancelling /\ status \notin Final
  /\ click[k] = "none" /\ click' = [click EXCEPT ![k] = "asked"]
  /\ cancelling' = TRUE
  /\ UNCHANGED <<taskVars, result, serverVars, wire, sock, status, terminal,
                timer, mounted, initial>>

\* The page is left: its timer is cleared and its first socket closed, which
\* may be closed already and have been replaced (bound: not after a click, unless
\* "compound").
Leave ==
  /\ mounted /\ Spare
  /\ "compound" \in Faults \/ \A k \in Clicks : click[k] = "none"
  /\ mounted' = FALSE
  /\ timer' = FALSE
  /\ sock' = [sock EXCEPT ![1] = IF @ \in Closed THEN @ ELSE "closing"]
  /\ UNCHANGED <<taskVars, result, click, serverVars, wire, status, terminal,
                cancelling, initial>>

PageMove ==
  \/ \E w \in Sockets : OnOpen(w) \/ OnMessage(w) \/ OnClose(w)
  \/ TimerFires \/ InitialRead \/ InitialApply

Environment ==
  \/ \E w \in Sockets : ServerFault(w) \/ Cut(w)
  \/ \E k \in Clicks : ClickStop(k) \/ CancelUnanswered(k)
  \/ FetchFails \/ Leave

Next ==
  \/ Backend
  \/ \E w \in Sockets : ServerMove(w)
  \/ PageMove
  \/ Environment

Spec == Init /\ [][Next]_vars

-----------------------------------------------------------------------------
(* Fairness: what has been published is delivered.  The backend's tasks    *)
(* are polled, Redis and the network deliver what they do not lose, and    *)
(* the browser runs its callbacks.  The task need not get any further, the *)
(* user need not do anything, and no fault need occur.                     *)

Fairness == WF_vars(PageMove) /\ \A w \in Sockets : WF_vars(ServerMove(w))

FairSpec == Spec /\ Fairness

-----------------------------------------------------------------------------
(* Properties.                                                             *)

TypeOK ==
  /\ row \in Rows /\ timedOut \in BOOLEAN
  /\ execution \in {"working", "sent", "over", "expired", "judged"} \cup Final
  /\ cancel \in [Requests -> {"idle", "read", "set", "marked", "done", "lost"}]
  /\ result \in BOOLEAN
  /\ click \in [Clicks -> {"none", "asked", "refused", "unanswered"}]
  /\ handler \in [Sockets -> {"none", "subscribing", "forwarding", "ended"}]
  /\ forwarder \in [Sockets -> {"none", "on", "off", "lost"}]
  /\ stream \in [Sockets -> Seq(Events)]
  /\ inbox \in [Sockets -> Seq(Events)]
  /\ wire \in [Sockets -> Seq(Events)]
  /\ sock \in [Sockets -> Closed \cup {"connecting", "open", "closing"}]
  /\ status \in {"connecting", "live", "reconnecting"} \cup Final
  /\ terminal \in BOOLEAN /\ timer \in BOOLEAN
  /\ cancelling \in BOOLEAN /\ mounted \in BOOLEAN
  /\ initial \in {"sent", "done"} \cup Rows

\* Whatever was missed, delayed or fetched late, a page that shows a task
\* completed shows it of one whose execution has stored its result, and until
\* somebody asks for a cancellation the verdict shown is the one in the row,
\* unless the timer has replaced that.
VerdictShownIsTrue ==
  status \in Final =>
    /\ status = "completed" => result
    /\ Task!Unasked => row = status \/ (timedOut /\ row = "failed")

\* Reconnecting never leaves the page with two sockets, which would show
\* every event twice: a reconnect timer is set only when all are closed, and
\* it makes one.
OneSocketAtATime ==
  /\ \A v, w \in Sockets : sock[v] \notin Closed /\ sock[w] \notin Closed => v = w
  /\ timer => \A w \in Sockets : sock[w] \in Closed

\* A page that has shown a verdict goes on showing one, whatever sockets and
\* late answers do after it; but a socket that was still connecting when the
\* first fetch found the task ended sets the page to "live" again.
VerdictStays ==
  [][(status \in Final /\ status' \notin Final) =>
       \E w \in Sockets : sock[w] = "connecting" /\ sock'[w] = "open"]_vars

\* A terminal event on its way to the page.
Coming(w) ==
  \E k \in DOMAIN OnTheirWay(w) : OnTheirWay(w)[k] \in Terminal

\* A terminal event published while the page's socket is subscribed ends the
\* handler and is shown, unless the socket or the subscription is lost before
\* or the page is left.
VerdictDelivered ==
  \A w \in Sockets :
    Coming(w) ~> /\ handler[w] = "ended"
                 /\ \/ status \in Final \/ ~ mounted
                    \/ sock[w] = "cut" \/ forwarder[w] = "lost"

\* "The background task exits when the receiver is dropped": the forwarder,
\* and with it its connection to Redis, ends after its handler.
ForwarderExits ==
  \A w \in Sockets : handler[w] = "ended" ~> forwarder[w] # "on"

=============================================================================
