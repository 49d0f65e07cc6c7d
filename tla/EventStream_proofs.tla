-------------------------- MODULE EventStream_proofs --------------------------
(***************************************************************************)
(* Safety of EventStream, for every number of sockets and of events and    *)
(* every set of faults.                                                    *)
(***************************************************************************)
EXTENDS EventStream, TLAPS

\* What may be shown of a verdict v that is somewhere on its way.
Truth(v) ==
  /\ v = "completed" => result
  /\ Task!Unasked => row = v \/ (timedOut /\ row = "failed")

Truthful(queue) ==
  \A k \in 1 .. Len(queue) : queue[k] \in Terminal => Truth(Verdict(queue[k]))

QueuesTrue ==
  \A w \in Sockets : Truthful(stream[w]) /\ Truthful(inbox[w]) /\ Truthful(wire[w])

\* Where a verdict is that the page will come to show: in one of the queues of
\* a socket, in the answer of the first fetch, on the page.
VerdictsAreTrue ==
  /\ QueuesTrue
  /\ initial \in Final => Truth(initial)
  /\ status \in Final => Truth(status)

\* What the row says of the execution: that it has a result and, while nobody
\* has asked for a cancellation, what the execution has stored last.
RowFollows ==
  /\ row = "completed" \/ execution = "completed" => result
  /\ Task!Unasked =>
       /\ execution = "working" => row = "open"
       /\ execution \in Final => row = execution
       /\ execution = "judged" => timedOut /\ row = "failed"

\* What keeps reconnecting from taking a verdict back.
VerdictIsKnown == status \in Final => terminal

IInv ==
  /\ TypeOK /\ OneSocketAtATime
  /\ VerdictsAreTrue /\ RowFollows /\ VerdictIsKnown

-----------------------------------------------------------------------------
(* Queues of events.                                                       *)

LEMMA EventNames ==
  /\ "step" \in Events /\ "step" \notin Terminal
  /\ "task_completed" \in Events /\ "task_failed" \in Events
  /\ "task_cancelled" \in Events
BY DEF Events, Terminal, Task!Terminal

LEMMA QueueTypes ==
  /\ <<>> \in Seq(Events)
  /\ \A q \in Seq(Events), e \in Events : Append(q, e) \in Seq(Events)
  /\ \A q \in Seq(Events) : q # <<>> => Head(q) \in Events /\ Tail(q) \in Seq(Events)
OBVIOUS

-----------------------------------------------------------------------------

\* The task, the queues, and everything else.
TaskTyped ==
  /\ row \in Rows
  /\ execution \in {"working", "sent", "over", "expired", "judged"} \cup Final
  /\ cancel \in [Requests -> {"idle", "read", "set", "marked", "done", "lost"}]

QueuesTyped ==
  /\ stream \in [Sockets -> Seq(Events)]
  /\ inbox \in [Sockets -> Seq(Events)]
  /\ wire \in [Sockets -> Seq(Events)]

ControlTyped ==
  /\ click \in [Clicks -> {"none", "asked", "refused", "unanswered"}]
  /\ handler \in [Sockets -> {"none", "subscribing", "forwarding", "ended"}]
  /\ forwarder \in [Sockets -> {"none", "on", "off", "lost"}]
  /\ sock \in [Sockets -> Closed \cup {"connecting", "open", "closing"}]
  /\ status \in {"connecting", "live", "reconnecting"} \cup Final
  /\ initial \in {"sent", "done"} \cup Rows

FlagsTyped ==
  /\ terminal \in BOOLEAN /\ timer \in BOOLEAN
  /\ cancelling \in BOOLEAN /\ mounted \in BOOLEAN

LEMMA TypeParts ==
  TypeOK <=> /\ TaskTyped /\ timedOut \in BOOLEAN /\ result \in BOOLEAN
             /\ QueuesTyped /\ ControlTyped /\ FlagsTyped
BY Zenon DEF TypeOK, TaskTyped, QueuesTyped, ControlTyped, FlagsTyped

\* Every step is one of the task's, or leaves the task alone.
LEMMA TaskOrNot == [Next]_vars => TaskMove \/ Announce \/ UNCHANGED taskVars
<1> SUFFICES ASSUME [Next]_vars, ~ TaskMove, ~ Announce PROVE UNCHANGED taskVars
  OBVIOUS
<1> QED
  BY Zenon DEF Next, Backend, ServerMove, ServerFault, PageMove, Environment,
     StepEvent, CancelRefused, CancelUnanswered, Accept, Subscribe, Relay, Forward,
     StreamEnds, SubscribeFails, LoseSubscription, OnOpen, OnMessage, OnClose,
     Cut, TimerFires, InitialRead, InitialApply, FetchFails, ClickStop, Leave,
     vars

LEMMA TaskFrame == [Next]_vars => Task!Next \/ UNCHANGED taskVars
<1>1. TaskMove => Task!Next
  BY Zenon DEF TaskMove, Task!Next
<1>2. Announce => Task!Next
  BY Zenon DEF Announce, Terminal, Task!Next
<1> QED
  BY <1>1, <1>2, TaskOrNot

\* The result is set with the row, and never cleared.
LEMMA ResultFrame ==
  ASSUME [Next]_vars
  PROVE  TaskMove \/ UNCHANGED result
BY Zenon DEF Next, Backend, ServerMove, ServerFault, PageMove, Environment,
   StepEvent, Announce, CancelRefused, CancelUnanswered, Accept, Subscribe, Relay,
   Forward, StreamEnds, SubscribeFails, LoseSubscription, OnOpen, OnMessage,
   OnClose, Cut, TimerFires, InitialRead, InitialApply, FetchFails, ClickStop,
   Leave, vars

\* And with the row only: a statement that announces does not complete it.
LEMMA ResultFollows ==
  ASSUME [Next]_vars
  PROVE  /\ result => result'
         /\ row' = "completed" => row = "completed" \/ result'
<1>1. CASE TaskMove
  BY <1>1, Zenon DEF TaskMove
<1>2. CASE ~ TaskMove
  <2>1. UNCHANGED result
    BY <1>2, ResultFrame
  <2>2. row' = "completed" => row = "completed"
    <3>1. CASE UNCHANGED taskVars
      BY <3>1 DEF taskVars
    <3>2. CASE Announce
      BY <3>2 DEF Announce, Task!Announces, Task!Report, Task!ReportExpiry,
         Task!CancelReport
    <3> QED
      BY <1>2, <3>1, <3>2, TaskOrNot
  <2> QED
    BY <2>1, <2>2
<1> QED
  BY <1>1, <1>2

LEMMA TaskTypeStep == TaskTyped /\ [Next]_vars => TaskTyped'
<1> SUFFICES ASSUME TaskTyped, [Next]_vars PROVE TaskTyped'
  OBVIOUS
<1> USE DEF TaskTyped, Rows, Final, Task!Final
<1>1. CASE UNCHANGED taskVars
  BY <1>1 DEF taskVars
<1>2. CASE Task!Drop
  BY <1>2 DEF Task!Drop
<1>3. CASE Task!Advance \/ Task!Expire \/ Task!StoreExpiry
  BY <1>3 DEF Task!Advance, Task!Expire, Task!StoreExpiry
<1>4. CASE \E v \in Task!Final : Task!StoreVerdict(v)
  BY <1>4 DEF Task!StoreVerdict
<1>5. CASE \E e : Task!Report(e) \/ Task!ReportExpiry(e)
  BY <1>5 DEF Task!Report, Task!ReportExpiry
<1>6. ASSUME NEW r \in Requests, NEW e,
             \/ Task!CancelRead(r) \/ Task!CancelSetError(r)
             \/ Task!CancelMark(r) \/ Task!CancelReport(r, e)
      PROVE  TaskTyped'
  BY <1>6 DEF Task!CancelRead, Task!CancelSetError, Task!CancelMark,
     Task!CancelReport, Task!Handle
<1> QED
  BY <1>1, <1>2, <1>3, <1>4, <1>5, <1>6, TaskFrame
     DEF Task!Next, Task!Quiet, Task!Announces

LEMMA TimedOutStep == timedOut \in BOOLEAN /\ [Next]_vars => timedOut' \in BOOLEAN
<1> SUFFICES ASSUME timedOut \in BOOLEAN, Task!Next \/ UNCHANGED taskVars
             PROVE  timedOut' \in BOOLEAN
  BY TaskFrame
<1> QED
  BY Zenon DEF Task!Next, Task!Quiet, Task!Announces, Task!Advance, Task!Expire,
     Task!StoreExpiry, Task!Drop, Task!StoreVerdict, Task!Report,
     Task!ReportExpiry, Task!CancelRead, Task!CancelSetError, Task!CancelMark,
     Task!CancelReport, taskVars

LEMMA ResultStep == result \in BOOLEAN /\ [Next]_vars => result' \in BOOLEAN
<1> SUFFICES ASSUME result \in BOOLEAN, [Next]_vars PROVE result' \in BOOLEAN
  OBVIOUS
<1>1. CASE TaskMove
  BY <1>1, Zenon DEF TaskMove
<1>2. CASE UNCHANGED result
  BY <1>2
<1> QED
  BY <1>1, <1>2, ResultFrame

LEMMA ControlStep == ControlTyped /\ row \in Rows /\ [Next]_vars => ControlTyped'
<1> SUFFICES ASSUME ControlTyped, row \in Rows, [Next]_vars PROVE ControlTyped'
  OBVIOUS
<1> USE SocketsAssumption
    DEF ControlTyped, Rows, Final, Task!Final, Closed, serverVars, pageVars
<1>1. CASE StepEvent
  BY <1>1 DEF StepEvent
<1>2. CASE TaskMove
  BY <1>2 DEF TaskMove
<1>3. CASE Announce
  BY <1>3 DEF Announce
<1>4. ASSUME NEW k \in Clicks, CancelRefused(k) PROVE ControlTyped'
  BY <1>4 DEF CancelRefused
<1>5. ASSUME NEW w \in Sockets, Accept(w) PROVE ControlTyped'
  BY <1>5 DEF Accept
<1>6. ASSUME NEW w \in Sockets, Subscribe(w) PROVE ControlTyped'
  BY <1>6 DEF Subscribe
<1>7. ASSUME NEW w \in Sockets, Relay(w) PROVE ControlTyped'
  BY <1>7 DEF Relay
<1>8. ASSUME NEW w \in Sockets, Forward(w) PROVE ControlTyped'
  BY <1>8 DEF Forward
<1>9. ASSUME NEW w \in Sockets, StreamEnds(w) PROVE ControlTyped'
  BY <1>9 DEF StreamEnds
<1>10. ASSUME NEW w \in Sockets, SubscribeFails(w) PROVE ControlTyped'
  BY <1>10 DEF SubscribeFails
<1>11. ASSUME NEW w \in Sockets, LoseSubscription(w) PROVE ControlTyped'
  BY <1>11 DEF LoseSubscription
<1>12. ASSUME NEW w \in Sockets, OnOpen(w) PROVE ControlTyped'
  BY <1>12 DEF OnOpen
<1>13. ASSUME NEW w \in Sockets, OnMessage(w) PROVE ControlTyped'
  BY <1>13 DEF OnMessage, Verdict
<1>14. ASSUME NEW w \in Sockets, OnClose(w) PROVE ControlTyped'
  BY <1>14 DEF OnClose, ScheduleReconnect
<1>15. ASSUME NEW w \in Sockets, Cut(w) PROVE ControlTyped'
  BY <1>15 DEF Cut, ScheduleReconnect
<1>16. CASE TimerFires
  BY <1>16 DEF TimerFires
<1>17. CASE InitialRead
  BY <1>17 DEF InitialRead
<1>18. CASE InitialApply
  BY <1>18 DEF InitialApply
<1>19. CASE FetchFails
  BY <1>19 DEF FetchFails
<1>20. ASSUME NEW k \in Clicks, ClickStop(k) PROVE ControlTyped'
  BY <1>20 DEF ClickStop
<1>21. CASE Leave
  BY <1>21 DEF Leave
<1>23. ASSUME NEW k \in Clicks, CancelUnanswered(k) PROVE ControlTyped'
  BY <1>23 DEF CancelUnanswered
<1>22. CASE UNCHANGED vars
  BY <1>22 DEF vars
<1> QED
  BY <1>1, <1>2, <1>3, <1>4, <1>5, <1>6, <1>7, <1>8, <1>9, <1>10, <1>11,
     <1>12, <1>13, <1>14, <1>15, <1>16, <1>17, <1>18, <1>19, <1>20, <1>21,
     <1>22, <1>23 DEF Next, Backend, ServerMove, ServerFault, PageMove, Environment

LEMMA FlagsStep == FlagsTyped /\ [Next]_vars => FlagsTyped'
<1> SUFFICES ASSUME FlagsTyped, [Next]_vars PROVE FlagsTyped'
  OBVIOUS
<1> USE DEF FlagsTyped, serverVars, pageVars
<1>1. CASE StepEvent
  BY <1>1, Zenon DEF StepEvent
<1>2. CASE TaskMove
  BY <1>2, Zenon DEF TaskMove
<1>3. CASE Announce
  BY <1>3, Zenon DEF Announce
<1>4. ASSUME NEW k \in Clicks, CancelRefused(k) PROVE FlagsTyped'
  BY <1>4, Zenon DEF CancelRefused
<1>5. ASSUME NEW w \in Sockets, Accept(w) PROVE FlagsTyped'
  BY <1>5, Zenon DEF Accept
<1>6. ASSUME NEW w \in Sockets, Subscribe(w) PROVE FlagsTyped'
  BY <1>6, Zenon DEF Subscribe
<1>7. ASSUME NEW w \in Sockets, Relay(w) PROVE FlagsTyped'
  BY <1>7, Zenon DEF Relay
<1>8. ASSUME NEW w \in Sockets, Forward(w) PROVE FlagsTyped'
  BY <1>8, Zenon DEF Forward
<1>9. ASSUME NEW w \in Sockets, StreamEnds(w) PROVE FlagsTyped'
  BY <1>9, Zenon DEF StreamEnds
<1>10. ASSUME NEW w \in Sockets, SubscribeFails(w) PROVE FlagsTyped'
  BY <1>10, Zenon DEF SubscribeFails
<1>11. ASSUME NEW w \in Sockets, LoseSubscription(w) PROVE FlagsTyped'
  BY <1>11, Zenon DEF LoseSubscription
<1>12. ASSUME NEW w \in Sockets, OnOpen(w) PROVE FlagsTyped'
  BY <1>12, Zenon DEF OnOpen
<1>13. ASSUME NEW w \in Sockets, OnMessage(w) PROVE FlagsTyped'
  BY <1>13, Zenon DEF OnMessage
<1>14. ASSUME NEW w \in Sockets, OnClose(w) PROVE FlagsTyped'
  BY <1>14, Zenon DEF OnClose, ScheduleReconnect
<1>15. ASSUME NEW w \in Sockets, Cut(w) PROVE FlagsTyped'
  BY <1>15, Zenon DEF Cut, ScheduleReconnect
<1>16. CASE TimerFires
  BY <1>16, Zenon DEF TimerFires
<1>17. CASE InitialRead
  BY <1>17, Zenon DEF InitialRead
<1>18. CASE InitialApply
  BY <1>18, Zenon DEF InitialApply
<1>19. CASE FetchFails
  BY <1>19, Zenon DEF FetchFails
<1>20. ASSUME NEW k \in Clicks, ClickStop(k) PROVE FlagsTyped'
  BY <1>20, Zenon DEF ClickStop
<1>21. CASE Leave
  BY <1>21, Zenon DEF Leave
<1>23. ASSUME NEW k \in Clicks, CancelUnanswered(k) PROVE FlagsTyped'
  BY <1>23, Zenon DEF CancelUnanswered
<1>22. CASE UNCHANGED vars
  BY <1>22, Zenon DEF vars
<1> QED
  BY <1>1, <1>2, <1>3, <1>4, <1>5, <1>6, <1>7, <1>8, <1>9, <1>10, <1>11,
     <1>12, <1>13, <1>14, <1>15, <1>16, <1>17, <1>18, <1>19, <1>20, <1>21,
     <1>22, <1>23 DEF Next, Backend, ServerMove, ServerFault, PageMove, Environment

LEMMA PublishType ==
  ASSUME QueuesTyped, NEW e \in Events, Publish(e)
  PROVE  stream' \in [Sockets -> Seq(Events)]
<1>1. CASE stream' = [w \in Sockets |-> IF forwarder[w] = "on"
                                          THEN Append(stream[w], e)
                                          ELSE stream[w]]
  <2>1. \A w \in Sockets : stream[w] \in Seq(Events)
    BY DEF QueuesTyped
  <2>2. \A w \in Sockets : Append(stream[w], e) \in Seq(Events)
    BY <2>1, QueueTypes, Zenon
  <2> QED
    BY <1>1, <2>1, <2>2, Zenon
<1>2. CASE UNCHANGED stream
  BY <1>2 DEF QueuesTyped
<1> QED
  BY <1>1, <1>2 DEF Publish

\* One queue of a family takes another value.
LEMMA SetQueue ==
  ASSUME NEW f \in [Sockets -> Seq(Events)], NEW w, NEW q \in Seq(Events)
  PROVE  [f EXCEPT ![w] = q] \in [Sockets -> Seq(Events)]
BY Zenon

LEMMA QueuesStep == QueuesTyped /\ [Next]_vars => QueuesTyped'
<1> SUFFICES ASSUME QueuesTyped, [Next]_vars PROVE QueuesTyped'
  OBVIOUS
<1> USE DEF QueuesTyped, serverVars, pageVars
<1>1. CASE StepEvent
  BY <1>1, PublishType, EventNames DEF StepEvent
<1>2. CASE TaskMove
  BY <1>2 DEF TaskMove
<1>3. CASE Announce
  BY <1>3, PublishType DEF Announce, Events
<1>4. ASSUME NEW k \in Clicks, CancelRefused(k) PROVE QueuesTyped'
  BY <1>4 DEF CancelRefused
<1>5. ASSUME NEW w \in Sockets, Accept(w) PROVE QueuesTyped'
  BY <1>5 DEF Accept
<1>6. ASSUME NEW w \in Sockets, Subscribe(w) PROVE QueuesTyped'
  BY <1>6 DEF Subscribe
<1>7. ASSUME NEW w \in Sockets, Relay(w) PROVE QueuesTyped'
  <2>1. CASE handler[w] = "forwarding"
    <3>1. /\ inbox' = [inbox EXCEPT ![w] = Append(inbox[w], Head(stream[w]))]
          /\ stream' = [stream EXCEPT ![w] = Tail(stream[w])]
          /\ wire' = wire
      BY <1>7, <2>1 DEF Relay
    <3>2. /\ Append(inbox[w], Head(stream[w])) \in Seq(Events)
          /\ Tail(stream[w]) \in Seq(Events)
      BY <1>7, QueueTypes, Zenon DEF Relay
    <3> QED
      BY <3>1, <3>2, SetQueue, Zenon
  <2>2. CASE handler[w] # "forwarding"
    <3>1. /\ stream' = [stream EXCEPT ![w] = <<>>]
          /\ inbox' = inbox /\ wire' = wire
      BY <1>7, <2>2, Zenon DEF Relay
    <3> QED
      BY <3>1, QueueTypes, SetQueue, Zenon
  <2> QED
    BY <2>1, <2>2
<1>8. ASSUME NEW w \in Sockets, Forward(w) PROVE QueuesTyped'
  <2>1. /\ \/ wire' = wire
           \/ wire' = [wire EXCEPT ![w] = Append(wire[w], Head(inbox[w]))]
        /\ \/ inbox' = [inbox EXCEPT ![w] = <<>>]
           \/ inbox' = [inbox EXCEPT ![w] = Tail(inbox[w])]
        /\ stream' = stream
    BY <1>8 DEF Forward
  <2>2. /\ Append(wire[w], Head(inbox[w])) \in Seq(Events)
        /\ Tail(inbox[w]) \in Seq(Events)
    BY <1>8, QueueTypes, Zenon DEF Forward
  <2>3. wire' \in [Sockets -> Seq(Events)]
    BY <2>1, <2>2, SetQueue, Zenon
  <2>4. inbox' \in [Sockets -> Seq(Events)]
    BY <2>1, <2>2, QueueTypes, SetQueue, Zenon
  <2> QED
    BY <2>1, <2>3, <2>4
<1>9. ASSUME NEW w \in Sockets, StreamEnds(w) PROVE QueuesTyped'
  BY <1>9 DEF StreamEnds
<1>10. ASSUME NEW w \in Sockets, SubscribeFails(w) PROVE QueuesTyped'
  BY <1>10 DEF SubscribeFails
<1>11. ASSUME NEW w \in Sockets, LoseSubscription(w) PROVE QueuesTyped'
  BY <1>11, QueueTypes, SetQueue DEF LoseSubscription
<1>12. ASSUME NEW w \in Sockets, OnOpen(w) PROVE QueuesTyped'
  BY <1>12 DEF OnOpen
<1>13. ASSUME NEW w \in Sockets, OnMessage(w) PROVE QueuesTyped'
  BY <1>13, QueueTypes, SetQueue DEF OnMessage
<1>14. ASSUME NEW w \in Sockets, OnClose(w) PROVE QueuesTyped'
  BY <1>14, QueueTypes, SetQueue DEF OnClose
<1>15. ASSUME NEW w \in Sockets, Cut(w) PROVE QueuesTyped'
  BY <1>15, QueueTypes, SetQueue DEF Cut
<1>16. CASE TimerFires
  BY <1>16 DEF TimerFires
<1>17. CASE InitialRead
  BY <1>17 DEF InitialRead
<1>18. CASE InitialApply
  BY <1>18 DEF InitialApply
<1>19. CASE FetchFails
  BY <1>19 DEF FetchFails
<1>20. ASSUME NEW k \in Clicks, ClickStop(k) PROVE QueuesTyped'
  BY <1>20 DEF ClickStop
<1>21. CASE Leave
  BY <1>21 DEF Leave
<1>23. ASSUME NEW k \in Clicks, CancelUnanswered(k) PROVE QueuesTyped'
  BY <1>23 DEF CancelUnanswered
<1>22. CASE UNCHANGED vars
  BY <1>22 DEF vars
<1> QED
  BY <1>1, <1>2, <1>3, <1>4, <1>5, <1>6, <1>7, <1>8, <1>9, <1>10, <1>11,
     <1>12, <1>13, <1>14, <1>15, <1>16, <1>17, <1>18, <1>19, <1>20, <1>21,
     <1>22, <1>23 DEF Next, Backend, ServerMove, ServerFault, PageMove, Environment

LEMMA TypeStep == TypeOK /\ [Next]_vars => TypeOK'
<1>1. ASSUME TypeOK, [Next]_vars PROVE TypeOK'
  <2>1. TaskTyped' /\ timedOut' \in BOOLEAN /\ result' \in BOOLEAN
    BY <1>1, TypeParts, TaskTypeStep, TimedOutStep, ResultStep, Zenon
  <2>2. QueuesTyped' /\ ControlTyped' /\ FlagsTyped'
    <3>1. row \in Rows
      BY <1>1, TypeParts, Zenon DEF TaskTyped
    <3> QED
      BY <1>1, <3>1, TypeParts, QueuesStep, ControlStep, FlagsStep, Zenon
  <2> QED
    BY <2>1, <2>2, Zenon DEF TypeOK, TaskTyped, QueuesTyped, ControlTyped, FlagsTyped
<1> QED
  BY <1>1

LEMMA SocketStep ==
  ControlTyped /\ OneSocketAtATime /\ [Next]_vars => OneSocketAtATime'
<1> SUFFICES ASSUME ControlTyped, OneSocketAtATime, [Next]_vars PROVE OneSocketAtATime'
  OBVIOUS
<1> USE SocketsAssumption
    DEF ControlTyped, OneSocketAtATime, Sockets, Closed, serverVars, pageVars
<1>1. CASE StepEvent
  BY <1>1 DEF StepEvent, Publish
<1>2. CASE TaskMove
  BY <1>2 DEF TaskMove
<1>3. CASE Announce
  BY <1>3 DEF Announce, Publish
<1>4. ASSUME NEW k \in Clicks, CancelRefused(k) PROVE OneSocketAtATime'
  BY <1>4 DEF CancelRefused
<1>5. ASSUME NEW w \in Sockets, Accept(w) PROVE OneSocketAtATime'
  BY <1>5 DEF Accept
<1>6. ASSUME NEW w \in Sockets, Subscribe(w) PROVE OneSocketAtATime'
  BY <1>6 DEF Subscribe
<1>7. ASSUME NEW w \in Sockets, Relay(w) PROVE OneSocketAtATime'
  BY <1>7 DEF Relay
<1>8. ASSUME NEW w \in Sockets, Forward(w) PROVE OneSocketAtATime'
  BY <1>8 DEF Forward
<1>9. ASSUME NEW w \in Sockets, StreamEnds(w) PROVE OneSocketAtATime'
  BY <1>9 DEF StreamEnds
<1>10. ASSUME NEW w \in Sockets, SubscribeFails(w) PROVE OneSocketAtATime'
  BY <1>10 DEF SubscribeFails
<1>11. ASSUME NEW w \in Sockets, LoseSubscription(w) PROVE OneSocketAtATime'
  BY <1>11 DEF LoseSubscription
<1>12. ASSUME NEW w \in Sockets, OnOpen(w) PROVE OneSocketAtATime'
  BY <1>12 DEF OnOpen
<1>13. ASSUME NEW w \in Sockets, OnMessage(w) PROVE OneSocketAtATime'
  BY <1>13 DEF OnMessage, Verdict
<1>14. ASSUME NEW w \in Sockets, OnClose(w) PROVE OneSocketAtATime'
  <2>1. sock[w] \notin Closed
    BY <1>14 DEF OnClose
  <2>2. \A v \in Sockets : sock'[v] \in Closed
    BY <1>14, <2>1 DEF OnClose
  <2> QED
    BY <2>2
<1>15. ASSUME NEW w \in Sockets, Cut(w) PROVE OneSocketAtATime'
  BY <1>15 DEF Cut, ScheduleReconnect
<1>16. CASE TimerFires
  <2>1. /\ \A v \in Sockets : sock[v] \in Closed
        /\ ~ timer'
    BY <1>16 DEF TimerFires
  <2>2. CASE sock' = sock
    BY <2>1, <2>2
  <2>3. ASSUME NEW w \in Sockets, sock' = [sock EXCEPT ![w] = "connecting"]
        PROVE  OneSocketAtATime'
    <3>1. \A v \in Sockets \ {w} : sock'[v] \in Closed
      BY <2>1, <2>3
    <3> QED
      BY <2>1, <3>1
  <2> QED
    BY <1>16, <2>2, <2>3 DEF TimerFires
<1>17. CASE InitialRead
  BY <1>17 DEF InitialRead
<1>18. CASE InitialApply
  BY <1>18 DEF InitialApply
<1>19. CASE FetchFails
  BY <1>19 DEF FetchFails
<1>20. ASSUME NEW k \in Clicks, ClickStop(k) PROVE OneSocketAtATime'
  BY <1>20 DEF ClickStop
<1>21. CASE Leave
  BY <1>21 DEF Leave
<1>23. ASSUME NEW k \in Clicks, CancelUnanswered(k) PROVE OneSocketAtATime'
  BY <1>23 DEF CancelUnanswered
<1>22. CASE UNCHANGED vars
  BY <1>22 DEF vars
<1> QED
  BY <1>1, <1>2, <1>3, <1>4, <1>5, <1>6, <1>7, <1>8, <1>9, <1>10, <1>11,
     <1>12, <1>13, <1>14, <1>15, <1>16, <1>17, <1>18, <1>19, <1>20, <1>21,
     <1>22, <1>23 DEF Next, Backend, ServerMove, ServerFault, PageMove, Environment

LEMMA KnownStep == TypeOK /\ VerdictIsKnown /\ [Next]_vars => VerdictIsKnown'
<1> SUFFICES ASSUME TypeOK, VerdictIsKnown, [Next]_vars PROVE VerdictIsKnown'
  OBVIOUS
<1> USE DEF TypeOK, VerdictIsKnown, Final, Task!Final, Rows, serverVars, pageVars
<1>1. CASE StepEvent
  BY <1>1 DEF StepEvent, Publish
<1>2. CASE TaskMove
  BY <1>2 DEF TaskMove
<1>3. CASE Announce
  BY <1>3 DEF Announce, Publish
<1>4. ASSUME NEW k \in Clicks, CancelRefused(k) PROVE VerdictIsKnown'
  BY <1>4 DEF CancelRefused
<1>5. ASSUME NEW w \in Sockets, Accept(w) PROVE VerdictIsKnown'
  BY <1>5 DEF Accept
<1>6. ASSUME NEW w \in Sockets, Subscribe(w) PROVE VerdictIsKnown'
  BY <1>6 DEF Subscribe
<1>7. ASSUME NEW w \in Sockets, Relay(w) PROVE VerdictIsKnown'
  BY <1>7 DEF Relay
<1>8. ASSUME NEW w \in Sockets, Forward(w) PROVE VerdictIsKnown'
  BY <1>8 DEF Forward
<1>9. ASSUME NEW w \in Sockets, StreamEnds(w) PROVE VerdictIsKnown'
  BY <1>9 DEF StreamEnds
<1>10. ASSUME NEW w \in Sockets, SubscribeFails(w) PROVE VerdictIsKnown'
  BY <1>10 DEF SubscribeFails
<1>11. ASSUME NEW w \in Sockets, LoseSubscription(w) PROVE VerdictIsKnown'
  BY <1>11 DEF LoseSubscription
<1>12. ASSUME NEW w \in Sockets, OnOpen(w) PROVE VerdictIsKnown'
  BY <1>12 DEF OnOpen
<1>13. ASSUME NEW w \in Sockets, OnMessage(w) PROVE VerdictIsKnown'
  BY <1>13 DEF OnMessage, Verdict
<1>14. ASSUME NEW w \in Sockets, OnClose(w) PROVE VerdictIsKnown'
  BY <1>14 DEF OnClose, ScheduleReconnect
<1>15. ASSUME NEW w \in Sockets, Cut(w) PROVE VerdictIsKnown'
  BY <1>15 DEF Cut, ScheduleReconnect
<1>16. CASE TimerFires
  BY <1>16 DEF TimerFires
<1>17. CASE InitialRead
  BY <1>17 DEF InitialRead
<1>18. CASE InitialApply
  BY <1>18 DEF InitialApply
<1>19. CASE FetchFails
  BY <1>19 DEF FetchFails
<1>20. ASSUME NEW k \in Clicks, ClickStop(k) PROVE VerdictIsKnown'
  BY <1>20 DEF ClickStop
<1>21. CASE Leave
  BY <1>21 DEF Leave
<1>23. ASSUME NEW k \in Clicks, CancelUnanswered(k) PROVE VerdictIsKnown'
  BY <1>23 DEF CancelUnanswered
<1>22. CASE UNCHANGED vars
  BY <1>22 DEF vars
<1> QED
  BY <1>1, <1>2, <1>3, <1>4, <1>5, <1>6, <1>7, <1>8, <1>9, <1>10, <1>11,
     <1>12, <1>13, <1>14, <1>15, <1>16, <1>17, <1>18, <1>19, <1>20, <1>21,
     <1>22, <1>23 DEF Next, Backend, ServerMove, ServerFault, PageMove, Environment

LEMMA AppendTruthful ==
  ASSUME NEW q \in Seq(Events), NEW e \in Events,
         Truthful(q), e \in Terminal => Truth(Verdict(e))
  PROVE  Truthful(Append(q, e))
BY DEF Truthful

LEMMA TailTruthful ==
  ASSUME NEW q \in Seq(Events), q # <<>>, Truthful(q)
  PROVE  /\ Truthful(Tail(q))
         /\ Head(q) \in Terminal => Truth(Verdict(Head(q)))
BY DEF Truthful

LEMMA EmptyTruthful == Truthful(<<>>)
BY DEF Truthful

\* What is true of a verdict stays true, and what the row says.
LEMMA TruthStays ==
  ASSUME TaskTyped, RowFollows, [Next]_vars, NEW v \in Final, Truth(v)
  PROVE  Truth(v)'
<1> USE DEF TaskTyped, RowFollows, Truth, Final, Task!Final, Task!Unasked
<1>0. /\ result => result'
      /\ row' = "completed" => row = "completed" \/ result'
  BY ResultFollows
<1>1. CASE UNCHANGED taskVars
  BY <1>0, <1>1 DEF taskVars
<1>2. CASE Task!Drop
  BY <1>0, <1>2 DEF Task!Drop
<1>3. CASE Task!Advance \/ Task!Expire \/ Task!StoreExpiry
  BY <1>0, <1>3 DEF Task!Advance, Task!Expire, Task!StoreExpiry
<1>4. CASE \E u \in Task!Final : Task!StoreVerdict(u)
  BY <1>0, <1>4 DEF Task!StoreVerdict
<1>5. CASE \E e : Task!Report(e) \/ Task!ReportExpiry(e)
  BY <1>0, <1>5 DEF Task!Report, Task!ReportExpiry
<1>6. ASSUME NEW r \in Requests, NEW e,
             \/ Task!CancelRead(r) \/ Task!CancelSetError(r)
             \/ Task!CancelMark(r) \/ Task!CancelReport(r, e)
      PROVE  Truth(v)'
  BY <1>0, <1>6 DEF Task!CancelRead, Task!CancelSetError, Task!CancelMark,
     Task!CancelReport, Task!Handle
<1> QED
  BY <1>1, <1>2, <1>3, <1>4, <1>5, <1>6, TaskFrame
     DEF Task!Next, Task!Quiet, Task!Announces

LEMMA RowStep == TaskTyped /\ RowFollows /\ [Next]_vars => RowFollows'
<1> SUFFICES ASSUME TaskTyped, RowFollows, [Next]_vars PROVE RowFollows'
  OBVIOUS
<1> USE DEF TaskTyped, RowFollows, Rows, Final, Task!Final, Task!Unasked
<1>0. /\ result => result'
      /\ row' = "completed" => row = "completed" \/ result'
  BY ResultFollows
<1>1. CASE UNCHANGED taskVars
  BY <1>0, <1>1 DEF taskVars
<1>2. CASE Task!Drop
  BY <1>0, <1>2 DEF Task!Drop
<1>3. CASE Task!Advance \/ Task!Expire \/ Task!StoreExpiry
  BY <1>0, <1>3 DEF Task!Advance, Task!Expire, Task!StoreExpiry
<1>4. CASE \E v \in Task!Final : Task!StoreVerdict(v)
  BY <1>0, <1>4 DEF Task!StoreVerdict
<1>5. CASE \E e : Task!Report(e) \/ Task!ReportExpiry(e)
  BY <1>0, <1>5 DEF Task!Report, Task!ReportExpiry
<1>6. ASSUME NEW r \in Requests, NEW e,
             \/ Task!CancelRead(r) \/ Task!CancelSetError(r)
             \/ Task!CancelMark(r) \/ Task!CancelReport(r, e)
      PROVE  RowFollows'
  BY <1>0, <1>6 DEF Task!CancelRead, Task!CancelSetError, Task!CancelMark,
     Task!CancelReport, Task!Handle
<1> QED
  BY <1>1, <1>2, <1>3, <1>4, <1>5, <1>6, TaskFrame
     DEF Task!Next, Task!Quiet, Task!Announces

LEMMA VerdictFinal == \A e : Verdict(e) \in Final
BY DEF Verdict, Final, Task!Final

LEMMA PublishTruth ==
  ASSUME TypeOK, QueuesTrue, NEW e \in Events, Publish(e),
         e \in Terminal => Truth(Verdict(e))
  PROVE  \A w \in Sockets : Truthful(stream'[w])
<1>1. CASE stream' = [w \in Sockets |-> IF forwarder[w] = "on"
                                          THEN Append(stream[w], e)
                                          ELSE stream[w]]
  <2>1. \A w \in Sockets : stream[w] \in Seq(Events) /\ Truthful(stream[w])
    BY DEF TypeOK, QueuesTrue
  <2>2. \A w \in Sockets : Truthful(Append(stream[w], e))
    BY <2>1, AppendTruthful, Zenon
  <2>3. \A w \in Sockets : stream'[w] \in {Append(stream[w], e), stream[w]}
    BY <1>1
  <2> QED
    BY <2>1, <2>2, <2>3
<1>2. CASE UNCHANGED stream
  BY <1>2 DEF QueuesTrue
<1> QED
  BY <1>1, <1>2 DEF Publish

\* The verdict that is announced is true.
LEMMA AnnouncedIsTrue ==
  ASSUME RowFollows, NEW e \in Terminal, Task!Announces(e)
  PROVE  Truth(Verdict(e))
<1> USE DEF RowFollows, Truth, Verdict, Final, Task!Final, Task!Unasked
<1>1. CASE Task!Report(e)
  BY <1>1 DEF Task!Report
<1>2. CASE Task!ReportExpiry(e)
  BY <1>2 DEF Task!ReportExpiry
<1>3. ASSUME NEW r \in Requests, Task!CancelReport(r, e) PROVE Truth(Verdict(e))
  BY <1>3 DEF Task!CancelReport, Task!Handle
<1> QED
  BY <1>1, <1>2, <1>3 DEF Task!Announces

\* After a step, the queues hold what was true before it.
StillTrue ==
  \A w \in Sockets : Truthful(stream'[w]) /\ Truthful(inbox'[w]) /\ Truthful(wire'[w])

LEMMA SameQueues ==
  ASSUME QueuesTrue, UNCHANGED <<stream, inbox, wire>> PROVE StillTrue
BY DEF QueuesTrue, StillTrue

LEMMA PublishedTrue ==
  ASSUME TypeOK, QueuesTrue, RowFollows, StepEvent \/ Announce PROVE StillTrue
<1>1. \A w \in Sockets : Truthful(stream'[w])
  <2>1. CASE StepEvent
    BY <2>1, PublishTruth, EventNames DEF StepEvent
  <2>2. CASE Announce
    <3>1. PICK e \in Terminal : Task!Announces(e) /\ Publish(e)
      BY <2>2 DEF Announce
    <3>2. e \in Events
      BY DEF Events
    <3> QED
      BY <3>1, <3>2, AnnouncedIsTrue, PublishTruth
  <2> QED
    BY <2>1, <2>2
<1>2. UNCHANGED <<inbox, wire>>
  BY DEF StepEvent, Announce
<1> QED
  BY <1>1, <1>2 DEF QueuesTrue, StillTrue

LEMMA RelayedTrue ==
  ASSUME TypeOK, QueuesTrue, NEW w \in Sockets, Relay(w) PROVE StillTrue
<1>1. /\ stream[w] \in Seq(Events) /\ inbox[w] \in Seq(Events)
      /\ stream[w] # <<>> /\ Truthful(stream[w]) /\ Truthful(inbox[w])
  BY DEF Relay, TypeOK, QueuesTrue
<1>2. /\ Truthful(Append(inbox[w], Head(stream[w])))
      /\ Truthful(Tail(stream[w]))
  BY <1>1, QueueTypes, TailTruthful, AppendTruthful, Zenon
<1>3. \A v \in Sockets :
        /\ \/ stream'[v] = stream[v] \/ stream'[v] = <<>>
           \/ v = w /\ stream'[v] = Tail(stream[w])
        /\ \/ inbox'[v] = inbox[v]
           \/ v = w /\ inbox'[v] = Append(inbox[w], Head(stream[w]))
        /\ wire'[v] = wire[v]
  BY DEF Relay, TypeOK
<1> QED
  BY <1>2, <1>3, EmptyTruthful DEF QueuesTrue, StillTrue

LEMMA ForwardedTrue ==
  ASSUME TypeOK, QueuesTrue, NEW w \in Sockets, Forward(w) PROVE StillTrue
<1>1. /\ wire[w] \in Seq(Events) /\ inbox[w] \in Seq(Events)
      /\ inbox[w] # <<>> /\ Truthful(wire[w]) /\ Truthful(inbox[w])
  BY DEF Forward, TypeOK, QueuesTrue
<1>2. /\ Truthful(Append(wire[w], Head(inbox[w])))
      /\ Truthful(Tail(inbox[w]))
  BY <1>1, QueueTypes, TailTruthful, AppendTruthful, Zenon
<1>3. \A v \in Sockets :
        /\ \/ inbox'[v] = inbox[v] \/ inbox'[v] = <<>>
           \/ v = w /\ inbox'[v] = Tail(inbox[w])
        /\ \/ wire'[v] = wire[v]
           \/ v = w /\ wire'[v] = Append(wire[w], Head(inbox[w]))
        /\ stream'[v] = stream[v]
  BY DEF Forward, TypeOK
<1> QED
  BY <1>2, <1>3, EmptyTruthful DEF QueuesTrue, StillTrue

LEMMA QueuesStayTrue ==
  ASSUME TypeOK, QueuesTrue, RowFollows, [Next]_vars PROVE StillTrue
<1>1. CASE StepEvent \/ Announce
  BY <1>1, PublishedTrue
<1>2. ASSUME NEW w \in Sockets, Relay(w) PROVE StillTrue
  BY <1>2, RelayedTrue
<1>3. ASSUME NEW w \in Sockets, Forward(w) PROVE StillTrue
  BY <1>3, ForwardedTrue
<1>4. ASSUME NEW w \in Sockets, LoseSubscription(w) PROVE StillTrue
  BY <1>4, EmptyTruthful DEF LoseSubscription, TypeOK, QueuesTrue, StillTrue
<1>5. ASSUME NEW w \in Sockets, OnMessage(w) PROVE StillTrue
  <2>1. Truthful(Tail(wire[w]))
    BY <1>5, TailTruthful DEF OnMessage, TypeOK, QueuesTrue
  <2> QED
    BY <1>5, <2>1 DEF OnMessage, TypeOK, QueuesTrue, StillTrue, serverVars
<1>6. ASSUME NEW w \in Sockets, OnClose(w) \/ Cut(w) PROVE StillTrue
  <2>1. wire' = [wire EXCEPT ![w] = <<>>] /\ UNCHANGED <<stream, inbox>>
    BY <1>6, Zenon DEF OnClose, Cut, serverVars
  <2>2. wire \in [Sockets -> Seq(Events)]
    BY Zenon DEF TypeOK
  <2> QED
    BY <2>1, <2>2, EmptyTruthful DEF QueuesTrue, StillTrue
<1>7. CASE UNCHANGED <<stream, inbox, wire>>
  BY <1>7, SameQueues
<1> QED
  BY <1>1, <1>2, <1>3, <1>4, <1>5, <1>6, <1>7, Zenon
     DEF Next, Backend, ServerMove, ServerFault, PageMove, Environment, TaskMove,
     CancelRefused, CancelUnanswered,
       Accept, Subscribe, StreamEnds, SubscribeFails, OnOpen,
     TimerFires, InitialRead, InitialApply, FetchFails, ClickStop, Leave,
     serverVars, vars

\* After a step, the answer and the page have what was true before it.
LEMMA PageStaysTrue ==
  ASSUME TypeOK, VerdictsAreTrue, RowFollows, [Next]_vars
  PROVE  /\ initial' \in Final => Truth(initial')
         /\ status' \in Final => Truth(status')
<1>1. CASE InitialRead
  <2>1. initial' = row /\ status' = status
    BY <1>1 DEF InitialRead, pageVars
  <2>2. Truth(row)
    BY DEF RowFollows, Truth
  <2> QED
    BY <2>1, <2>2 DEF VerdictsAreTrue
<1>2. CASE InitialApply
  BY <1>2 DEF InitialApply, VerdictsAreTrue, Final, Task!Final
<1>3. CASE FetchFails
  BY <1>3 DEF FetchFails, VerdictsAreTrue, Final, Task!Final, pageVars
<1>4. ASSUME NEW w \in Sockets, OnMessage(w)
      PROVE  /\ initial' \in Final => Truth(initial')
             /\ status' \in Final => Truth(status')
  <2>1. Head(wire[w]) \in Terminal => Truth(Verdict(Head(wire[w])))
    BY <1>4, TailTruthful DEF OnMessage, TypeOK, VerdictsAreTrue, QueuesTrue
  <2> QED
    BY <1>4, <2>1 DEF OnMessage, VerdictsAreTrue
<1>5. ASSUME NEW w \in Sockets, OnOpen(w) \/ OnClose(w) \/ Cut(w)
      PROVE  /\ initial' \in Final => Truth(initial')
             /\ status' \in Final => Truth(status')
  BY <1>5 DEF OnOpen, OnClose, Cut, ScheduleReconnect, VerdictsAreTrue, Final,
     Task!Final
<1>6. CASE UNCHANGED <<initial, status>>
  BY <1>6 DEF VerdictsAreTrue
<1> QED
  BY <1>1, <1>2, <1>3, <1>4, <1>5, <1>6, Zenon
     DEF Next, Backend, ServerMove, ServerFault, PageMove, Environment, StepEvent,
     TaskMove, Announce, CancelRefused, CancelUnanswered,
       Accept, Subscribe, Relay, Forward,
     StreamEnds, SubscribeFails, LoseSubscription, TimerFires, ClickStop, Leave,
     pageVars, vars

LEMMA TruthStep ==
  TypeOK /\ VerdictsAreTrue /\ RowFollows /\ [Next]_vars => VerdictsAreTrue'
<1> SUFFICES ASSUME TypeOK, VerdictsAreTrue, RowFollows, [Next]_vars
             PROVE  VerdictsAreTrue'
  OBVIOUS
<1>1. \A v \in Final : Truth(v) => Truth(v)'
  BY TypeParts, TruthStays
<1>2. StillTrue
  BY QueuesStayTrue DEF VerdictsAreTrue
<1>3. ASSUME NEW q, Truthful(q), NEW k \in 1 .. Len(q), q[k] \in Terminal
      PROVE  Truth(Verdict(q[k]))'
  BY <1>1, <1>3, VerdictFinal DEF Truthful
<1>4. QueuesTrue'
  <2> SUFFICES ASSUME NEW w \in Sockets
               PROVE  Truthful(stream[w])' /\ Truthful(inbox[w])' /\ Truthful(wire[w])'
    BY DEF QueuesTrue
  <2> QED
    BY <1>2, <1>3 DEF StillTrue, Truthful
<1>5. /\ initial' \in Final => Truth(initial)'
      /\ status' \in Final => Truth(status)'
  BY <1>1, PageStaysTrue
<1> QED
  BY <1>4, <1>5 DEF VerdictsAreTrue, Final, Task!Final

-----------------------------------------------------------------------------

LEMMA InitHolds == Init => IInv
<1> SUFFICES ASSUME Init PROVE IInv
  OBVIOUS
<1> USE DEF Init
<1>1. TypeOK
  <2>1. QueuesTyped
    BY QueueTypes, Zenon DEF QueuesTyped
  <2>2. TaskTyped /\ timedOut \in BOOLEAN /\ result \in BOOLEAN
    BY DEF TaskTyped, Rows, Final, Task!Final, Task!Init
  <2>3. ControlTyped
    BY DEF ControlTyped, Rows, Final, Task!Final, Closed
  <2>4. FlagsTyped
    BY Zenon DEF FlagsTyped
  <2> QED
    BY <2>1, <2>2, <2>3, <2>4, TypeParts, Zenon
<1>2. OneSocketAtATime
  BY DEF OneSocketAtATime, Closed
<1>3. VerdictsAreTrue /\ RowFollows
  BY DEF VerdictsAreTrue, QueuesTrue, Truthful, RowFollows, Final, Task!Final,
     Task!Init
<1>4. VerdictIsKnown
  BY DEF VerdictIsKnown, Final, Task!Final
<1> QED
  BY <1>1, <1>2, <1>3, <1>4 DEF IInv

\* The inductive invariant.
THEOREM InvariantHolds == Spec => []IInv
<1>1. Init => IInv
  BY InitHolds
<1>2. IInv /\ [Next]_vars => IInv'
  <2>1. TypeOK => TaskTyped /\ ControlTyped
    BY TypeParts
  <2> QED
    BY <2>1, TypeStep, SocketStep, KnownStep, RowStep, TruthStep DEF IInv
<1> QED
  BY <1>1, <1>2, PTL DEF Spec

\* Type correctness.
THEOREM TypeCorrect == Spec => []TypeOK
<1>1. IInv => TypeOK
  BY DEF IInv
<1> QED
  BY <1>1, InvariantHolds, PTL

\* The page shows no verdict but one the task has had, and completed only what
\* is executed.
THEOREM ShownIsTrue == Spec => []VerdictShownIsTrue
<1>1. IInv => VerdictShownIsTrue
  BY DEF IInv, VerdictsAreTrue, Truth, VerdictShownIsTrue
<1> QED
  BY <1>1, InvariantHolds, PTL

\* The page never has two sockets.
THEOREM OneSocket == Spec => []OneSocketAtATime
<1>1. IInv => OneSocketAtATime
  BY DEF IInv
<1> QED
  BY <1>1, InvariantHolds, PTL

\* The verdict the page shows is taken back by nothing but a socket that opens.
THEOREM ShownVerdictStays == Spec => VerdictStays
<1>1. IInv /\ [Next]_vars =>
        [(status \in Final /\ status' \notin Final) =>
           \E w \in Sockets : sock[w] = "connecting" /\ sock'[w] = "open"]_vars
  <2> SUFFICES ASSUME IInv, [Next]_vars, status \in Final, status' \notin Final
               PROVE  \E w \in Sockets : sock[w] = "connecting" /\ sock'[w] = "open"
    OBVIOUS
  <2>1. terminal
    BY DEF IInv, VerdictIsKnown
  <2>2. PICK w \in Sockets : OnOpen(w)
    BY <2>1 DEF Next, Backend, ServerMove, ServerFault, PageMove, Environment,
       StepEvent, TaskMove, Announce, CancelRefused, CancelUnanswered,
       Accept, Subscribe, Relay, Forward, StreamEnds, SubscribeFails,
       LoseSubscription, OnMessage, Verdict, Final, Task!Final, OnClose, Cut, ScheduleReconnect,
       TimerFires, InitialRead, InitialApply, FetchFails, ClickStop, Leave,
       taskVars, serverVars, pageVars, vars
  <2> QED
    BY <2>2 DEF OnOpen, IInv, TypeOK
<1> QED
  BY <1>1, InvariantHolds, PTL DEF Spec, VerdictStays

=============================================================================
