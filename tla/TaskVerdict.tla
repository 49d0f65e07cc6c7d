----------------------------- MODULE TaskVerdict -----------------------------
(***************************************************************************)
(* What the backend promises of one task to those who read its row and     *)
(* hear its events: however often it is queued, and whatever fails, it is  *)
(* executed once; its execution stores at most one verdict before it       *)
(* announces that; besides, only the 30 minute timer and the requests that *)
(* cancel the task write its row, each in its own order.                   *)
(***************************************************************************)
CONSTANT Requests  \* to cancel the task

VARIABLES
  row,        \* tasks.status, "open" until it is final
  timedOut,   \* tasks.error is that of the timer
  execution,  \* "working", then the verdict it has stored, "sent" and "over";
              \* or "expired", and "judged" when the timer's verdict is stored
  cancel      \* where each request is

vars == <<row, timedOut, execution, cancel>>

Final == {"completed", "failed"}

Terminal == {"task_completed", "task_failed", "task_cancelled"}

Init ==
  /\ row = "open"
  /\ timedOut = FALSE
  /\ execution = "working"
  /\ cancel = [r \in Requests |-> "idle"]

-----------------------------------------------------------------------------
(* The execution.                                                          *)

\* It writes that it has come so far, whatever the row says.
Advance ==
  /\ execution = "working"
  /\ row' = "open"
  /\ UNCHANGED <<timedOut, execution, cancel>>

\* Mutant: the verdict is announced before it is stored.
StoreVerdict_late(v) ==
  /\ execution = "working"
  /\ execution' = v
  /\ UNCHANGED <<row, timedOut, cancel>>

\* set_task_result or set_task_error, whatever the row says.
StoreVerdict(v) ==
  /\ execution = "working"
  /\ execution' = v
  /\ row' = v
  /\ timedOut' = (timedOut /\ v = "completed")
  /\ UNCHANGED cancel

Report(e) ==
  /\ \/ execution = "completed" /\ e = "task_completed"
     \/ execution = "failed" /\ e = "task_failed"
  /\ execution' = "sent"
  /\ UNCHANGED <<row, timedOut, cancel>>

\* It returns, having reported or not, or is lost with its instance; so are
\* the handlers of some requests.
Drop ==
  /\ execution' \in {execution, "over"}
  /\ \E lost \in SUBSET {r \in Requests : cancel[r] # "idle"} :
       cancel' = [r \in Requests |-> IF r \in lost THEN "lost" ELSE cancel[r]]
  /\ UNCHANGED <<row, timedOut>>

\* The timer drops it where it is, even if its verdict is stored and sent.
Expire ==
  /\ execution \in {"working", "sent"} \cup Final
  /\ execution' = "expired"
  /\ UNCHANGED <<row, timedOut, cancel>>

StoreExpiry ==
  /\ execution = "expired"
  /\ execution' = "judged"
  /\ row' = "failed"
  /\ timedOut' = TRUE
  /\ UNCHANGED cancel

ReportExpiry(e) ==
  /\ execution = "judged" /\ e = "task_failed"
  /\ execution' = "over"
  /\ row' = "failed"
  /\ UNCHANGED <<timedOut, cancel>>

-----------------------------------------------------------------------------
(* A request to cancel the task.                                           *)

Handle(r, from, to) ==
  /\ cancel[r] = from
  /\ cancel' = [cancel EXCEPT ![r] = to]
  /\ UNCHANGED execution

CancelRead(r) ==
  /\ Handle(r, "idle", "read")
  /\ row = "open"
  /\ UNCHANGED <<row, timedOut>>

CancelSetError(r) ==
  /\ Handle(r, "read", "set")
  /\ row' = "failed"
  /\ timedOut' = FALSE

CancelMark(r) ==
  /\ Handle(r, "set", "marked")
  /\ row' = "failed"
  /\ UNCHANGED timedOut

CancelReport(r, e) ==
  /\ Handle(r, "marked", "done")
  /\ e = "task_cancelled"
  /\ UNCHANGED <<row, timedOut>>

-----------------------------------------------------------------------------

\* The steps that publish nothing, and those that publish a terminal event.
Quiet ==
  \/ Advance \/ Expire \/ StoreExpiry \/ Drop
  \/ \E v \in Final : StoreVerdict(v)
  \/ \E r \in Requests : CancelRead(r) \/ CancelSetError(r) \/ CancelMark(r)

Announces(e) ==
  \/ Report(e) \/ ReportExpiry(e)
  \/ \E r \in Requests : CancelReport(r, e)

Next == Quiet \/ \E e \in Terminal : Announces(e)

Spec == Init /\ [][Next]_vars

\* Nobody has asked for a cancellation.
Unasked == \A r \in Requests : cancel[r] = "idle"

=============================================================================
