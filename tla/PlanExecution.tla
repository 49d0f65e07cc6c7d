---------------------------- MODULE PlanExecution ----------------------------
(***************************************************************************)
(* What executing a plan promises, without futures, containers or rows:    *)
(* every step is settled at most once, a step runs only after all its      *)
(* dependencies are done, a step is given up without having been run only  *)
(* when nothing else can run, and the verdict on the plan is reached over  *)
(* its settled steps.  A sandbox error or a panic breaks the batch being    *)
(* run, after which nothing more is promised.                              *)
(***************************************************************************)
EXTENDS FiniteSets

CONSTANT Plans

VARIABLES
  deps,     \* the plan: each step's dependencies
  status,   \* of each step: waiting, running, done or failed, or unknown
  outcome   \* "none" while the plan is being executed, then its verdict

vars == <<deps, status, outcome>>

Steps == DOMAIN deps

With(s) == {i \in Steps : status[i] = s}

Runnable == {i \in With("waiting") : deps[i] \subseteq With("done")}

Init ==
  /\ deps \in Plans
  /\ status = [i \in Steps |-> "waiting"]
  /\ outcome = "none"

\* All the steps that can run start together, nothing else running.
StartBatch ==
  /\ outcome = "none"
  /\ With("running") = {}
  /\ Runnable # {}
  /\ status' = [i \in Steps |-> IF i \in Runnable THEN "running" ELSE status[i]]
  /\ UNCHANGED <<deps, outcome>>

Settle(i) ==
  /\ outcome = "none"
  /\ status[i] = "running"
  /\ \E s \in {"done", "failed"} : status' = [status EXCEPT ![i] = s]
  /\ UNCHANGED <<deps, outcome>>

\* Nothing runs and nothing can: what waits will never run.
GiveUpWaiting ==
  /\ outcome = "none"
  /\ With("running") = {} /\ Runnable = {} /\ With("waiting") # {}
  /\ status' = [i \in Steps |-> IF status[i] = "waiting" THEN "failed"
                                                         ELSE status[i]]
  /\ UNCHANGED <<deps, outcome>>

\* The batch breaks: what becomes of the steps is no longer told.
Break ==
  /\ outcome = "none"
  /\ With("running") # {}
  /\ status' = [i \in Steps |-> "unknown"]
  /\ outcome' = "broken"
  /\ UNCHANGED deps

\* The verdict, over a plan all of whose steps are settled.
Judge ==
  /\ outcome = "none"
  /\ With("running") = {} /\ With("waiting") = {}
  /\ outcome' = IF With("done") = {} THEN "allFailed" ELSE "synthesize"
  /\ UNCHANGED <<deps, status>>

\* A cancelled execution stops between two batches.
StopCancelled ==
  /\ outcome = "none" /\ With("running") = {}
  /\ outcome' = "cancelled"
  /\ UNCHANGED <<deps, status>>

\* One out of time stops anywhere.
TimeOut ==
  /\ outcome = "none"
  /\ outcome' = "timedOut"
  /\ UNCHANGED <<deps, status>>

Next ==
  \/ StartBatch
  \/ \E i \in Steps : Settle(i)
  \/ GiveUpWaiting
  \/ Break
  \/ Judge
  \/ StopCancelled
  \/ TimeOut

Spec == Init /\ [][Next]_vars
=============================================================================
