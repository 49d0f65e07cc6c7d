-------------------------- MODULE MCTaskLifecycle --------------------------
(* TaskLifecycle for TLC.  Instances are interchangeable; so are tasks and *)
(* requests, where no liveness property is checked.                        *)
EXTENDS TaskLifecycle, TLC

Symmetry == Permutations(Instances) \cup Permutations(Tasks)
              \cup Permutations(Requests)
=============================================================================
