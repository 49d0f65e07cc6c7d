--------------------------- MODULE MCSandboxPool ---------------------------
(* SandboxPool for TLC; containers, users and jobs are interchangeable.    *)
EXTENDS SandboxPool, TLC

Symmetry == Permutations(Containers) \cup Permutations(Users)
              \cup Permutations(Jobs)
=============================================================================
