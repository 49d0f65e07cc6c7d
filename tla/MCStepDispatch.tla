--------------------------- MODULE MCStepDispatch ---------------------------
(* StepDispatch for TLC: the plans to execute.                             *)
EXTENDS StepDispatch

Plan1(a) == [i \in 0 .. 0 |-> a]
Plan2(a, b) == [i \in 0 .. 1 |-> IF i = 0 THEN a ELSE b]
Plan3(a, b, c) == [i \in 0 .. 2 |-> IF i = 0 THEN a ELSE IF i = 1 THEN b ELSE c]

EmptyPlan == [i \in {} |-> {}]

\* A chain, a fork, a join, a step beside a chain (three steps at once are left
\* to the proofs).
AcyclicPlans ==
  {EmptyPlan, Plan1({}), Plan2({}, {0}),
   Plan3({}, {0}, {1}), Plan3({}, {0}, {0}), Plan3({}, {}, {0, 1}),
   Plan3({}, {}, {0})}

\* A step waiting for itself, two for each other, one for no step of the plan.
OddPlans ==
  {Plan1({0}), Plan2({1}, {0}), Plan2({}, {5}), Plan3({}, {0, 2}, {1})}

SomePlans == AcyclicPlans \cup OddPlans
=============================================================================
