---------------------------- MODULE MCUserMemory ----------------------------
EXTENDS UserMemory, TLC

CONSTANTS k1, k2, k3

\* One item, two, and one without a key before another.
MCLearnings == {<<>>, <<k1>>, <<k2, k1>>, <<None, k3>>}

Symmetry == Permutations(Accounts) \cup Permutations(Callbacks)
              \cup Permutations(Requests)

=============================================================================
