------------------------- MODULE MCHoldoutRegistry -------------------------
EXTENDS HoldoutRegistry, TLC

\* Identities are only ever compared with each other.
Alike == Permutations(Runs) \cup Permutations(Brokers) \cup Permutations(ApprovalIds)
             \cup Permutations(Attempts)
=============================================================================
