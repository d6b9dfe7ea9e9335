------------------------- MODULE MCVerificationLease -------------------------
(* Instances of VerificationLease for TLC.                                  *)
EXTENDS VerificationLease

CONSTANTS w1, w2, shared

\* two processes with names of their own
OwnNames == [w \in Workers |-> w]

\* two processes started with the same --worker-id
SharedName == [w \in Workers |-> shared]
=============================================================================
