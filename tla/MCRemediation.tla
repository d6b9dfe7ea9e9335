---------------------------- MODULE MCRemediation ----------------------------
(***************************************************************************)
(* An instance of Remediation for TLC.                                       *)
(***************************************************************************)
EXTENDS Remediation, TLC

CONSTANTS j1, j2, c1   \* two jobs and a finding of the first

\* the others are found by a re-verification of the first
OneAfterOther == [c \in Cases |-> IF c = c1 THEN j1 ELSE j2]

Interchangeable == Permutations(Requests)
=============================================================================
