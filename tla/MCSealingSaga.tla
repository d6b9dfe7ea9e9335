---------------------------- MODULE MCSealingSaga ----------------------------
(* Instances of SealingSaga for TLC.                                        *)
EXTENDS SealingSaga

CONSTANTS j1, j2, s1, s2
=============================================================================
