--------------------------- MODULE FindingLifecycle ---------------------------
(***************************************************************************)
(* What the service promises of one finding case, with no requests and no  *)
(* versions: a person decides whether the finding stands; a case that      *)
(* stands is worked on and verified again, each time by a verification of  *)
(* its own; it closes only with the sealed result of the verification it   *)
(* is waiting for; closed and dismissed are final.                         *)
(***************************************************************************)
CONSTANTS
  Cases,       \* finding cases
  Jobs,        \* verifications
  NoJob        \* no verification

VARIABLES
  stage,       \* where each case stands
  verifier,    \* the verification a case is waiting for
  used,        \* verifications that have served a case
  closure      \* the sealed verification that closed a case

vars == <<stage, verifier, used, closure>>

Init ==
  /\ stage = [c \in Cases |-> "absent"]
  /\ verifier = [c \in Cases |-> NoJob]
  /\ used = {}
  /\ closure = [c \in Cases |-> NoJob]

\* several findings of one result may appear together, and the findings of a
\* rejected result are dismissed together
Move(from, to) ==
  /\ \E some \in SUBSET {c \in Cases : stage[c] \in from} :
       /\ some # {}
       /\ stage' = [c \in Cases |-> IF c \in some THEN to ELSE stage[c]]
  /\ UNCHANGED <<verifier, used, closure>>

Report == Move({"absent"}, "pending_triage")
Confirm == Move({"pending_triage"}, "open")
Dismiss == Move({"pending_triage", "open"}, "dismissed")
Begin == Move({"open"}, "remediation_in_progress")

Verify(c, j) ==
  /\ stage[c] = "remediation_in_progress"
  /\ j \notin used
  /\ stage' = [stage EXCEPT ![c] = "verification_pending"]
  /\ verifier' = [verifier EXCEPT ![c] = j]
  /\ used' = used \cup {j}
  /\ UNCHANGED closure

\* the verification was rejected, or sealed without resolving the finding;
\* findings of its own may be dismissed with it
GoOn(c) ==
  /\ stage[c] = "verification_pending"
  /\ \E gone \in SUBSET {d \in Cases : stage[d] \in {"pending_triage", "open"}} :
       stage' = [d \in Cases |-> IF d = c THEN "remediation_in_progress"
                                 ELSE IF d \in gone THEN "dismissed" ELSE stage[d]]
  /\ verifier' = [verifier EXCEPT ![c] = NoJob]
  /\ UNCHANGED <<used, closure>>

Close(c) ==
  /\ stage[c] = "verification_pending"
  /\ stage' = [stage EXCEPT ![c] = "closed"]
  /\ closure' = [closure EXCEPT ![c] = verifier[c]]
  /\ verifier' = [verifier EXCEPT ![c] = NoJob]
  /\ UNCHANGED used

Next ==
  \/ Report \/ Confirm \/ Dismiss \/ Begin
  \/ \E c \in Cases : GoOn(c) \/ Close(c) \/ \E j \in Jobs : Verify(c, j)

Spec == Init /\ [][Next]_vars
=============================================================================
