------------------------ MODULE VerificationLifecycle ------------------------
(***************************************************************************)
(* What the verification service promises of one job, with no leases, no   *)
(* workers and no files: a bounded number of attempts, one of which (the   *)
(* last) may deliver a result; a delivered result is reviewed once; an     *)
(* approval is reached only through a seal; a closed failure stays closed. *)
(***************************************************************************)
EXTENDS Naturals

CONSTANTS
  Jobs,        \* verification jobs
  Budget,      \* attempts a job may have
  Inherited    \* jobs that may be found running at the start

VARIABLES
  state,       \* where each job stands
  spent,       \* attempts begun
  delivered,   \* the attempt whose result the job holds, 0 if none
  closed       \* a failure that no attempt may follow

vars == <<state, spent, delivered, closed>>

States == {"absent", "queued", "running", "needs_review", "sealing",
           "approved", "rejected", "failed"}

Init ==
  /\ state \in [Jobs -> {"absent", "running"}]
  /\ \A j \in Jobs : state[j] = "running" => j \in Inherited
  /\ spent = [j \in Jobs |-> 0]
  /\ delivered = [j \in Jobs |-> 0]
  /\ closed = [j \in Jobs |-> FALSE]

Move(j, from, to) ==
  /\ state[j] = from
  /\ state' = [state EXCEPT ![j] = to]

Submit(j) ==
  /\ Move(j, "absent", "queued")
  /\ UNCHANGED <<spent, delivered, closed>>

Begin(j) ==
  /\ spent[j] < Budget
  /\ Move(j, "queued", "running")
  /\ spent' = [spent EXCEPT ![j] = @ + 1]
  /\ UNCHANGED <<delivered, closed>>

\* only the attempt begun last delivers
Deliver(j) ==
  /\ Move(j, "running", "needs_review")
  /\ delivered' = [delivered EXCEPT ![j] = spent[j]]
  /\ UNCHANGED <<spent, closed>>

\* an attempt is given up and another may begin
GiveBack(j) ==
  /\ spent[j] < Budget
  /\ Move(j, "running", "queued")
  /\ UNCHANGED <<spent, delivered, closed>>

Fail(j, final) ==
  /\ Move(j, "running", "failed")
  /\ closed' = [closed EXCEPT ![j] = final]
  /\ UNCHANGED <<spent, delivered>>

Reopen(j) ==
  /\ ~closed[j]
  /\ spent[j] < Budget
  /\ Move(j, "failed", "queued")
  /\ UNCHANGED <<spent, delivered, closed>>

Review(j) ==
  /\ \/ Move(j, "needs_review", "sealing")
     \/ Move(j, "needs_review", "rejected")
  /\ UNCHANGED <<spent, delivered, closed>>

Approve(j) ==
  /\ Move(j, "sealing", "approved")
  /\ UNCHANGED <<spent, delivered, closed>>

Next ==
  \E j \in Jobs :
    \/ Submit(j) \/ Begin(j) \/ Deliver(j) \/ GiveBack(j)
    \/ \E final \in BOOLEAN : Fail(j, final)
    \/ Reopen(j) \/ Review(j) \/ Approve(j)

Spec == Init /\ [][Next]_vars
=============================================================================
