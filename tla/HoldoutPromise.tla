--------------------------- MODULE HoldoutPromise ---------------------------
(***************************************************************************)
(* What the holdout registry promises of each holdout (a dataset and one   *)
(* of its two held-out splits), whatever attempts were made on it: it is   *)
(* exposed once at most, and only a gate holdout whose claim was withdrawn *)
(* before any exposure may be claimed again.                               *)
(***************************************************************************)
CONSTANTS Holdouts, Gates   \* all of them, and those of the gate split

VARIABLE phase

Phases == {"available", "claimed", "exposed", "consumed", "withdrawn", "locked"}

Init == phase = [h \in Holdouts |-> "available"]

Move(h, from, to) == phase[h] \in from /\ phase' = [phase EXCEPT ![h] = to]

Claim(h) == Move(h, {"available"}, "claimed")
Expose(h) == Move(h, {"claimed"}, "exposed")
Consume(h) == Move(h, {"exposed"}, "consumed")
Lock(h) == Move(h, {"claimed", "exposed"}, "locked")
Withdraw(h) == h \in Gates /\ Move(h, {"claimed"}, "withdrawn")
Reclaim(h) == h \in Gates /\ Move(h, {"withdrawn"}, "claimed")

Next ==
    \E h \in Holdouts :
        Claim(h) \/ Expose(h) \/ Consume(h) \/ Lock(h) \/ Withdraw(h) \/ Reclaim(h)

Spec == Init /\ [][Next]_phase
=============================================================================
