--------------------------- MODULE HoldoutRegistry ---------------------------
(***************************************************************************)
(* The holdout registry (evaluation/registry.py): a SQLite file in which   *)
(* every evaluation attempt on a held-out split is reserved, exposed and   *)
(* finalised, or locked as an incident.  Each call is one transaction      *)
(* under the write lock, so each is one action; a call that is refused     *)
(* rolls back and changes nothing.  Callers are command lines of their     *)
(* own: any of them may make any call at any time, may die after any       *)
(* commit, and may lose its answer.  There is no lease and no recovery.    *)
(***************************************************************************)
EXTENDS Naturals, Sequences, FiniteSets

CONSTANTS
    Datasets,        \* digests of frozen dataset manifests
    Attempts,        \* attempt ids
    Runs,            \* run ids; a capability id is treated as its run's
    ApprovalIds,
    Digests,         \* what an approval says beyond the fields below
    Results,         \* digests of result bundles
    Brokers,         \* callers that release a holdout's inputs
    MaxGeneration    \* bound on policy_generation

ASSUME RegistryAssumption == MaxGeneration \in Nat

Splits == {"gate_holdout", "final_holdout"}
Holdouts == Datasets \X Splits
Gates == Datasets \X {"gate_holdout"}

VARIABLES
    file,       \* the registry: "absent", "empty" or "ready" (it has its tables)
    private,    \* the file and its directory are this user's alone, and no links
    row,        \* holdout_attempts
    auth,       \* incident_authorizations, by approval
    events,     \* holdout_events, by attempt
    receipts,   \* <<broker, attempt>>: told that the exposure is committed
    released    \* <<broker, attempt>>: the inputs were then handed out

vars == <<file, private, row, auth, events, receipts, released>>

States == {"absent", "reserved", "exposure_committed", "consumed", "incident_review"}

NoRow == [state |-> "absent", holdout |-> {}, generation |-> 0, run |-> {}, approval |-> {},
          exposed |-> FALSE, result |-> {}]

\* A request or an incident carries one.  An approval of an incident, and no
\* other, names the attempt it is about.
Approvals ==
    [id : ApprovalIds, digest : Digests, holdout : Holdouts, generation : 0 .. MaxGeneration,
     kind : {"initial_release"}, about : {{}}]
    \cup [id : ApprovalIds, digest : Digests, holdout : Holdouts, generation : 0 .. MaxGeneration,
          kind : {"incident_lock", "incident_retry"}, about : {{a} : a \in Attempts}]

Init ==
    /\ file = "absent"
    /\ private = TRUE
    /\ row = [a \in Attempts |-> NoRow]
    /\ auth = [id \in ApprovalIds |-> {}]
    /\ events = [a \in Attempts |-> <<>>]
    /\ receipts = {}
    /\ released = {}

-----------------------------------------------------------------------------
\* Someone else changes the permissions of the directory, or puts them right.
ChangeMode ==
    /\ private' = ~private
    /\ UNCHANGED <<file, row, auth, events, receipts, released>>

\* Only a reservation makes the file; it may die before it has made the tables.
CreateFile ==
    /\ private
    /\ file = "absent"
    /\ file' = "empty"
    /\ UNCHANGED <<private, row, auth, events, receipts, released>>

\* BEGIN IMMEDIATE, the tables if there are none yet, and COMMIT.
Transaction ==
    /\ private
    /\ file # "absent"
    /\ file' = "ready"
    /\ UNCHANGED private

\* get and list write nothing but the tables.
Inspect ==
    /\ Transaction
    /\ UNCHANGED <<row, auth, events, receipts, released>>

-----------------------------------------------------------------------------
On(holdout) == {a \in Attempts : row[a].holdout = {holdout}}
Latest(holdout) ==
    {a \in On(holdout) : \A b \in On(holdout) : row[b].generation <= row[a].generation}

Append1(a, type) == events' = [events EXCEPT ![a] = Append(@, type)]

\* The authorisation as it was persisted, before anyone used it.
Authorisation(approval) ==
    [digest |-> approval.digest, holdout |-> approval.holdout,
     generation |-> approval.generation, about |-> approval.about, used |-> {}]

(* Mutant: the approval is believed, whether or not it was persisted. *)
MayRetryUnpersisted(approval) ==
    /\ approval.holdout \in Gates
    /\ approval.kind = "incident_retry"
    /\ \E latest \in Latest(approval.holdout) :
           /\ row[latest].state = "incident_review"
           /\ approval.about = {latest}
           /\ approval.generation = row[latest].generation + 1

MayRetry(approval) ==
    /\ approval.holdout \in Gates
    /\ approval.kind = "incident_retry"
    /\ \E latest \in Latest(approval.holdout) :
           /\ row[latest].state = "incident_review"
           /\ approval.about = {latest}
           /\ approval.generation = row[latest].generation + 1
           /\ auth[approval.id] = {Authorisation(approval)}

\* The first attempt on a holdout may start at any generation.  The ids of
\* attempt, run and approval are unique in the table.
Reserve(a, run, approval) ==
    /\ Transaction
    /\ IF On(approval.holdout) = {} THEN approval.kind = "initial_release" ELSE MayRetry(approval)
    /\ row[a].state = "absent"
    /\ \A b \in Attempts : run \notin row[b].run /\ approval.id \notin row[b].approval
    /\ row' = [row EXCEPT ![a] = [NoRow EXCEPT
                  !.state = "reserved", !.holdout = {approval.holdout},
                  !.generation = approval.generation, !.run = {run}, !.approval = {approval.id}]]
    /\ auth' = IF approval.kind = "incident_retry"
               THEN [auth EXCEPT ![approval.id] = {[u EXCEPT !.used = {a}] : u \in @}]
               ELSE auth
    /\ Append1(a, "reserved")
    /\ UNCHANGED <<receipts, released>>

\* The answer may be lost with its caller: the attempt is exposed all the same.
CommitExposure(broker, a) ==
    /\ Transaction
    /\ row[a].state = "reserved"
    /\ row' = [row EXCEPT ![a].state = "exposure_committed", ![a].exposed = TRUE]
    /\ Append1(a, "exposure_committed")
    /\ \/ receipts' = receipts \cup {<<broker, a>>}
       \/ UNCHANGED receipts
    /\ UNCHANGED <<auth, released>>

\* Only who was told so hands the inputs out, and only then.
Release(broker, a) ==
    /\ <<broker, a>> \in receipts
    /\ receipts' = receipts \ {<<broker, a>>}
    /\ released' = released \cup {<<broker, a>>}
    /\ UNCHANGED <<file, private, row, auth, events>>

Finalize(a, result) ==
    /\ Transaction
    /\ row[a].state = "exposure_committed"
    /\ row' = [row EXCEPT ![a].state = "consumed", ![a].result = {result}]
    /\ Append1(a, "consumed")
    /\ UNCHANGED <<auth, receipts, released>>

(* Mutant: an exposed attempt may be tried again. *)
MayAuthoriseExposed(a, approval) ==
    /\ approval.holdout \in Gates
    /\ auth[approval.id] = {}
    /\ \A id \in ApprovalIds : \A u \in auth[id] : u.about # {a}

\* No final holdout is ever authorised again, and no exposed one.
MayAuthorise(a, approval) ==
    /\ row[a].state = "reserved"
    /\ approval.holdout \in Gates
    /\ auth[approval.id] = {}
    /\ \A id \in ApprovalIds : \A u \in auth[id] : u.about # {a}

(* Mutant: what was consumed may still be called an incident. *)
MarkIncidentConsumed(a, approval) ==
    /\ Transaction
    /\ row[a].state \in {"reserved", "exposure_committed", "consumed"}
    /\ approval.about = {a}
    /\ row[a].holdout = {approval.holdout}
    /\ \/ /\ approval.kind = "incident_lock"
          /\ approval.generation = row[a].generation
          /\ UNCHANGED auth
       \/ /\ approval.kind = "incident_retry" /\ MayAuthorise(a, approval)
          /\ approval.generation = row[a].generation + 1
          /\ auth' = [auth EXCEPT ![approval.id] = {Authorisation(approval)}]
    /\ row' = [row EXCEPT ![a].state = "incident_review"]
    /\ Append1(a, "incident_review")
    /\ UNCHANGED <<receipts, released>>

MarkIncident(a, approval) ==
    /\ Transaction
    /\ row[a].state \in {"reserved", "exposure_committed"}
    /\ approval.about = {a}
    /\ row[a].holdout = {approval.holdout}
    /\ \/ /\ approval.kind = "incident_lock"
          /\ approval.generation = row[a].generation
          /\ UNCHANGED auth
       \/ /\ approval.kind = "incident_retry" /\ MayAuthorise(a, approval)
          /\ approval.generation = row[a].generation + 1
          /\ auth' = [auth EXCEPT ![approval.id] = {Authorisation(approval)}]
    /\ row' = [row EXCEPT ![a].state = "incident_review"]
    /\ Append1(a, "incident_review")
    /\ UNCHANGED <<receipts, released>>

Next ==
    \/ ChangeMode \/ CreateFile \/ Inspect
    \/ \E a \in Attempts :
           \/ \E run \in Runs, approval \in Approvals : Reserve(a, run, approval)
           \/ \E approval \in Approvals : MarkIncident(a, approval)
           \/ \E broker \in Brokers : CommitExposure(broker, a) \/ Release(broker, a)
           \/ \E result \in Results : Finalize(a, result)

Spec == Init /\ [][Next]_vars

-----------------------------------------------------------------------------
TypeOK ==
    /\ file \in {"absent", "empty", "ready"}
    /\ private \in BOOLEAN
    /\ row \in [Attempts -> [state : States, holdout : SUBSET Holdouts, run : SUBSET Runs,
                             generation : 0 .. MaxGeneration, approval : SUBSET ApprovalIds,
                             exposed : BOOLEAN, result : SUBSET Results]]
    /\ auth \in [ApprovalIds -> SUBSET [digest : Digests, holdout : Holdouts,
                                        generation : 0 .. MaxGeneration,
                                        about : SUBSET Attempts, used : SUBSET Attempts]]
    /\ events \in [Attempts -> Seq(States)]
    /\ receipts \in SUBSET (Brokers \X Attempts)
    /\ released \in SUBSET (Brokers \X Attempts)

\* A holdout is exposed by one attempt at most, whatever incidents, retries,
\* runs and approvals there were.
ExposedOnce ==
    \A a, b \in Attempts :
        row[a].exposed /\ row[b].exposed /\ row[a].holdout = row[b].holdout => a = b

\* No two callers hand out the inputs of one holdout, and none does so without
\* the exposure being on record.
ReleasedOnce ==
    /\ \A r \in released : row[r[2]].exposed
    /\ \A r, s \in released \cup receipts : row[r[2]].holdout = row[s[2]].holdout => r = s

\* The inputs of a holdout are used once: one attempt exposes them, and one
\* caller hands them out.
UsedOnce == ExposedOnce /\ ReleasedOnce

\* The events of an attempt, in the order of their appending, are a history of
\* the state its row is in, exposure included.
EventsTellTheState ==
    \A a \in Attempts :
        LET e == events[a] IN
        /\ row[a].state = IF e = <<>> THEN "absent" ELSE e[Len(e)]
        /\ row[a].exposed = (\E i \in DOMAIN e : e[i] = "exposure_committed")
        /\ \A i, j \in DOMAIN e : e[i] = e[j] => i = j

\* Every attempt on a holdout but the latest was withdrawn before exposure, and
\* authorised the one that followed it, by the approval that one carries.
RetriesFollowIncidents ==
    \A a, b \in Attempts :
        row[a].holdout = row[b].holdout /\ row[a].holdout # {}
            /\ row[a].generation + 1 = row[b].generation =>
            /\ row[a].state = "incident_review" /\ ~row[a].exposed
            /\ \E id \in row[b].approval : \E u \in auth[id] : u.about = {a} /\ u.used = {b}

\* The registry can account for every attempt: how it came to where it stands,
\* and why it was allowed at all.
EveryAttemptIsAccountedFor == TypeOK /\ EventsTellTheState /\ RetriesFollowIncidents

\* An attempt is never forgotten, and what is consumed or under review stays so
\* with its result: there is no reset, release or unlock.
HistoryIsKept ==
    [][\A a \in Attempts :
           /\ row[a].state # "absent" => row'[a].state # "absent"
           /\ row[a].state \in {"consumed", "incident_review"} => row'[a] = row[a]]_vars

-----------------------------------------------------------------------------
\* Where a holdout stands by its latest attempt.
Phase(holdout) ==
    IF On(holdout) = {} THEN "available"
    ELSE LET latest == row[CHOOSE a \in Latest(holdout) : TRUE] IN
         CASE latest.state = "reserved" -> "claimed"
           [] latest.state = "exposure_committed" -> "exposed"
           [] latest.state = "consumed" -> "consumed"
           [] OTHER -> IF \E id \in ApprovalIds : \E u \in auth[id] :
                              u.holdout = holdout /\ u.used = {}
                       THEN "withdrawn" ELSE "locked"

Promise == INSTANCE HoldoutPromise WITH phase <- [h \in Holdouts |-> Phase(h)]

\* The registry keeps the promise of HoldoutPromise for every holdout.
KeepsPromise == Promise!Spec
=============================================================================
