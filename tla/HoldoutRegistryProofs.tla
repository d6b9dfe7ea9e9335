------------------------ MODULE HoldoutRegistryProofs ------------------------
(***************************************************************************)
(* Theorems about HoldoutRegistry, for any datasets, attempts, approvals,  *)
(* callers and generations.                                                *)
(*                                                                         *)
(* That a holdout is used once is not inductive: a retry is only safe      *)
(* because the attempt it follows is under review and was never exposed.   *)
(* RegistryInv says so of every attempt but the latest, and ties a         *)
(* persisted authorisation to the attempt it withdraws.                    *)
(***************************************************************************)
EXTENDS HoldoutRegistry, SequenceTheorems, TLAPS

\* A row is empty or has its holdout, and its flag fits its state.
RowsFit ==
    \A a \in Attempts :
        /\ row[a].state = "absent" => row[a] = NoRow
        /\ row[a].state # "absent" => \E h \in Holdouts : row[a].holdout = {h}
        /\ row[a].exposed => row[a].state \in {"exposure_committed", "consumed", "incident_review"}
        /\ row[a].state \in {"exposure_committed", "consumed"} => row[a].exposed

\* The events are the one history that leads to the row.
IsHistory(e, r) ==
    /\ Len(e) = CASE r.state = "absent" -> 0
                  [] r.state = "reserved" -> 1
                  [] r.state = "exposure_committed" -> 2
                  [] r.state = "consumed" -> 3
                  [] OTHER -> IF r.exposed THEN 3 ELSE 2
    /\ r.state # "absent" => e[1] = "reserved"
    /\ r.exposed => e[2] = "exposure_committed"
    /\ r.state = "consumed" => e[3] = "consumed"
    /\ r.state = "incident_review" => e[Len(e)] = "incident_review"

EventsFit == \A a \in Attempts : IsHistory(events[a], row[a])

Rivals(a, b) == row[a].holdout = row[b].holdout /\ row[a].holdout # {} /\ a # b

\* Attempts on one holdout have generations of their own, and only the latest
\* may be exposed.
OnlyLatestIsOpen ==
    \A a, b \in Attempts : Rivals(a, b) =>
        /\ row[a].generation # row[b].generation
        /\ row[a].generation < row[b].generation =>
               row[a].state = "incident_review" /\ ~row[a].exposed

\* A persisted authorisation is about one withdrawn attempt on a gate holdout.
Withdraws(u, a) ==
    /\ u.about = {a}
    /\ u.holdout \in Gates
    /\ row[a].holdout = {u.holdout}
    /\ u.generation = row[a].generation + 1
    /\ row[a].state = "incident_review"
    /\ ~row[a].exposed
    /\ u.used = {} => \A b \in Attempts : ~(Rivals(a, b) /\ row[a].generation < row[b].generation)

AuthorisationsFit ==
    /\ \A id \in ApprovalIds : \A u \in auth[id] : \E a \in Attempts : Withdraws(u, a)
    /\ \A i, j \in ApprovalIds : \A u \in auth[i], v \in auth[j] :
           u.about = v.about => i = j /\ u = v

\* Who was told of an exposure, or has used it, is the only one of its attempt.
ReceiptsFit ==
    /\ \A r \in receipts \cup released : row[r[2]].exposed
    /\ \A r, s \in receipts \cup released : r[2] = s[2] => r = s

\* Generations are not bounded by the code, so that there is a latest attempt
\* has to be said.
HasLatest == \A h \in Holdouts : On(h) # {} => Latest(h) # {}

RegistryInv ==
    /\ TypeOK
    /\ RowsFit
    /\ EventsFit
    /\ OnlyLatestIsOpen
    /\ AuthorisationsFit
    /\ RetriesFollowIncidents
    /\ ReceiptsFit
    /\ HasLatest

-----------------------------------------------------------------------------
(* What each call does, in terms of the rows it touches.                   *)

LEMMA ApprovalType ==
    ASSUME NEW p \in Approvals
    PROVE  /\ p.id \in ApprovalIds /\ p.digest \in Digests /\ p.holdout \in Holdouts
           /\ p.generation \in 0 .. MaxGeneration /\ p.about \in SUBSET Attempts
  BY DEF Approvals

\* Nothing a property speaks of changes.
Unchanged == UNCHANGED <<row, auth, events, receipts, released>>

LEMMA QuietStep ==
    ASSUME ChangeMode \/ CreateFile \/ Inspect \/ UNCHANGED vars
    PROVE  Unchanged
  BY DEF ChangeMode, CreateFile, Inspect, Unchanged, vars

LEMMA ReserveEffect ==
    ASSUME TypeOK, NEW a \in Attempts, NEW run \in Runs, NEW p \in Approvals,
           Reserve(a, run, p)
    PROVE  /\ row[a].state = "absent"
           /\ row' = [row EXCEPT ![a] = row'[a]]
           /\ row'[a] = [state |-> "reserved", holdout |-> {p.holdout},
                         generation |-> p.generation, run |-> {run}, approval |-> {p.id},
                         exposed |-> FALSE, result |-> {}]
           /\ events' = [events EXCEPT ![a] = Append(@, "reserved")]
           /\ UNCHANGED <<receipts, released>>
  BY DEF TypeOK, Reserve, NoRow, Append1

LEMMA ExposureEffect ==
    ASSUME TypeOK, NEW a \in Attempts, NEW b \in Brokers, CommitExposure(b, a)
    PROVE  /\ row[a].state = "reserved"
           /\ row' = [row EXCEPT ![a] = row'[a]]
           /\ row'[a] = [row[a] EXCEPT !.state = "exposure_committed", !.exposed = TRUE]
           /\ events' = [events EXCEPT ![a] = Append(@, "exposure_committed")]
           /\ receipts' \in {receipts, receipts \cup {<<b, a>>}}
           /\ UNCHANGED <<auth, released>>
  BY DEF TypeOK, CommitExposure, Append1

LEMMA FinalizeEffect ==
    ASSUME TypeOK, NEW a \in Attempts, NEW result \in Results, Finalize(a, result)
    PROVE  /\ row[a].state = "exposure_committed"
           /\ row' = [row EXCEPT ![a] = row'[a]]
           /\ row'[a] = [row[a] EXCEPT !.state = "consumed", !.result = {result}]
           /\ events' = [events EXCEPT ![a] = Append(@, "consumed")]
           /\ UNCHANGED <<auth, receipts, released>>
  BY DEF TypeOK, Finalize, Append1

LEMMA IncidentEffect ==
    ASSUME TypeOK, NEW a \in Attempts, NEW p \in Approvals, MarkIncident(a, p)
    PROVE  /\ row[a].state \in {"reserved", "exposure_committed"}
           /\ row[a].holdout = {p.holdout}
           /\ row' = [row EXCEPT ![a] = row'[a]]
           /\ row'[a] = [row[a] EXCEPT !.state = "incident_review"]
           /\ events' = [events EXCEPT ![a] = Append(@, "incident_review")]
           /\ \/ UNCHANGED auth
              \/ /\ MayAuthorise(a, p) /\ p.about = {a}
                 /\ p.generation = row[a].generation + 1
                 /\ auth' = [auth EXCEPT ![p.id] = {Authorisation(p)}]
           /\ UNCHANGED <<receipts, released>>
  BY DEF TypeOK, MarkIncident, Append1

-----------------------------------------------------------------------------
(* Types.                                                                   *)

Rows == [state : States, holdout : SUBSET Holdouts, run : SUBSET Runs,
         generation : 0 .. MaxGeneration, approval : SUBSET ApprovalIds,
         exposed : BOOLEAN, result : SUBSET Results]

Authorisations == [digest : Digests, holdout : Holdouts, generation : 0 .. MaxGeneration,
                   about : SUBSET Attempts, used : SUBSET Attempts]

LEMMA TypeInit == Init => TypeOK
  <1>1. NoRow \in Rows
    BY RegistryAssumption DEF NoRow, States, Rows
  <1> QED BY <1>1 DEF Init, TypeOK, Rows

\* A call that writes one row, and its event with it.
LEMMA TypeOfCall ==
    ASSUME TypeOK, NEW a \in Attempts, NEW type \in States, Transaction,
           row' = [row EXCEPT ![a] = row'[a]], row'[a] \in Rows,
           events' = [events EXCEPT ![a] = Append(@, type)],
           auth' \in [ApprovalIds -> SUBSET Authorisations],
           receipts' \in SUBSET (Brokers \X Attempts), UNCHANGED released
    PROVE  TypeOK'
  <1>1. file' \in {"absent", "empty", "ready"} /\ private' \in BOOLEAN
    BY DEF TypeOK, Transaction
  <1>2. row' \in [Attempts -> Rows]
    BY DEF TypeOK, Rows
  <1>3. events' \in [Attempts -> Seq(States)]
    BY DEF TypeOK
  <1> QED BY <1>1, <1>2, <1>3 DEF TypeOK, Rows, Authorisations

LEMMA TypeStep == TypeOK /\ [Next]_vars => TypeOK'
  <1> SUFFICES ASSUME TypeOK, [Next]_vars PROVE TypeOK'
    OBVIOUS
  <1>0. /\ row \in [Attempts -> Rows]
        /\ auth \in [ApprovalIds -> SUBSET Authorisations]
        /\ {"reserved", "exposure_committed", "consumed", "incident_review"} \subseteq States
    BY DEF TypeOK, Rows, Authorisations, States
  <1>1. ASSUME ChangeMode \/ CreateFile \/ Inspect \/ UNCHANGED vars PROVE TypeOK'
    <2>1. Unchanged
      BY <1>1, QuietStep
    <2>2. file' \in {"absent", "empty", "ready"} /\ private' \in BOOLEAN
      BY <1>1 DEF ChangeMode, CreateFile, Inspect, Transaction, TypeOK, vars
    <2> QED BY <2>1, <2>2 DEF Unchanged, TypeOK
  <1>2. ASSUME NEW a \in Attempts, NEW run \in Runs, NEW p \in Approvals, Reserve(a, run, p)
        PROVE TypeOK'
    <2>1. auth' \in [ApprovalIds -> SUBSET Authorisations]
      <3>1. CASE p.kind = "incident_retry"
        <4>1. {[u EXCEPT !.used = {a}] : u \in auth[p.id]} \in SUBSET Authorisations
          BY <1>0, ApprovalType DEF Authorisations
        <4>2. auth' = [auth EXCEPT ![p.id] = {[u EXCEPT !.used = {a}] : u \in auth[p.id]}]
          BY <1>2, <3>1 DEF Reserve
        <4> QED BY <1>0, <4>1, <4>2
      <3>2. CASE p.kind # "incident_retry"
        BY <1>0, <1>2, <3>2 DEF Reserve
      <3> QED BY <3>1, <3>2
    <2>2. row'[a] \in Rows
      <3>1. row'[a] = [state |-> "reserved", holdout |-> {p.holdout},
                       generation |-> p.generation, run |-> {run}, approval |-> {p.id},
                       exposed |-> FALSE, result |-> {}]
        BY <1>2, ReserveEffect
      <3>2. /\ {p.holdout} \in SUBSET Holdouts /\ {p.id} \in SUBSET ApprovalIds
            /\ p.generation \in 0 .. MaxGeneration /\ {run} \in SUBSET Runs
            /\ {} \in SUBSET Results
        BY ApprovalType
      <3> QED BY <1>0, <3>1, <3>2 DEF Rows
    <2>3. Transaction
      BY <1>2 DEF Reserve
    <2>4. /\ row' = [row EXCEPT ![a] = row'[a]]
          /\ events' = [events EXCEPT ![a] = Append(@, "reserved")]
          /\ UNCHANGED <<receipts, released>>
      BY <1>2, ReserveEffect
    <2>5. receipts' \in SUBSET (Brokers \X Attempts)
      BY <2>4 DEF TypeOK
    <2> QED BY <1>0, <2>1, <2>2, <2>3, <2>4, <2>5, TypeOfCall
  <1>3. ASSUME NEW a \in Attempts, NEW b \in Brokers, CommitExposure(b, a) PROVE TypeOK'
    <2>1. /\ row' = [row EXCEPT ![a] = row'[a]]
          /\ row'[a] = [row[a] EXCEPT !.state = "exposure_committed", !.exposed = TRUE]
          /\ events' = [events EXCEPT ![a] = Append(@, "exposure_committed")]
          /\ UNCHANGED released
      BY <1>3, ExposureEffect
    <2>2. row[a] \in Rows
      BY <1>0
    <2>3. row'[a] \in Rows
      BY <1>0, <2>1, <2>2 DEF Rows
    <2>4. Transaction
      BY <1>3 DEF CommitExposure
    <2>5. receipts' \in SUBSET (Brokers \X Attempts)
      <3>1. receipts' \in {receipts, receipts \cup {<<b, a>>}}
        BY <1>3, ExposureEffect
      <3> QED BY <3>1 DEF TypeOK
    <2>6. auth' \in [ApprovalIds -> SUBSET Authorisations]
      BY <1>0, <1>3, ExposureEffect
    <2> QED BY <1>0, <2>1, <2>3, <2>4, <2>5, <2>6, TypeOfCall
  <1>4. ASSUME NEW a \in Attempts, NEW b \in Brokers, Release(b, a) PROVE TypeOK'
    BY <1>4 DEF Release, TypeOK
  <1>5. ASSUME NEW a \in Attempts, NEW result \in Results, Finalize(a, result) PROVE TypeOK'
    <2>1. /\ row' = [row EXCEPT ![a] = row'[a]]
          /\ row'[a] = [row[a] EXCEPT !.state = "consumed", !.result = {result}]
          /\ events' = [events EXCEPT ![a] = Append(@, "consumed")]
          /\ UNCHANGED released
      BY <1>5, FinalizeEffect
    <2>2. row[a] \in Rows
      BY <1>0
    <2>3. row'[a] \in Rows
      <3>1. {result} \in SUBSET Results
        OBVIOUS
      <3> QED BY <1>0, <2>1, <2>2, <3>1 DEF Rows
    <2>4. Transaction
      BY <1>5 DEF Finalize
    <2>5. receipts' \in SUBSET (Brokers \X Attempts)
      BY <1>5, FinalizeEffect DEF TypeOK
    <2>6. auth' \in [ApprovalIds -> SUBSET Authorisations]
      BY <1>0, <1>5, FinalizeEffect
    <2> QED BY <1>0, <2>1, <2>3, <2>4, <2>5, <2>6, TypeOfCall
  <1>6. ASSUME NEW a \in Attempts, NEW p \in Approvals, MarkIncident(a, p) PROVE TypeOK'
    <2>1. /\ row' = [row EXCEPT ![a] = row'[a]]
          /\ row'[a] = [row[a] EXCEPT !.state = "incident_review"]
          /\ events' = [events EXCEPT ![a] = Append(@, "incident_review")]
          /\ UNCHANGED released
      BY <1>6, IncidentEffect
    <2>2. row[a] \in Rows
      BY <1>0
    <2>3. row'[a] \in Rows
      BY <1>0, <2>1, <2>2 DEF Rows
    <2>4. Transaction
      BY <1>6 DEF MarkIncident
    <2>5. receipts' \in SUBSET (Brokers \X Attempts)
      BY <1>6, IncidentEffect DEF TypeOK
    <2>6. auth' \in [ApprovalIds -> SUBSET Authorisations]
      <3>1. Authorisation(p) \in Authorisations
        BY ApprovalType DEF Authorisation, Authorisations
      <3>2. UNCHANGED auth \/ auth' = [auth EXCEPT ![p.id] = {Authorisation(p)}]
        BY <1>6, IncidentEffect
      <3> QED BY <1>0, <3>1, <3>2
    <2> QED BY <1>0, <2>1, <2>3, <2>4, <2>5, <2>6, TypeOfCall
  <1> QED BY <1>1, <1>2, <1>3, <1>4, <1>5, <1>6 DEF Next

-----------------------------------------------------------------------------
(* The invariant.                                                           *)

\* A call that moves an attempt on, and leaves what it was reserved with.
Advances(a) ==
    /\ row[a].state \in {"reserved", "exposure_committed"}
    /\ row' = [row EXCEPT ![a] = row'[a]]
    /\ row'[a].holdout = row[a].holdout /\ row'[a].generation = row[a].generation
    /\ row'[a].approval = row[a].approval /\ row'[a].state # "absent"
    /\ row[a].exposed => row'[a].exposed

LEMMA Advance ==
    ASSUME TypeOK, NEW a \in Attempts,
           \/ \E b \in Brokers : CommitExposure(b, a)
           \/ \E result \in Results : Finalize(a, result)
           \/ \E p \in Approvals : MarkIncident(a, p)
    PROVE  Advances(a)
  <1>0. row[a] \in Rows
    BY DEF TypeOK, Rows
  <1>1. ASSUME NEW b \in Brokers, CommitExposure(b, a) PROVE Advances(a)
    <2>1. /\ row[a].state = "reserved"
          /\ row' = [row EXCEPT ![a] = row'[a]]
          /\ row'[a] = [row[a] EXCEPT !.state = "exposure_committed", !.exposed = TRUE]
      BY <1>1, ExposureEffect
    <2> QED BY <1>0, <2>1 DEF Advances, Rows
  <1>2. ASSUME NEW result \in Results, Finalize(a, result) PROVE Advances(a)
    <2>1. /\ row[a].state = "exposure_committed"
          /\ row' = [row EXCEPT ![a] = row'[a]]
          /\ row'[a] = [row[a] EXCEPT !.state = "consumed", !.result = {result}]
      BY <1>2, FinalizeEffect
    <2> QED BY <1>0, <2>1 DEF Advances, Rows
  <1>3. ASSUME NEW p \in Approvals, MarkIncident(a, p) PROVE Advances(a)
    <2>1. /\ row[a].state \in {"reserved", "exposure_committed"}
          /\ row' = [row EXCEPT ![a] = row'[a]]
          /\ row'[a] = [row[a] EXCEPT !.state = "incident_review"]
      BY <1>3, IncidentEffect
    <2> QED BY <1>0, <2>1 DEF Advances, Rows
  <1> QED BY <1>1, <1>2, <1>3

\* A further attempt on a holdout follows the withdrawn latest one, by the
\* authorisation that was persisted for it.
LEMMA RetryFollows ==
    ASSUME RegistryInv, NEW a \in Attempts, NEW run \in Runs, NEW p \in Approvals,
           Reserve(a, run, p), On(p.holdout) # {}
    PROVE  /\ p.kind = "incident_retry" /\ p.holdout \in Gates
           /\ auth[p.id] = {Authorisation(p)}
           /\ \E latest \in Attempts :
                  /\ p.about = {latest} /\ Withdraws(Authorisation(p), latest)
                  /\ p.generation = row[latest].generation + 1
                  /\ \A b \in On(p.holdout) : row[b].generation <= row[latest].generation
  <1>1. MayRetry(p)
    BY DEF Reserve
  <1>2. PICK latest \in Latest(p.holdout) :
            /\ p.about = {latest}
            /\ p.generation = row[latest].generation + 1
            /\ auth[p.id] = {Authorisation(p)}
    BY <1>1 DEF MayRetry
  <1>3. /\ latest \in Attempts
        /\ \A b \in On(p.holdout) : row[b].generation <= row[latest].generation
    BY DEF Latest, On
  <1>4. PICK b \in Attempts : Withdraws(Authorisation(p), b)
    BY <1>2, ApprovalType DEF RegistryInv, AuthorisationsFit
  <1>5. b = latest
    BY <1>2, <1>4 DEF Withdraws, Authorisation
  <1> QED BY <1>1, <1>2, <1>3, <1>4, <1>5 DEF MayRetry

LEMMA RowsStep == RegistryInv /\ [Next]_vars => RowsFit'
  <1> SUFFICES ASSUME RegistryInv, [Next]_vars PROVE RowsFit'
    OBVIOUS
  <1>0. TypeOK /\ RowsFit /\ row \in [Attempts -> Rows]
    BY DEF RegistryInv, TypeOK, Rows
  <1>1. ASSUME NEW a \in Attempts, NEW run \in Runs, NEW p \in Approvals, Reserve(a, run, p)
        PROVE RowsFit'
    <2>1. /\ row' = [row EXCEPT ![a] = row'[a]]
          /\ row'[a] = [state |-> "reserved", holdout |-> {p.holdout},
                        generation |-> p.generation, run |-> {run}, approval |-> {p.id},
                        exposed |-> FALSE, result |-> {}]
      BY <1>0, <1>1, ReserveEffect
    <2>2. p.holdout \in Holdouts
      BY ApprovalType
    <2> QED BY <1>0, <2>1, <2>2 DEF RowsFit
  <1>2. ASSUME NEW a \in Attempts, NEW b \in Brokers, CommitExposure(b, a) PROVE RowsFit'
    <2>1. /\ row[a].state = "reserved"
          /\ row' = [row EXCEPT ![a] = row'[a]]
          /\ row'[a] = [row[a] EXCEPT !.state = "exposure_committed", !.exposed = TRUE]
      BY <1>0, <1>2, ExposureEffect
    <2>2. /\ row'[a].state = "exposure_committed" /\ row'[a].exposed
          /\ row'[a].holdout = row[a].holdout
          /\ \A c \in Attempts : c # a => row'[c] = row[c]
      BY <1>0, <2>1 DEF Rows
    <2>3. PICK h \in Holdouts : row[a].holdout = {h}
      BY <1>0, <2>1 DEF RowsFit
    <2> QED BY <1>0, <2>2, <2>3 DEF RowsFit
  <1>3. ASSUME NEW a \in Attempts, NEW result \in Results, Finalize(a, result) PROVE RowsFit'
    <2>1. /\ row[a].state = "exposure_committed"
          /\ row' = [row EXCEPT ![a] = row'[a]]
          /\ row'[a] = [row[a] EXCEPT !.state = "consumed", !.result = {result}]
      BY <1>0, <1>3, FinalizeEffect
    <2>2. /\ row'[a].state = "consumed" /\ row'[a].exposed = row[a].exposed
          /\ row'[a].holdout = row[a].holdout
          /\ \A b \in Attempts : b # a => row'[b] = row[b]
      BY <1>0, <2>1 DEF Rows
    <2>3. PICK h \in Holdouts : row[a].holdout = {h}
      BY <1>0, <2>1 DEF RowsFit
    <2>4. row'[a].exposed
      <3>1. row[a].exposed
        BY <1>0, <2>1 DEF RowsFit
      <3> QED BY <2>2, <3>1
    <2>5. \A c \in Attempts : c # a => row'[c] = row[c]
      BY <2>2
    <2>6. row'[a].state = "consumed" /\ row'[a].holdout = {h}
      BY <2>2, <2>3
    <2> QED BY <1>0, <2>3, <2>4, <2>5, <2>6 DEF RowsFit
  <1>4. ASSUME NEW a \in Attempts, NEW p \in Approvals, MarkIncident(a, p) PROVE RowsFit'
    <2>1. /\ row[a].state \in {"reserved", "exposure_committed"}
          /\ row' = [row EXCEPT ![a] = row'[a]]
          /\ row'[a] = [row[a] EXCEPT !.state = "incident_review"]
      BY <1>0, <1>4, IncidentEffect
    <2> QED BY <1>0, <2>1 DEF RowsFit, Rows
  <1>5. ASSUME UNCHANGED row PROVE RowsFit'
    BY <1>0, <1>5 DEF RowsFit
  <1> QED BY <1>1, <1>2, <1>3, <1>4, <1>5, QuietStep DEF Next, Release, Unchanged

LEMMA EventsStep == RegistryInv /\ [Next]_vars => EventsFit'
  <1> SUFFICES ASSUME RegistryInv, [Next]_vars PROVE EventsFit'
    OBVIOUS
  <1>0. /\ TypeOK /\ RowsFit /\ EventsFit /\ row \in [Attempts -> Rows]
        /\ events \in [Attempts -> Seq(States)]
    BY DEF RegistryInv, TypeOK, Rows
  <1>1. ASSUME NEW a \in Attempts, NEW type \in States, row' = [row EXCEPT ![a] = row'[a]],
               events' = [events EXCEPT ![a] = Append(@, type)],
               IsHistory(Append(events[a], type), row'[a])
        PROVE EventsFit'
    BY <1>0, <1>1 DEF EventsFit
  <1>2. ASSUME NEW a \in Attempts, NEW type \in States
        PROVE  /\ IsHistory(events[a], row[a])
               /\ Len(events[a]) \in Nat
               /\ Len(Append(events[a], type)) = Len(events[a]) + 1
               /\ \A i \in 1 .. Len(events[a]) : Append(events[a], type)[i] = events[a][i]
               /\ Append(events[a], type)[Len(events[a]) + 1] = type
    <2>1. events[a] \in Seq(States)
      BY <1>0
    <2> QED BY <1>0, <2>1, AppendProperties DEF EventsFit
  <1> HIDE DEF IsHistory
  <1>3. ASSUME NEW a \in Attempts, NEW run \in Runs, NEW p \in Approvals, Reserve(a, run, p)
        PROVE EventsFit'
    <2>1. /\ row[a].state = "absent"
          /\ row' = [row EXCEPT ![a] = row'[a]]
          /\ row'[a] = [state |-> "reserved", holdout |-> {p.holdout},
                        generation |-> p.generation, run |-> {run}, approval |-> {p.id},
                        exposed |-> FALSE, result |-> {}]
          /\ events' = [events EXCEPT ![a] = Append(@, "reserved")]
      BY <1>0, <1>3, ReserveEffect
    <2>2. /\ row'[a].state = "reserved" /\ ~row'[a].exposed
          /\ ~row[a].exposed /\ "reserved" \in States
      BY <1>0, <2>1 DEF RowsFit, States
    <2>3. IsHistory(Append(events[a], "reserved"), row'[a])
      BY <1>2, <2>1, <2>2 DEF IsHistory
    <2> QED BY <1>1, <2>1, <2>2, <2>3
  <1>4. ASSUME NEW a \in Attempts, NEW b \in Brokers, CommitExposure(b, a) PROVE EventsFit'
    <2>1. /\ row[a].state = "reserved"
          /\ row' = [row EXCEPT ![a] = row'[a]]
          /\ row'[a] = [row[a] EXCEPT !.state = "exposure_committed", !.exposed = TRUE]
          /\ events' = [events EXCEPT ![a] = Append(@, "exposure_committed")]
      BY <1>0, <1>4, ExposureEffect
    <2>2. row'[a].state = "exposure_committed" /\ "exposure_committed" \in States
      BY <1>0, <2>1 DEF Rows, States
    <2>3. IsHistory(Append(events[a], "exposure_committed"), row'[a])
      BY <1>2, <2>1, <2>2 DEF IsHistory
    <2> QED BY <1>1, <2>1, <2>2, <2>3
  <1>5. ASSUME NEW a \in Attempts, NEW result \in Results, Finalize(a, result) PROVE EventsFit'
    <2>1. /\ row[a].state = "exposure_committed"
          /\ row' = [row EXCEPT ![a] = row'[a]]
          /\ row'[a] = [row[a] EXCEPT !.state = "consumed", !.result = {result}]
          /\ events' = [events EXCEPT ![a] = Append(@, "consumed")]
      BY <1>0, <1>5, FinalizeEffect
    <2>2. /\ row'[a].state = "consumed" /\ row'[a].exposed = row[a].exposed
          /\ "consumed" \in States
      BY <1>0, <2>1 DEF Rows, States
    <2>3. IsHistory(Append(events[a], "consumed"), row'[a])
      BY <1>2, <2>1, <2>2 DEF IsHistory
    <2> QED BY <1>1, <2>1, <2>2, <2>3
  <1>6. ASSUME NEW a \in Attempts, NEW p \in Approvals, MarkIncident(a, p) PROVE EventsFit'
    <2>1. /\ row[a].state \in {"reserved", "exposure_committed"}
          /\ row' = [row EXCEPT ![a] = row'[a]]
          /\ row'[a] = [row[a] EXCEPT !.state = "incident_review"]
          /\ events' = [events EXCEPT ![a] = Append(@, "incident_review")]
      BY <1>0, <1>6, IncidentEffect
    <2>2. /\ row'[a].state = "incident_review" /\ row'[a].exposed = row[a].exposed
          /\ row[a].exposed <=> row[a].state = "exposure_committed"
          /\ "incident_review" \in States
      BY <1>0, <2>1 DEF Rows, RowsFit, States
    <2>3. IsHistory(Append(events[a], "incident_review"), row'[a])
      BY <1>2, <2>1, <2>2 DEF IsHistory
    <2> QED BY <1>1, <2>1, <2>2, <2>3
  <1>7. ASSUME UNCHANGED <<row, events>> PROVE EventsFit'
    BY <1>0, <1>7 DEF EventsFit
  <1> QED BY <1>3, <1>4, <1>5, <1>6, <1>7, QuietStep DEF Next, Release, Unchanged

\* A call keeps rows as they are, reserves one, or advances one.
LEMMA StepKinds ==
    ASSUME TypeOK, [Next]_vars
    PROVE  \/ UNCHANGED <<row, auth>>
           \/ \E a \in Attempts, run \in Runs, p \in Approvals : Reserve(a, run, p)
           \/ \E a \in Attempts :
                  /\ Advances(a)
                  /\ \/ UNCHANGED auth
                     \/ \E p \in Approvals : MarkIncident(a, p)
  <1>1. ASSUME NEW a \in Attempts, NEW b \in Brokers, CommitExposure(b, a)
        PROVE  Advances(a) /\ UNCHANGED auth
    BY <1>1, Advance, ExposureEffect
  <1>2. ASSUME NEW a \in Attempts, NEW result \in Results, Finalize(a, result)
        PROVE  Advances(a) /\ UNCHANGED auth
    BY <1>2, Advance, FinalizeEffect
  <1>3. ASSUME NEW a \in Attempts, NEW p \in Approvals, MarkIncident(a, p)
        PROVE  Advances(a)
    BY <1>3, Advance
  <1> QED BY <1>1, <1>2, <1>3, QuietStep DEF Next, Release, Unchanged

\* The row of a reservation, as far as other attempts see it.
LEMMA ReservedRow ==
    ASSUME RegistryInv, NEW a \in Attempts, NEW run \in Runs, NEW p \in Approvals,
           Reserve(a, run, p)
    PROVE  /\ row[a].holdout = {} /\ row[a].state = "absent"
           /\ row'[a].holdout = {p.holdout} /\ row'[a].generation = p.generation
           /\ row'[a].approval = {p.id} /\ row'[a].state = "reserved" /\ ~row'[a].exposed
           /\ \A b \in Attempts : b # a => row'[b] = row[b]
  <1>0. TypeOK /\ RowsFit /\ row \in [Attempts -> Rows]
    BY DEF RegistryInv, TypeOK, Rows
  <1>1. /\ row[a].state = "absent"
        /\ row' = [row EXCEPT ![a] = row'[a]]
        /\ row'[a] = [state |-> "reserved", holdout |-> {p.holdout},
                      generation |-> p.generation, run |-> {run}, approval |-> {p.id},
                      exposed |-> FALSE, result |-> {}]
    BY <1>0, ReserveEffect
  <1>2. row[a].holdout = {}
    BY <1>0, <1>1 DEF RowsFit, NoRow
  <1>3. \A b \in Attempts : b # a => row'[b] = row[b]
    BY <1>0, <1>1
  <1> QED BY <1>1, <1>2, <1>3

LEMMA OrderStep == RegistryInv /\ [Next]_vars => OnlyLatestIsOpen'
  <1> SUFFICES ASSUME RegistryInv, [Next]_vars PROVE OnlyLatestIsOpen'
    OBVIOUS
  <1>0. /\ TypeOK /\ RowsFit /\ OnlyLatestIsOpen
        /\ \A a \in Attempts : row[a].generation \in Nat
    BY RegistryAssumption DEF RegistryInv, TypeOK
  <1>1. ASSUME UNCHANGED row PROVE OnlyLatestIsOpen'
    BY <1>0, <1>1 DEF OnlyLatestIsOpen, Rivals
  <1>2. ASSUME NEW a \in Attempts, Advances(a) PROVE OnlyLatestIsOpen'
    <2>1. /\ \A b \in Attempts : b # a => row'[b] = row[b]
          /\ row'[a].holdout = row[a].holdout /\ row'[a].generation = row[a].generation
          /\ row[a].state # "incident_review"
      BY <1>0, <1>2 DEF Advances, TypeOK
    <2> QED BY <1>0, <2>1 DEF OnlyLatestIsOpen, Rivals
  <1>3. ASSUME NEW a \in Attempts, NEW run \in Runs, NEW p \in Approvals, Reserve(a, run, p)
        PROVE OnlyLatestIsOpen'
    <2>1. /\ row'[a].holdout = {p.holdout} /\ row'[a].generation = p.generation
          /\ \A b \in Attempts : b # a => row'[b] = row[b]
      BY <1>3, ReservedRow
    <2>2. CASE On(p.holdout) = {}
      BY <1>0, <2>1, <2>2 DEF OnlyLatestIsOpen, Rivals, On
    <2>3. CASE On(p.holdout) # {}
      <3>1. PICK latest \in Attempts :
                /\ Withdraws(Authorisation(p), latest)
                /\ p.generation = row[latest].generation + 1
                /\ \A b \in On(p.holdout) : row[b].generation <= row[latest].generation
        BY <1>3, <2>3, RetryFollows
      <3>2. /\ row[latest].state = "incident_review" /\ ~row[latest].exposed
            /\ row[latest].holdout = {p.holdout}
        BY <3>1 DEF Withdraws, Authorisation
      <3>3. ASSUME NEW b \in Attempts, b # a, row[b].holdout = {p.holdout}
            PROVE  /\ row[b].generation < p.generation
                   /\ row[b].state = "incident_review" /\ ~row[b].exposed
        <4>1. row[b].generation <= row[latest].generation
          BY <3>1, <3>3 DEF On
        <4>2. b # latest => Rivals(b, latest)
          BY <3>2, <3>3 DEF Rivals
        <4>3. b # latest => row[b].generation # row[latest].generation
          BY <1>0, <4>2 DEF OnlyLatestIsOpen
        <4>4. b # latest => row[b].generation < row[latest].generation
          BY <1>0, <4>1, <4>3
        <4>5. b # latest => row[b].state = "incident_review" /\ ~row[b].exposed
          BY <1>0, <4>2, <4>4 DEF OnlyLatestIsOpen
        <4>6. row[b].generation < p.generation
          BY <1>0, <3>1, <4>1
        <4> QED BY <3>2, <4>5, <4>6
      <3>4. ASSUME NEW b \in Attempts, NEW c \in Attempts, Rivals(b, c)'
            PROVE  /\ row'[b].generation # row'[c].generation
                   /\ row'[b].generation < row'[c].generation =>
                          row'[b].state = "incident_review" /\ ~row'[b].exposed
        <4>1. CASE b # a /\ c # a
          BY <1>0, <2>1, <3>4, <4>1 DEF OnlyLatestIsOpen, Rivals
        <4>2. CASE b = a /\ c # a
          BY <1>0, <2>1, <3>1, <3>3, <3>4, <4>2 DEF Rivals
        <4>3. CASE b # a /\ c = a
          BY <1>0, <2>1, <3>1, <3>3, <3>4, <4>3 DEF Rivals
        <4> QED BY <3>4, <4>1, <4>2, <4>3 DEF Rivals
      <3> QED BY <3>4 DEF OnlyLatestIsOpen
    <2> QED BY <2>2, <2>3
  <1> QED BY <1>0, <1>1, <1>2, <1>3, StepKinds

\* An authorisation stays about its attempt while others move on or come.
LEMMA WithdrawalStays ==
    ASSUME RegistryInv, NEW u, NEW x \in Attempts, Withdraws(u, x),
           \/ UNCHANGED row
           \/ \E a \in Attempts : Advances(a)
    PROVE  Withdraws(u, x)'
  <1>1. CASE UNCHANGED row
    BY <1>1 DEF Withdraws, Rivals
  <1>2. ASSUME NEW a \in Attempts, Advances(a) PROVE Withdraws(u, x)'
    <2>1. /\ \A b \in Attempts : b # a => row'[b] = row[b]
          /\ row'[a].holdout = row[a].holdout /\ row'[a].generation = row[a].generation
          /\ row[a].state # "incident_review"
      BY <1>2 DEF Advances, RegistryInv, TypeOK
    <2>2. x # a
      BY <2>1 DEF Withdraws
    <2> QED BY <2>1, <2>2 DEF Withdraws, Rivals
  <1> QED BY <1>1, <1>2

LEMMA AuthStep == RegistryInv /\ [Next]_vars => AuthorisationsFit'
  <1> SUFFICES ASSUME RegistryInv, [Next]_vars PROVE AuthorisationsFit'
    OBVIOUS
  <1>0. /\ TypeOK /\ RowsFit /\ AuthorisationsFit /\ OnlyLatestIsOpen
        /\ \A a \in Attempts : row[a].generation \in Nat
        /\ auth \in [ApprovalIds -> SUBSET Authorisations]
    BY RegistryAssumption DEF RegistryInv, TypeOK, Authorisations
  <1>1. ASSUME UNCHANGED auth, UNCHANGED row \/ \E a \in Attempts : Advances(a)
        PROVE AuthorisationsFit'
    BY <1>0, <1>1, WithdrawalStays DEF AuthorisationsFit
  <1>2. ASSUME NEW a \in Attempts, NEW p \in Approvals, MarkIncident(a, p), Advances(a),
               auth' # auth
        PROVE AuthorisationsFit'
    <2>1. /\ row[a].holdout = {p.holdout} /\ MayAuthorise(a, p) /\ p.about = {a}
          /\ p.generation = row[a].generation + 1
          /\ auth' = [auth EXCEPT ![p.id] = {Authorisation(p)}]
          /\ row'[a] = [row[a] EXCEPT !.state = "incident_review"]
      BY <1>0, <1>2, IncidentEffect
    <2>2. /\ row[a].state = "reserved" /\ ~row[a].exposed /\ p.holdout \in Gates
          /\ auth[p.id] = {} /\ p.id \in ApprovalIds
          /\ \A id \in ApprovalIds : \A u \in auth[id] : u.about # {a}
      BY <1>0, <2>1, ApprovalType DEF MayAuthorise, RowsFit
    <2>3. /\ auth'[p.id] = {Authorisation(p)}
          /\ \A id \in ApprovalIds : id # p.id => auth'[id] = auth[id]
          /\ Authorisation(p).about = {a} /\ Authorisation(p).holdout = p.holdout
          /\ Authorisation(p).generation = p.generation
      BY <1>0, <2>1, <2>2 DEF Authorisation
    <2>4. /\ row'[a].state = "incident_review" /\ ~row'[a].exposed
          /\ row'[a].holdout = {p.holdout} /\ row'[a].generation = row[a].generation
          /\ \A b \in Attempts : b # a => row'[b] = row[b]
      <3>1. row[a] \in Rows
        BY <1>0 DEF TypeOK, Rows
      <3>2. \A b \in Attempts : b # a => row'[b] = row[b]
        BY <1>0, <1>2 DEF Advances, TypeOK
      <3> QED BY <2>1, <2>2, <3>1, <3>2 DEF Rows
    <2>5. \A b \in Attempts : ~(Rivals(a, b) /\ row[a].generation < row[b].generation)
      BY <1>0, <2>2 DEF OnlyLatestIsOpen
    <2>6. Withdraws(Authorisation(p), a)'
      BY <2>1, <2>2, <2>3, <2>4, <2>5 DEF Withdraws, Rivals, Authorisation
    <2>7. \A id \in ApprovalIds : \A u \in auth'[id] : \E x \in Attempts : Withdraws(u, x)'
      <3>1. ASSUME NEW id \in ApprovalIds, id # p.id, NEW u \in auth'[id]
            PROVE \E x \in Attempts : Withdraws(u, x)'
        BY <1>0, <1>2, <2>3, <3>1, WithdrawalStays DEF AuthorisationsFit
      <3> QED BY <2>3, <2>6, <3>1
    <2>8. \A i, j \in ApprovalIds : \A u \in auth'[i], v \in auth'[j] :
              u.about = v.about => i = j /\ u = v
      BY <1>0, <2>2, <2>3 DEF AuthorisationsFit
    <2> QED BY <2>7, <2>8 DEF AuthorisationsFit
  <1>3. ASSUME NEW a \in Attempts, NEW run \in Runs, NEW p \in Approvals, Reserve(a, run, p)
        PROVE AuthorisationsFit'
    <2>1. /\ row[a].holdout = {} /\ row[a].state = "absent"
          /\ row'[a].holdout = {p.holdout} /\ row'[a].generation = p.generation
          /\ \A b \in Attempts : b # a => row'[b] = row[b]
      BY <1>3, ReservedRow
    <2>2. CASE On(p.holdout) = {}
      <3>1. UNCHANGED auth
        BY <1>3, <2>2 DEF Reserve
      <3>2. ASSUME NEW u, NEW x \in Attempts, Withdraws(u, x) PROVE Withdraws(u, x)'
        <4>1. x # a /\ row[x].holdout # {p.holdout}
          BY <2>1, <2>2, <3>2 DEF Withdraws, On
        <4> QED BY <2>1, <3>2, <4>1 DEF Withdraws, Rivals
      <3> QED BY <1>0, <3>1, <3>2 DEF AuthorisationsFit
    <2>3. CASE On(p.holdout) # {}
      <3>1. PICK latest \in Attempts :
                /\ p.about = {latest} /\ Withdraws(Authorisation(p), latest)
                /\ p.generation = row[latest].generation + 1
                /\ \A b \in On(p.holdout) : row[b].generation <= row[latest].generation
        BY <1>3, <2>3, RetryFollows
      <3>2. /\ p.kind = "incident_retry" /\ auth[p.id] = {Authorisation(p)}
            /\ p.id \in ApprovalIds
        BY <1>3, <2>3, RetryFollows, ApprovalType
      <3> DEFINE spent == [Authorisation(p) EXCEPT !.used = {a}]
      <3>3. /\ auth'[p.id] = {spent}
            /\ \A id \in ApprovalIds : id # p.id => auth'[id] = auth[id]
        <4>1. auth' = [auth EXCEPT ![p.id] = {[u EXCEPT !.used = {a}] : u \in auth[p.id]}]
          BY <1>3, <3>2 DEF Reserve
        <4>2. {[u EXCEPT !.used = {a}] : u \in auth[p.id]} = {spent}
          BY <3>2
        <4> QED BY <1>0, <3>2, <4>1, <4>2
      <3>4. /\ spent.used = {a} /\ spent.about = {latest}
            /\ spent.holdout = p.holdout /\ spent.generation = p.generation
            /\ Authorisation(p).about = {latest} /\ Authorisation(p).holdout = p.holdout
        BY <3>1 DEF Authorisation
      <3> HIDE DEF spent
      <3>5. latest # a
        BY <2>1, <3>1 DEF Withdraws
      <3>6. Withdraws(spent, latest)'
        BY <2>1, <3>1, <3>4, <3>5 DEF Withdraws, Authorisation
      <3>7. ASSUME NEW id \in ApprovalIds, id # p.id, NEW u \in auth[id]
            PROVE \E x \in Attempts : Withdraws(u, x)'
        <4>1. PICK x \in Attempts : Withdraws(u, x)
          BY <1>0 DEF AuthorisationsFit
        <4>2. x # a /\ x # latest
          <5>1. x # a
            BY <2>1, <4>1 DEF Withdraws
          <5>2. u.about = {x}
            BY <4>1 DEF Withdraws
          <5>3. Authorisation(p) \in auth[p.id] /\ u.about # Authorisation(p).about
            BY <1>0, <3>2, <3>7 DEF AuthorisationsFit
          <5> QED BY <3>4, <5>1, <5>2, <5>3
        <4>3. u.used = {} => row[x].holdout # {p.holdout}
          <5> SUFFICES ASSUME u.used = {}, row[x].holdout = {p.holdout} PROVE FALSE
            OBVIOUS
          <5>1. Rivals(x, latest)
            BY <3>1, <3>4, <4>2 DEF Rivals, Withdraws
          <5>2. row[x].generation # row[latest].generation
            BY <1>0, <5>1 DEF OnlyLatestIsOpen
          <5>3. row[x].generation <= row[latest].generation
            BY <3>1 DEF On
          <5>4. ~(row[x].generation < row[latest].generation)
            BY <4>1, <5>1 DEF Withdraws
          <5> QED BY <1>0, <5>2, <5>3, <5>4
        <4>4. Withdraws(u, x)'
          BY <2>1, <4>1, <4>2, <4>3 DEF Withdraws, Rivals
        <4> QED BY <4>4
      <3>8. \A id \in ApprovalIds : \A u \in auth'[id] : \E x \in Attempts : Withdraws(u, x)'
        BY <3>3, <3>6, <3>7
      <3>9. \A i, j \in ApprovalIds : \A u \in auth'[i], v \in auth'[j] :
                u.about = v.about => i = j /\ u = v
        <4>1. ASSUME NEW i \in ApprovalIds, i # p.id, NEW u \in auth[i]
              PROVE u.about # {latest}
          <5>1. Authorisation(p) \in auth[p.id]
            BY <3>2
          <5>2. u.about # Authorisation(p).about
            BY <1>0, <3>2, <4>1, <5>1 DEF AuthorisationsFit
          <5> QED BY <3>4, <5>2
        <4>2. ASSUME NEW i \in ApprovalIds, NEW j \in ApprovalIds,
                     NEW u \in auth'[i], NEW v \in auth'[j], u.about = v.about
              PROVE i = j /\ u = v
          <5>1. CASE i = p.id /\ j = p.id
            BY <3>3, <5>1
          <5>2. CASE i # p.id /\ j # p.id
            BY <1>0, <3>3, <4>2, <5>2 DEF AuthorisationsFit
          <5>3. CASE i = p.id /\ j # p.id
            BY <3>3, <3>4, <4>1, <4>2, <5>3
          <5>4. CASE i # p.id /\ j = p.id
            BY <3>3, <3>4, <4>1, <4>2, <5>4
          <5> QED BY <5>1, <5>2, <5>3, <5>4
        <4> QED BY <4>2
      <3> QED BY <3>8, <3>9 DEF AuthorisationsFit
    <2> QED BY <2>2, <2>3
  <1> QED BY <1>0, <1>1, <1>2, <1>3, StepKinds

\* An attempt and the retry it authorised.
Follows(a, b) ==
    \E id \in row[b].approval : \E u \in auth[id] : u.about = {a} /\ u.used = {b}

LEMMA RetriesStep == RegistryInv /\ [Next]_vars => RetriesFollowIncidents'
  <1> SUFFICES ASSUME RegistryInv, [Next]_vars,
                      NEW x \in Attempts, NEW y \in Attempts,
                      row'[x].holdout = row'[y].holdout, row'[x].holdout # {},
                      row'[x].generation + 1 = row'[y].generation
               PROVE  /\ row'[x].state = "incident_review" /\ ~row'[x].exposed
                      /\ Follows(x, y)'
    BY DEF RetriesFollowIncidents, Follows
  <1>0. /\ TypeOK /\ RetriesFollowIncidents /\ OnlyLatestIsOpen
        /\ \A a \in Attempts : row[a].generation \in Nat
        /\ \A a \in Attempts : row[a].approval \in SUBSET ApprovalIds
        /\ auth \in [ApprovalIds -> SUBSET Authorisations]
    BY RegistryAssumption DEF RegistryInv, TypeOK, Authorisations
  <1>1. CASE UNCHANGED <<row, auth>>
    BY <1>0, <1>1 DEF RetriesFollowIncidents, Follows
  <1>2. ASSUME NEW a \in Attempts, Advances(a),
               UNCHANGED auth \/ \E p \in Approvals : MarkIncident(a, p)
        PROVE  /\ row'[x].state = "incident_review" /\ ~row'[x].exposed
               /\ Follows(x, y)'
    <2>1. /\ \A b \in Attempts : b # a => row'[b] = row[b]
          /\ row'[a].holdout = row[a].holdout /\ row'[a].generation = row[a].generation
          /\ row'[a].approval = row[a].approval
          /\ row[a].state # "incident_review"
      BY <1>0, <1>2 DEF Advances, TypeOK
    <2>2. row[x].state = "incident_review" /\ ~row[x].exposed /\ Follows(x, y)
      <3>1. /\ row[x].holdout = row[y].holdout /\ row[x].holdout # {}
            /\ row[x].generation + 1 = row[y].generation
        BY <2>1
      <3> QED BY <1>0, <3>1 DEF RetriesFollowIncidents, Follows
    <2>3. x # a /\ row'[y].approval = row[y].approval
      BY <2>1, <2>2
    <2>4. ASSUME NEW id \in ApprovalIds, NEW u \in auth[id] PROVE u \in auth'[id]
      <3>1. ASSUME NEW p \in Approvals, MarkIncident(a, p) PROVE u \in auth'[id]
        <4>1. \/ UNCHANGED auth
              \/ auth[p.id] = {} /\ auth' = [auth EXCEPT ![p.id] = {Authorisation(p)}]
          BY <1>0, <3>1, IncidentEffect DEF MayAuthorise
        <4> QED BY <1>0, <2>4, <4>1
      <3> QED BY <1>2, <3>1
    <2> QED BY <1>0, <2>1, <2>2, <2>3, <2>4 DEF Follows
  <1>3. ASSUME NEW a \in Attempts, NEW run \in Runs, NEW p \in Approvals, Reserve(a, run, p)
        PROVE  /\ row'[x].state = "incident_review" /\ ~row'[x].exposed
               /\ Follows(x, y)'
    <2>1. /\ row[a].holdout = {} /\ row[a].state = "absent"
          /\ row'[a].holdout = {p.holdout} /\ row'[a].generation = p.generation
          /\ row'[a].approval = {p.id}
          /\ \A b \in Attempts : b # a => row'[b] = row[b]
      BY <1>3, ReservedRow
    <2>2. p.generation \in Nat /\ x # y
      BY <1>0, <2>1, ApprovalType, RegistryAssumption
    <2>3. CASE x # a /\ y # a
      <3>1. row[x].state = "incident_review" /\ ~row[x].exposed /\ Follows(x, y)
        BY <1>0, <2>1, <2>3 DEF RetriesFollowIncidents, Follows
      <3>2. p.id \notin row[y].approval
        BY <1>3 DEF Reserve
      <3>3. \A id \in ApprovalIds : id # p.id => auth'[id] = auth[id]
        BY <1>0, <1>3 DEF Reserve
      <3> QED BY <1>0, <2>1, <2>3, <3>1, <3>2, <3>3 DEF Follows
    <2>4. CASE x = a \/ y = a
      <3>1. On(p.holdout) # {}
        BY <2>1, <2>2, <2>4 DEF On
      <3>2. PICK latest \in Attempts :
                /\ p.about = {latest} /\ Withdraws(Authorisation(p), latest)
                /\ p.generation = row[latest].generation + 1
                /\ \A b \in On(p.holdout) : row[b].generation <= row[latest].generation
        BY <1>3, <3>1, RetryFollows
      <3>3. y = a
        <4>1. ~(x = a /\ y # a)
          BY <1>0, <2>1, <2>2, <3>2 DEF On
        <4> QED BY <2>4, <4>1
      <3>4. x = latest
        <4>1. row[x].holdout = {p.holdout} /\ row[x].generation = row[latest].generation
          BY <1>0, <2>1, <2>2, <3>2, <3>3
        <4>2. row[latest].holdout = {p.holdout}
          BY <3>2 DEF Withdraws, Authorisation
        <4> QED BY <1>0, <4>1, <4>2 DEF OnlyLatestIsOpen, Rivals
      <3>5. row'[x].state = "incident_review" /\ ~row'[x].exposed
        BY <2>1, <2>2, <3>2, <3>3, <3>4 DEF Withdraws
      <3>6. p.kind = "incident_retry" /\ auth[p.id] = {Authorisation(p)} /\ p.id \in ApprovalIds
        BY <1>3, <3>1, RetryFollows, ApprovalType
      <3>7. [Authorisation(p) EXCEPT !.used = {a}] \in auth'[p.id]
        <4>1. auth' = [auth EXCEPT ![p.id] = {[u EXCEPT !.used = {a}] : u \in auth[p.id]}]
          BY <1>3, <3>6 DEF Reserve
        <4> QED BY <1>0, <3>6, <4>1
      <3>8. /\ [Authorisation(p) EXCEPT !.used = {a}].used = {a}
            /\ [Authorisation(p) EXCEPT !.used = {a}].about = {latest}
        BY <3>2 DEF Authorisation
      <3>9. Follows(x, y)'
        BY <2>1, <3>3, <3>4, <3>7, <3>8 DEF Follows
      <3> QED BY <3>5, <3>9
    <2> QED BY <2>3, <2>4
  <1> QED BY <1>0, <1>1, <1>2, <1>3, StepKinds

LEMMA ReceiptsStep == RegistryInv /\ [Next]_vars => ReceiptsFit'
  <1> SUFFICES ASSUME RegistryInv, [Next]_vars PROVE ReceiptsFit'
    OBVIOUS
  <1>0. /\ TypeOK /\ RowsFit /\ ReceiptsFit
        /\ \A r \in receipts \cup released : r[2] \in Attempts
    BY DEF RegistryInv, TypeOK
  <1>1. ASSUME \A a \in Attempts : row[a].exposed => row'[a].exposed,
               receipts' \cup released' \subseteq receipts \cup released
        PROVE ReceiptsFit'
    BY <1>0, <1>1 DEF ReceiptsFit
  <1>2. ASSUME NEW a \in Attempts, Advances(a) PROVE \A c \in Attempts : row[c].exposed => row'[c].exposed
    BY <1>0, <1>2 DEF Advances, TypeOK
  <1>3. ASSUME NEW a \in Attempts, NEW b \in Brokers, CommitExposure(b, a) PROVE ReceiptsFit'
    <2>1. /\ row[a].state = "reserved"
          /\ row' = [row EXCEPT ![a] = row'[a]]
          /\ row'[a] = [row[a] EXCEPT !.state = "exposure_committed", !.exposed = TRUE]
          /\ receipts' \in {receipts, receipts \cup {<<b, a>>}} /\ UNCHANGED released
      BY <1>0, <1>3, ExposureEffect
    <2>2. ~row[a].exposed
      BY <1>0, <2>1 DEF RowsFit
    <2>3. row'[a].exposed
      BY <1>0, <2>1 DEF TypeOK
    <2>4. \A r \in receipts \cup released : r[2] # a
      BY <1>0, <2>2 DEF ReceiptsFit
    <2>5. \A c \in Attempts : row[c].exposed => row'[c].exposed
      BY <1>2, <1>3, <1>0, Advance
    <2>6. receipts' \cup released' \subseteq receipts \cup released \cup {<<b, a>>}
      BY <2>1
    <2>7. <<b, a>>[2] = a
      OBVIOUS
    <2> QED BY <1>0, <2>3, <2>4, <2>5, <2>6, <2>7 DEF ReceiptsFit
  <1>4. ASSUME NEW a \in Attempts, NEW run \in Runs, NEW p \in Approvals, Reserve(a, run, p)
        PROVE ReceiptsFit'
    <2>1. /\ row[a].state = "absent" /\ \A b \in Attempts : b # a => row'[b] = row[b]
      BY <1>4, ReservedRow
    <2>2. ~row[a].exposed
      BY <1>0, <2>1 DEF RowsFit
    <2>3. \A c \in Attempts : row[c].exposed => row'[c].exposed
      BY <2>1, <2>2
    <2>4. UNCHANGED <<receipts, released>>
      BY <1>4 DEF Reserve
    <2> QED BY <1>1, <2>3, <2>4
  <1>5. ASSUME NEW a \in Attempts, NEW result \in Results, Finalize(a, result) PROVE ReceiptsFit'
    BY <1>0, <1>1, <1>2, <1>5, Advance DEF Finalize
  <1>6. ASSUME NEW a \in Attempts, NEW p \in Approvals, MarkIncident(a, p) PROVE ReceiptsFit'
    BY <1>0, <1>1, <1>2, <1>6, Advance DEF MarkIncident
  <1>7. ASSUME NEW a \in Attempts, NEW b \in Brokers, Release(b, a) PROVE ReceiptsFit'
    BY <1>1, <1>7 DEF Release
  <1>8. ASSUME Unchanged PROVE ReceiptsFit'
    BY <1>1, <1>8 DEF Unchanged
  <1> QED BY <1>3, <1>4, <1>5, <1>6, <1>7, <1>8, QuietStep DEF Next

LEMMA LatestStep == RegistryInv /\ [Next]_vars => HasLatest'
  <1> SUFFICES ASSUME RegistryInv, [Next]_vars, NEW h \in Holdouts, On(h)' # {}
               PROVE  Latest(h)' # {}
    BY DEF HasLatest
  <1>0. /\ TypeOK /\ HasLatest
        /\ \A a \in Attempts : row[a].generation \in Nat
    BY RegistryAssumption DEF RegistryInv, TypeOK
  <1>1. CASE UNCHANGED <<row, auth>>
    BY <1>0, <1>1 DEF HasLatest, Latest, On
  <1>2. ASSUME NEW a \in Attempts, Advances(a) PROVE Latest(h)' # {}
    <2>1. \A b \in Attempts : /\ row'[b].holdout = row[b].holdout
                             /\ row'[b].generation = row[b].generation
      BY <1>0, <1>2 DEF Advances, TypeOK
    <2>2. On(h) # {}
      BY <2>1 DEF On
    <2>3. PICK l \in Latest(h) : TRUE
      BY <1>0, <2>2 DEF HasLatest
    <2>4. l \in Latest(h)'
      BY <2>1, <2>3 DEF Latest, On
    <2> QED BY <2>4
  <1>3. ASSUME NEW a \in Attempts, NEW run \in Runs, NEW p \in Approvals, Reserve(a, run, p)
        PROVE Latest(h)' # {}
    <2>1. /\ row[a].holdout = {} /\ row'[a].holdout = {p.holdout}
          /\ row'[a].generation = p.generation
          /\ \A b \in Attempts : b # a => row'[b] = row[b]
      BY <1>3, ReservedRow
    <2>2. CASE h # p.holdout
      <3>1. On(h) # {}
        BY <2>1, <2>2 DEF On
      <3>2. PICK l \in Latest(h) : TRUE
        BY <1>0, <3>1 DEF HasLatest
      <3>3. l \in Latest(h)'
        BY <2>1, <2>2, <3>2 DEF Latest, On
      <3> QED BY <3>3
    <2>3. CASE h = p.holdout /\ On(h) = {}
      <3>1. p.generation \in Nat
        BY ApprovalType, RegistryAssumption
      <3>2. a \in Latest(h)'
        BY <2>1, <2>3, <3>1 DEF Latest, On
      <3> QED BY <3>2
    <2>4. CASE h = p.holdout /\ On(h) # {}
      <3>1. PICK latest \in Attempts :
                /\ p.generation = row[latest].generation + 1
                /\ \A b \in On(p.holdout) : row[b].generation <= row[latest].generation
        BY <1>3, <2>4, RetryFollows
      <3>2. \A b \in On(h) : row[b].generation <= p.generation
        BY <1>0, <2>4, <3>1 DEF On
      <3>3. a \in Latest(h)'
        BY <1>0, <2>1, <2>4, <3>1, <3>2 DEF Latest, On
      <3> QED BY <3>3
    <2> QED BY <2>2, <2>3, <2>4
  <1> QED BY <1>0, <1>1, <1>2, <1>3, StepKinds

-----------------------------------------------------------------------------
(* RegistryInv always holds.                                                *)
THEOREM RegistryInvariant == Spec => []RegistryInv
  <1>1. Init => RegistryInv
    <2> SUFFICES ASSUME Init PROVE RegistryInv
      OBVIOUS
    <2>1. TypeOK
      BY TypeInit
    <2>2. \A a \in Attempts : row[a] = NoRow /\ events[a] = <<>>
      BY DEF Init
    <2>3. RowsFit
      BY <2>2 DEF RowsFit, NoRow
    <2>4. EventsFit
      BY <2>2 DEF EventsFit, IsHistory, NoRow
    <2>5. OnlyLatestIsOpen /\ RetriesFollowIncidents
      BY <2>2 DEF OnlyLatestIsOpen, Rivals, RetriesFollowIncidents, NoRow
    <2>6. AuthorisationsFit /\ ReceiptsFit
      BY DEF Init, AuthorisationsFit, ReceiptsFit
    <2>7. HasLatest
      BY <2>2 DEF HasLatest, On, NoRow
    <2> QED BY <2>1, <2>3, <2>4, <2>5, <2>6, <2>7 DEF RegistryInv
  <1>2. RegistryInv /\ [Next]_vars => RegistryInv'
    BY TypeStep, RowsStep, EventsStep, OrderStep, AuthStep, RetriesStep, ReceiptsStep,
       LatestStep
       DEF RegistryInv
  <1> QED BY <1>1, <1>2, PTL DEF Spec

(* The inputs of a holdout are used once: commit_exposure, the states of     *)
(* reserve and mark_incident and the unique authorisations leave no order of *)
(* calls that exposes or hands them out twice.                               *)
THEOREM HoldoutUsedOnce == Spec => []UsedOnce
  <1>1. RegistryInv => UsedOnce
    <2> SUFFICES ASSUME RegistryInv PROVE UsedOnce
      OBVIOUS
    <2>0. /\ RowsFit /\ OnlyLatestIsOpen /\ ReceiptsFit
          /\ \A a \in Attempts : row[a].generation \in Nat
          /\ \A r \in receipts \cup released : r[2] \in Attempts
      BY RegistryAssumption DEF RegistryInv, TypeOK
    <2>1. ExposedOnce
      <3> SUFFICES ASSUME NEW a \in Attempts, NEW b \in Attempts, row[a].exposed, row[b].exposed,
                          row[a].holdout = row[b].holdout, a # b
                   PROVE  FALSE
        BY DEF ExposedOnce
      <3>1. row[a].holdout # {}
        BY <2>0 DEF RowsFit
      <3>2. Rivals(a, b) /\ Rivals(b, a)
        BY <3>1 DEF Rivals
      <3>3. row[a].generation < row[b].generation \/ row[b].generation < row[a].generation
        BY <2>0, <3>2 DEF OnlyLatestIsOpen
      <3> QED BY <2>0, <3>2, <3>3 DEF OnlyLatestIsOpen
    <2>2. ReleasedOnce
      BY <2>0, <2>1 DEF ReceiptsFit, ReleasedOnce, ExposedOnce
    <2> QED BY <2>1, <2>2 DEF UsedOnce
  <1> QED BY <1>1, RegistryInvariant, PTL

LEMMA HistoryTells ==
    ASSUME NEW e \in Seq(States), NEW r, IsHistory(e, r),
           r.state \in States, r.exposed \in BOOLEAN,
           r.exposed => r.state \in {"exposure_committed", "consumed", "incident_review"},
           r.state \in {"exposure_committed", "consumed"} => r.exposed
    PROVE  /\ r.state = IF e = <<>> THEN "absent" ELSE e[Len(e)]
           /\ r.exposed <=> (\E i \in DOMAIN e : e[i] = "exposure_committed")
           /\ \A i, j \in DOMAIN e : e[i] = e[j] => i = j
  <1>1. DOMAIN e = 1 .. Len(e) /\ Len(e) \in Nat /\ (e = <<>> <=> Len(e) = 0)
    BY EmptySeq
  <1>2. CASE r.state = "absent"
    <2>1. Len(e) = 0 /\ r.exposed = FALSE
      BY <1>2 DEF IsHistory
    <2>2. DOMAIN e = {}
      BY <1>1, <2>1
    <2> QED BY <1>1, <1>2, <2>1, <2>2
  <1>3. CASE r.state = "reserved"
    <2>1. Len(e) = 1 /\ e[1] = "reserved" /\ r.exposed = FALSE
      BY <1>3 DEF IsHistory
    <2>2. DOMAIN e = {1}
      BY <1>1, <2>1
    <2> QED BY <1>1, <1>3, <2>1, <2>2
  <1>4. CASE r.state = "exposure_committed"
    <2>1. Len(e) = 2 /\ e[1] = "reserved" /\ e[2] = "exposure_committed" /\ r.exposed = TRUE
      BY <1>4 DEF IsHistory
    <2>2. DOMAIN e = {1, 2}
      BY <1>1, <2>1
    <2> QED BY <1>1, <1>4, <2>1, <2>2
  <1>5. CASE r.state = "consumed"
    <2>1. /\ Len(e) = 3 /\ r.exposed = TRUE
          /\ e[1] = "reserved" /\ e[2] = "exposure_committed" /\ e[3] = "consumed"
      BY <1>5 DEF IsHistory
    <2>2. DOMAIN e = {1, 2, 3}
      BY <1>1, <2>1
    <2> QED BY <1>1, <1>5, <2>1, <2>2
  <1>6. CASE r.state = "incident_review" /\ r.exposed
    <2>1. /\ Len(e) = 3 /\ r.exposed = TRUE
          /\ e[1] = "reserved" /\ e[2] = "exposure_committed" /\ e[3] = "incident_review"
      BY <1>6 DEF IsHistory
    <2>2. DOMAIN e = {1, 2, 3}
      BY <1>1, <2>1
    <2> QED BY <1>1, <1>6, <2>1, <2>2
  <1>7. CASE r.state = "incident_review" /\ ~r.exposed
    <2>1. /\ Len(e) = 2 /\ r.exposed = FALSE
          /\ e[1] = "reserved" /\ e[2] = "incident_review"
      BY <1>7 DEF IsHistory
    <2>2. DOMAIN e = {1, 2}
      BY <1>1, <2>1
    <2> QED BY <1>1, <1>7, <2>1, <2>2
  <1> QED BY <1>2, <1>3, <1>4, <1>5, <1>6, <1>7 DEF States

(* The event log of the registry and the chain of approvals account for     *)
(* every attempt.                                                           *)
THEOREM AttemptsAccountedFor == Spec => []EveryAttemptIsAccountedFor
  <1>1. RegistryInv => EveryAttemptIsAccountedFor
    <2> SUFFICES ASSUME RegistryInv PROVE EventsTellTheState
      BY DEF RegistryInv, EveryAttemptIsAccountedFor
    <2> SUFFICES ASSUME NEW a \in Attempts
                 PROVE  LET e == events[a] IN
                        /\ row[a].state = IF e = <<>> THEN "absent" ELSE e[Len(e)]
                        /\ row[a].exposed = (\E i \in DOMAIN e : e[i] = "exposure_committed")
                        /\ \A i, j \in DOMAIN e : e[i] = e[j] => i = j
      BY DEF EventsTellTheState
    <2>1. /\ events[a] \in Seq(States) /\ IsHistory(events[a], row[a])
          /\ row[a].state \in States /\ row[a].exposed \in BOOLEAN
          /\ row[a].exposed => row[a].state \in {"exposure_committed", "consumed", "incident_review"}
          /\ row[a].state \in {"exposure_committed", "consumed"} => row[a].exposed
      BY DEF RegistryInv, TypeOK, RowsFit, EventsFit
    <2>2. row[a].exposed <=> (\E i \in DOMAIN events[a] : events[a][i] = "exposure_committed")
      BY <2>1, HistoryTells
    <2>3. row[a].exposed = (\E i \in DOMAIN events[a] : events[a][i] = "exposure_committed")
      BY <2>1, <2>2
    <2> QED BY <2>1, <2>3, HistoryTells
  <1> QED BY <1>1, RegistryInvariant, PTL

(* The registry has no reset, release or unlock: an attempt stays on record, *)
(* and a consumed one, or one under review, is never written again.          *)
THEOREM RegistryHistoryKept == Spec => HistoryIsKept
  <1>1. ASSUME RegistryInv, [Next]_vars, NEW a \in Attempts
        PROVE  /\ row[a].state # "absent" => row'[a].state # "absent"
               /\ row[a].state \in {"consumed", "incident_review"} => row'[a] = row[a]
    <2>0. TypeOK
      BY <1>1 DEF RegistryInv
    <2>1. CASE UNCHANGED row
      BY <2>1
    <2>2. ASSUME NEW b \in Attempts, Advances(b)
          PROVE  /\ row[a].state # "absent" => row'[a].state # "absent"
                 /\ row[a].state \in {"consumed", "incident_review"} => row'[a] = row[a]
      BY <2>0, <2>2 DEF Advances, TypeOK
    <2>3. ASSUME NEW b \in Attempts, NEW run \in Runs, NEW p \in Approvals, Reserve(b, run, p)
          PROVE  /\ row[a].state # "absent" => row'[a].state # "absent"
                 /\ row[a].state \in {"consumed", "incident_review"} => row'[a] = row[a]
      BY <1>1, <2>3, ReservedRow
    <2> QED BY <1>1, <2>0, <2>1, <2>2, <2>3, StepKinds
  <1>2. RegistryInv /\ [Next]_vars =>
            [\A a \in Attempts :
                /\ row[a].state # "absent" => row'[a].state # "absent"
                /\ row[a].state \in {"consumed", "incident_review"} => row'[a] = row[a]]_vars
    BY <1>1
  <1> QED BY <1>2, RegistryInvariant, PTL DEF Spec, HistoryIsKept

-----------------------------------------------------------------------------
(* The refinement.                                                          *)

\* An authorisation of the holdout waits for its retry.
Unused(h) == \E id \in ApprovalIds : \E u \in auth[id] : u.holdout = h /\ u.used = {}

Standing(state, unused) ==
    CASE state = "reserved" -> "claimed"
      [] state = "exposure_committed" -> "exposed"
      [] state = "consumed" -> "consumed"
      [] OTHER -> IF unused THEN "withdrawn" ELSE "locked"

PhasesFit ==
    \A h \in Holdouts :
        /\ On(h) = {} => Phase(h) = "available"
        /\ \A l \in Latest(h) : Phase(h) = Standing(row[l].state, Unused(h))

LEMMA PhasesFitAlways == RegistryInv => PhasesFit
  <1> SUFFICES ASSUME RegistryInv, NEW h \in Holdouts, NEW l \in Latest(h)
               PROVE  Phase(h) = Standing(row[l].state, Unused(h))
    BY DEF PhasesFit, Phase
  <1>1. ASSUME NEW x \in Latest(h), x # l PROVE FALSE
    <2>1. /\ x \in Attempts /\ l \in Attempts
          /\ row[x].holdout = {h} /\ row[l].holdout = {h}
          /\ row[x].generation <= row[l].generation /\ row[l].generation <= row[x].generation
      BY DEF Latest, On
    <2>2. Rivals(x, l)
      BY <1>1, <2>1 DEF Rivals
    <2>3. row[x].generation # row[l].generation
      BY <2>1, <2>2 DEF RegistryInv, OnlyLatestIsOpen
    <2>4. row[x].generation \in Nat /\ row[l].generation \in Nat
      BY <2>1, RegistryAssumption DEF RegistryInv, TypeOK
    <2> QED BY <2>1, <2>3, <2>4
  <1>2. (CHOOSE x \in Latest(h) : TRUE) = l /\ On(h) # {}
    BY <1>1 DEF Latest
  <1> QED BY <1>2 DEF Phase, Standing, Unused

LEMMA PhasesFitNext == RegistryInv' => PhasesFit'
  BY PhasesFitAlways, PTL

\* Nothing waits while the latest attempt is still open.
OpenIsLatest ==
    \A h \in Holdouts, a \in Attempts :
        row[a].holdout = {h} /\ row[a].state # "incident_review" =>
            ~Unused(h) /\ a \in Latest(h)

LEMMA OpenIsLatestAlways == RegistryInv => OpenIsLatest
  <1> SUFFICES ASSUME RegistryInv, NEW h \in Holdouts, NEW a \in Attempts, row[a].holdout = {h},
                      row[a].state # "incident_review"
               PROVE  ~Unused(h) /\ a \in Latest(h)
    BY DEF OpenIsLatest
  <1>0. /\ OnlyLatestIsOpen /\ AuthorisationsFit
        /\ \A x \in Attempts : row[x].generation \in Nat
    BY RegistryAssumption DEF RegistryInv, TypeOK
  <1>1. ASSUME NEW x \in On(h), x # a PROVE row[x].generation < row[a].generation
    <2>1. x \in Attempts /\ Rivals(x, a) /\ Rivals(a, x)
      BY <1>1 DEF Rivals, On
    <2>2. row[x].generation # row[a].generation /\ ~(row[a].generation < row[x].generation)
      BY <1>0, <2>1 DEF OnlyLatestIsOpen
    <2> QED BY <1>0, <2>1, <2>2
  <1>2. a \in Latest(h)
    BY <1>0, <1>1 DEF Latest, On
  <1>3. ~Unused(h)
    <2> SUFFICES ASSUME NEW id \in ApprovalIds, NEW u \in auth[id], u.holdout = h, u.used = {}
                 PROVE  FALSE
      BY DEF Unused
    <2>1. PICK x \in Attempts : Withdraws(u, x)
      BY <1>0 DEF AuthorisationsFit
    <2>2. x \in On(h) /\ Rivals(x, a)
      BY <2>1 DEF Withdraws, On, Rivals
    <2> QED BY <1>1, <2>1, <2>2 DEF Withdraws, Rivals
  <1> QED BY <1>2, <1>3

LEMMA OpenIsLatestNext == RegistryInv' => OpenIsLatest'
  BY OpenIsLatestAlways, PTL

\* What leaves a holdout's rows and authorisations alone leaves its phase alone.
LEMMA PhaseStays ==
    ASSUME RegistryInv, RegistryInv', NEW h \in Holdouts,
           \A x \in Attempts : row[x].holdout = {h} \/ row'[x].holdout = {h} => row'[x] = row[x],
           Unused(h)' = Unused(h)
    PROVE  Phase(h)' = Phase(h)
  <1>0. PhasesFit /\ PhasesFit' /\ HasLatest
    BY PhasesFitAlways, PhasesFitNext DEF RegistryInv
  <1>1. On(h)' = On(h)
    BY DEF On
  <1>2. CASE On(h) = {}
    BY <1>0, <1>1, <1>2 DEF PhasesFit
  <1>3. CASE On(h) # {}
    <2>1. PICK l \in Latest(h) : TRUE
      BY <1>0, <1>3 DEF HasLatest
    <2>2. row'[l] = row[l] /\ l \in Latest(h)'
      BY <1>1, <2>1 DEF Latest, On
    <2> QED BY <1>0, <2>1, <2>2 DEF PhasesFit
  <1> QED BY <1>2, <1>3

phases == [h \in Holdouts |-> Phase(h)]

\* A step that moves one holdout is a step of the promise.
LEMMA OneMoves ==
    ASSUME NEW h \in Holdouts, NEW to,
           \A k \in Holdouts : k # h => Phase(k)' = Phase(k),
           Phase(h)' = to
    PROVE  phases' = [phases EXCEPT ![h] = to] /\ phases[h] = Phase(h)
  BY DEF phases

\* What an advancing attempt, which is the latest, does to the phases.
LEMMA AdvanceMoves ==
    ASSUME RegistryInv, RegistryInv', NEW a \in Attempts, Advances(a),
           NEW h \in Holdouts, row[a].holdout = {h},
           \A k \in Holdouts : k # h => Unused(k)' = Unused(k)
    PROVE  /\ phases[h] = Standing(row[a].state, FALSE)
           /\ phases' = [phases EXCEPT ![h] = Standing(row'[a].state, Unused(h)')]
  <1>0. PhasesFit /\ PhasesFit' /\ OpenIsLatest /\ TypeOK
    BY PhasesFitAlways, PhasesFitNext, OpenIsLatestAlways DEF RegistryInv
  <1>1. /\ row'[a].holdout = {h} /\ row[a].state \in {"reserved", "exposure_committed"}
        /\ \A b \in Attempts : b # a => row'[b] = row[b]
        /\ \A b \in Attempts : /\ row'[b].holdout = row[b].holdout
                              /\ row'[b].generation = row[b].generation
    BY <1>0 DEF Advances, TypeOK
  <1>2. a \in Latest(h) /\ ~Unused(h)
    BY <1>0, <1>1 DEF OpenIsLatest
  <1>3. a \in Latest(h)'
    BY <1>1, <1>2 DEF Latest, On
  <1>4. Phase(h) = Standing(row[a].state, FALSE)
    BY <1>0, <1>1, <1>2 DEF PhasesFit, Standing
  <1>5. Phase(h)' = Standing(row'[a].state, Unused(h)')
    BY <1>0, <1>3 DEF PhasesFit
  <1>6. \A k \in Holdouts : k # h => Phase(k)' = Phase(k)
    BY <1>1, PhaseStays
  <1> QED BY <1>4, <1>5, <1>6, OneMoves

LEMMA PromiseStep == RegistryInv /\ RegistryInv' /\ [Next]_vars => [Promise!Next]_phases
  <1> SUFFICES ASSUME RegistryInv, RegistryInv', [Next]_vars
               PROVE  Promise!Next \/ UNCHANGED phases
    OBVIOUS
  <1>0. /\ TypeOK /\ RowsFit /\ row \in [Attempts -> Rows]
        /\ auth \in [ApprovalIds -> SUBSET Authorisations]
        /\ PhasesFit /\ PhasesFit' /\ OpenIsLatest /\ OpenIsLatest'
    BY PhasesFitAlways, PhasesFitNext, OpenIsLatestAlways, OpenIsLatestNext
       DEF RegistryInv, TypeOK, Rows, Authorisations
  <1>1. ASSUME UNCHANGED <<row, auth>> PROVE UNCHANGED phases
    <2>1. \A h \in Holdouts : Unused(h)' = Unused(h)
      BY <1>1 DEF Unused
    <2>2. \A h \in Holdouts : Phase(h)' = Phase(h)
      BY <1>1, <2>1, PhaseStays
    <2> QED BY <2>2 DEF phases
  <1>2. ASSUME NEW a \in Attempts, NEW run \in Runs, NEW p \in Approvals, Reserve(a, run, p)
        PROVE Promise!Next
    <2>1. /\ row[a].holdout = {} /\ row'[a].holdout = {p.holdout}
          /\ row'[a].state = "reserved"
          /\ \A b \in Attempts : b # a => row'[b] = row[b]
      BY <1>2, ReservedRow
    <2>2. p.holdout \in Holdouts
      BY ApprovalType
    <2>3. Phase(p.holdout)' = "claimed"
      BY <1>0, <2>1, <2>2 DEF OpenIsLatest, PhasesFit, Standing
    <2>4. CASE On(p.holdout) = {}
      <3>1. UNCHANGED auth
        BY <1>2, <2>4 DEF Reserve
      <3>2. \A h \in Holdouts : Unused(h)' = Unused(h)
        BY <3>1 DEF Unused
      <3>3. \A h \in Holdouts : h # p.holdout => Phase(h)' = Phase(h)
        BY <2>1, <3>2, PhaseStays
      <3>4. Phase(p.holdout) = "available"
        BY <1>0, <2>2, <2>4 DEF PhasesFit
      <3>5. phases' = [phases EXCEPT ![p.holdout] = "claimed"] /\ phases[p.holdout] = "available"
        BY <2>2, <2>3, <3>3, <3>4, OneMoves
      <3>6. Promise!Claim(p.holdout)
        BY <3>5 DEF Promise!Claim, Promise!Move, phases
      <3> QED BY <2>2, <3>6 DEF Promise!Next
    <2>5. CASE On(p.holdout) # {}
      <3>1. PICK latest \in Attempts :
                /\ Withdraws(Authorisation(p), latest)
                /\ \A b \in On(p.holdout) : row[b].generation <= row[latest].generation
        BY <1>2, <2>5, RetryFollows
      <3>2. /\ auth[p.id] = {Authorisation(p)} /\ p.kind = "incident_retry"
            /\ p.holdout \in Gates /\ p.id \in ApprovalIds
        BY <1>2, <2>5, RetryFollows, ApprovalType
      <3>3. /\ latest \in Latest(p.holdout) /\ row[latest].state = "incident_review"
            /\ Authorisation(p).holdout = p.holdout /\ Authorisation(p).used = {}
        BY <3>1 DEF Latest, On, Withdraws, Authorisation
      <3>4. Unused(p.holdout)
        BY <3>2, <3>3 DEF Unused
      <3>5. Phase(p.holdout) = "withdrawn"
        BY <1>0, <2>2, <3>3, <3>4 DEF PhasesFit, Standing
      <3>6. ASSUME NEW h \in Holdouts, h # p.holdout PROVE Unused(h)' = Unused(h)
        <4>1. auth' = [auth EXCEPT ![p.id] = {[u EXCEPT !.used = {a}] : u \in auth[p.id]}]
          BY <1>2, <3>2 DEF Reserve
        <4>2. [Authorisation(p) EXCEPT !.used = {a}].holdout = p.holdout
          BY DEF Authorisation
        <4>3. /\ \A u \in auth[p.id] : u.holdout # h
              /\ \A u \in auth'[p.id] : u.holdout # h
          BY <1>0, <3>2, <3>3, <3>6, <4>1, <4>2
        <4>4. \A id \in ApprovalIds : id # p.id => auth'[id] = auth[id]
          BY <1>0, <4>1
        <4> QED BY <4>3, <4>4 DEF Unused
      <3>7. \A h \in Holdouts : h # p.holdout => Phase(h)' = Phase(h)
        BY <2>1, <3>6, PhaseStays
      <3>8. phases' = [phases EXCEPT ![p.holdout] = "claimed"] /\ phases[p.holdout] = "withdrawn"
        BY <2>2, <2>3, <3>5, <3>7, OneMoves
      <3>9. Promise!Reclaim(p.holdout)
        BY <3>2, <3>8 DEF Promise!Reclaim, Promise!Move, phases
      <3> QED BY <2>2, <3>9 DEF Promise!Next
    <2> QED BY <2>4, <2>5
  <1>3. ASSUME NEW a \in Attempts, NEW b \in Brokers, CommitExposure(b, a) PROVE Promise!Next
    <2>1. /\ row[a].state = "reserved" /\ UNCHANGED auth
          /\ row'[a] = [row[a] EXCEPT !.state = "exposure_committed", !.exposed = TRUE]
      BY <1>0, <1>3, ExposureEffect
    <2>2. row'[a].state = "exposure_committed"
      BY <1>0, <2>1 DEF Rows
    <2>3. Advances(a) /\ \A k \in Holdouts : Unused(k)' = Unused(k)
      BY <1>0, <1>3, <2>1, Advance DEF Unused
    <2>4. PICK h \in Holdouts : row[a].holdout = {h}
      BY <1>0, <2>1 DEF RowsFit
    <2>5. phases[h] = "claimed" /\ phases' = [phases EXCEPT ![h] = "exposed"]
      <3>1. /\ phases[h] = Standing(row[a].state, FALSE)
            /\ phases' = [phases EXCEPT ![h] = Standing(row'[a].state, Unused(h)')]
        BY <2>3, <2>4, AdvanceMoves
      <3> QED BY <2>1, <2>2, <3>1 DEF Standing
    <2>6. Promise!Expose(h)
      BY <2>5 DEF Promise!Expose, Promise!Move, phases
    <2> QED BY <2>6 DEF Promise!Next
  <1>4. ASSUME NEW a \in Attempts, NEW result \in Results, Finalize(a, result) PROVE Promise!Next
    <2>1. /\ row[a].state = "exposure_committed" /\ UNCHANGED auth
          /\ row'[a] = [row[a] EXCEPT !.state = "consumed", !.result = {result}]
      BY <1>0, <1>4, FinalizeEffect
    <2>2. row'[a].state = "consumed"
      BY <1>0, <2>1 DEF Rows
    <2>3. Advances(a) /\ \A k \in Holdouts : Unused(k)' = Unused(k)
      BY <1>0, <1>4, <2>1, Advance DEF Unused
    <2>4. PICK h \in Holdouts : row[a].holdout = {h}
      BY <1>0, <2>1 DEF RowsFit
    <2>5. phases[h] = "exposed" /\ phases' = [phases EXCEPT ![h] = "consumed"]
      <3>1. /\ phases[h] = Standing(row[a].state, FALSE)
            /\ phases' = [phases EXCEPT ![h] = Standing(row'[a].state, Unused(h)')]
        BY <2>3, <2>4, AdvanceMoves
      <3> QED BY <2>1, <2>2, <3>1 DEF Standing
    <2>6. Promise!Consume(h)
      BY <2>5 DEF Promise!Consume, Promise!Move, phases
    <2> QED BY <2>6 DEF Promise!Next
  <1>5. ASSUME NEW a \in Attempts, NEW p \in Approvals, MarkIncident(a, p) PROVE Promise!Next
    <2>1. /\ row[a].state \in {"reserved", "exposure_committed"} /\ row[a].holdout = {p.holdout}
          /\ row'[a] = [row[a] EXCEPT !.state = "incident_review"]
      BY <1>0, <1>5, IncidentEffect
    <2>2. row'[a].state = "incident_review"
      BY <1>0, <2>1 DEF Rows
    <2>3. Advances(a)
      BY <1>0, <1>5, Advance
    <2> DEFINE h == p.holdout
    <2>4. h \in Holdouts /\ p.id \in ApprovalIds
      BY ApprovalType
    <2>5. ~Unused(h)
      BY <1>0, <2>1, <2>4 DEF OpenIsLatest
    <2>6. CASE UNCHANGED auth
      <3>1. \A k \in Holdouts : Unused(k)' = Unused(k)
        BY <2>6 DEF Unused
      <3>2. /\ phases[h] \in {"claimed", "exposed"}
            /\ phases' = [phases EXCEPT ![h] = "locked"]
        <4>1. /\ phases[h] = Standing(row[a].state, FALSE)
              /\ phases' = [phases EXCEPT ![h] = Standing(row'[a].state, Unused(h)')]
          BY <2>1, <2>3, <2>4, <3>1, AdvanceMoves
        <4>2. ~Unused(h)'
          BY <2>4, <2>5, <3>1
        <4>3. Standing(row'[a].state, Unused(h)') = "locked"
          BY <2>2, <4>2 DEF Standing
        <4>4. Standing(row[a].state, FALSE) \in {"claimed", "exposed"}
          BY <2>1 DEF Standing
        <4> QED BY <4>1, <4>3, <4>4
      <3>3. Promise!Lock(h)
        BY <3>2 DEF Promise!Lock, Promise!Move, phases
      <3> QED BY <2>4, <3>3 DEF Promise!Next
    <2>7. CASE /\ MayAuthorise(a, p)
               /\ auth' = [auth EXCEPT ![p.id] = {Authorisation(p)}]
      <3>1. /\ row[a].state = "reserved" /\ p.holdout \in Gates /\ auth[p.id] = {}
            /\ auth'[p.id] = {Authorisation(p)}
            /\ \A id \in ApprovalIds : id # p.id => auth'[id] = auth[id]
            /\ Authorisation(p).holdout = h /\ Authorisation(p).used = {}
        BY <1>0, <2>4, <2>7 DEF MayAuthorise, Authorisation
      <3>2. Unused(h)'
        BY <2>4, <3>1 DEF Unused
      <3>3. \A k \in Holdouts : k # h => Unused(k)' = Unused(k)
        BY <3>1 DEF Unused
      <3>4. phases[h] = "claimed" /\ phases' = [phases EXCEPT ![h] = "withdrawn"]
        <4>1. /\ phases[h] = Standing(row[a].state, FALSE)
              /\ phases' = [phases EXCEPT ![h] = Standing(row'[a].state, Unused(h)')]
          BY <2>1, <2>3, <2>4, <3>3, AdvanceMoves
        <4> QED BY <2>2, <3>1, <3>2, <4>1 DEF Standing
      <3>5. Promise!Withdraw(h)
        BY <3>1, <3>4 DEF Promise!Withdraw, Promise!Move, phases
      <3> QED BY <2>4, <3>5 DEF Promise!Next
    <2> QED BY <1>0, <1>5, <2>6, <2>7, IncidentEffect
  <1> QED BY <1>1, <1>2, <1>3, <1>4, <1>5, QuietStep DEF Next, Release, Unchanged

(* The registry implements the promise of HoldoutPromise for every holdout.  *)
THEOREM RegistryKeepsPromise == Spec => KeepsPromise
  <1>1. Init => Promise!Init
    <2> SUFFICES ASSUME Init PROVE \A h \in Holdouts : Phase(h) = "available"
      BY DEF Promise!Init
    <2>1. \A h \in Holdouts : On(h) = {}
      BY DEF Init, On, NoRow
    <2> QED BY <2>1 DEF Phase
  <1>2. RegistryInv /\ RegistryInv' /\ [Next]_vars => [Promise!Next]_[h \in Holdouts |-> Phase(h)]
    BY PromiseStep DEF phases
  <1> QED BY <1>1, <1>2, RegistryInvariant, PTL DEF Spec, KeepsPromise, Promise!Spec
=============================================================================
