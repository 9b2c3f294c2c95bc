------------------------- MODULE OnDemandDrainProofs -------------------------
(***************************************************************************)
(* Proofs about OnDemandDrain: its types, that nothing is stranded, that   *)
(* nothing blocks the next hook, that a claim is answered, that there is   *)
(* one pass at a time and nothing is delivered twice, and that the leases  *)
(* are used as ExclusiveLease promises.                                    *)
(*                                                                         *)
(* The argument is about responsibility: as long as there is work, some    *)
(* hook has yet to decide about a drainer or some process will look again, *)
(* and a hook that decides against a drainer does so because of a claim or *)
(* a lease behind which there is such a process.                           *)
(***************************************************************************)
EXTENDS OnDemandDrain, TLAPS

\* A hook that has yet to decide about a drainer.
Undecided(h) == hook[h] \in {"queued", "marked", "claimed"}

\* A process that will look at the queue and the markers before it is gone.
WillLook(p) ==
  \/ p \in Drainer /\ pc[p] \in Leased \cup {"start", "acquire", "look"}
  \/ p \in Command /\ pc[p] \in {"import", "after"}

\* A process that has yet to take its first lease, or to clear the claim with it.
WillClear(p) == (pc[p] \in {"start", "acquire"} /\ ~run[p].took) \/ pc[p] = "begin"

\* Passes and commands keep to their stages; a pass starts afresh.
Stages ==
  /\ \A p \in Drainer : pc[p] \notin {"wait", "import", "after", "over"}
  /\ \A c \in Command : pc[c] \in {"off", "wait", "import", "after", "over"}
  /\ \A p \in Proc : pc[p] = "off" => ~run[p].took

\* What is owed to the server: no marker goes without its events, and only a
\* failure, or events that have not gone yet, hold anything back.
Work ==
  /\ \A h \in Hook : h \in markers \/ hook[h] = "queued" => h \in known \cup queue
  /\ ~setback => rowsHeld = {} /\ markersHeld \subseteq queue

\* Unless something failed, whoever is in the row of a lease counts on it.
Rows == ~setback => \A k \in Kind : owner[k] # None => k \in Kinds(owner[k])

\* Somebody answers for the claim.
Claims ==
  (~setback \/ {"crash", "spawn"} \cap faults = {}) /\ claim =>
    Claiming # {} \/ \E p \in Drainer : pc[p] # "off" /\ ~run[p].took

\* If nobody sleeps past the TTL, who counts on a lease has it: there is one pass.
Owned == \A p \in Proc : \A k \in Kinds(p) : owner[k] = p /\ Held(k)

\* That pass has cleared the claim, and no other is made.
Cleared == \A p \in Proc : pc[p] \in Leased \ {"begin"} => ~claim

\* Its failures are remembered.
Remembered == \A p \in Proc : pc[p] = "release" /\ run[p].stop # "done" => setback

\* Who answers for the claim will clear it, not only hand it back.
Answered == ~setback /\ claim => Claiming # {} \/ \E p \in Drainer : WillClear(p)

\* Whatever is left to do, somebody will look.
Looked == ~setback /\ queue \cup markers # {} =>
            (\E h \in Hook : Undecided(h)) \/ \E p \in Proc : WillLook(p)

Awake == "suspend" \notin faults => Owned /\ Cleared /\ Remembered /\ Answered /\ Looked

Inv == TypeOK /\ Stages /\ Work /\ Rows /\ Claims /\ Awake

USE DEF data, state, lease

-----------------------------------------------------------------------------
(* Types.                                                                  *)

\* The local variables of a pass.
Run == [round : 0..MaxRounds, acquisition : 0..MaxAcquisitions,
        took : BOOLEAN, covers : BOOLEAN, added : BOOLEAN,
        stop : Stop, flushed : BOOLEAN, seen : 0..MaxStreak]

\* The constants are numbers, and nobody is called None.
LEMMA Bounds == /\ BatchSize \in Nat /\ MaxRounds \in Nat /\ MaxAcquisitions \in Nat /\ MaxStreak \in Nat
                /\ MaxRounds > 0 /\ MaxAcquisitions > 0 /\ None \notin Proc
                /\ Drainer \subseteq Proc /\ Command \subseteq Proc /\ Drainer \cap Command = {}
  BY BoundsOk, ProcsOk DEF Proc

\* A pass starts with these.
LEMMA FreshRun == Fresh \in Run
  BY Bounds DEF Fresh, Run, Stop

\* Changing one of them keeps the others.
LEMMA RunUpdates ==
  ASSUME NEW r \in Run
  PROVE  /\ \A x \in Stop : [r EXCEPT !.stop = x] \in Run
         /\ \A x \in 0..MaxRounds : [r EXCEPT !.round = x] \in Run
         /\ \A x \in 0..MaxAcquisitions : [r EXCEPT !.acquisition = x] \in Run
         /\ \A x \in 0..MaxStreak : [r EXCEPT !.took = TRUE, !.seen = x, !.round = 1] \in Run
         /\ [r EXCEPT !.added = FALSE] \in Run /\ [r EXCEPT !.flushed = TRUE] \in Run
         /\ [r EXCEPT !.covers = TRUE, !.added = TRUE] \in Run
         /\ \A x \in BOOLEAN : [r EXCEPT !.covers = x, !.added = FALSE] \in Run
  <1>1. /\ \A x \in Stop : [r EXCEPT !.stop = x] \in Run
        /\ \A x \in 0..MaxRounds : [r EXCEPT !.round = x] \in Run
        /\ \A x \in 0..MaxAcquisitions : [r EXCEPT !.acquisition = x] \in Run
    BY DEF Run
  <1>2. \A x \in 0..MaxStreak : [r EXCEPT !.took = TRUE, !.seen = x, !.round = 1] \in Run
    <2>1. 1 \in 0..MaxRounds
      BY Bounds
    <2> QED BY <2>1 DEF Run
  <1>3. /\ [r EXCEPT !.added = FALSE] \in Run /\ [r EXCEPT !.flushed = TRUE] \in Run
        /\ [r EXCEPT !.covers = TRUE, !.added = TRUE] \in Run
    BY DEF Run
  <1>4. \A x \in BOOLEAN : [r EXCEPT !.covers = x, !.added = FALSE] \in Run
    BY DEF Run
  <1> QED BY <1>1, <1>2, <1>3, <1>4

\* Each has its range.
LEMMA RunFields ==
  ASSUME NEW r \in Run
  PROVE  /\ r.round \in 0..MaxRounds /\ r.acquisition \in 0..MaxAcquisitions /\ r.took \in BOOLEAN
         /\ r.covers \in BOOLEAN /\ r.added \in BOOLEAN /\ r.stop \in Stop
         /\ r.flushed \in BOOLEAN /\ r.seen \in 0..MaxStreak
  BY DEF Run

\* The types of the variables, group by group.
DataOK == /\ rowsHeld \subseteq queue /\ queue \subseteq Hook
          /\ markersHeld \subseteq markers /\ markers \subseteq Hook
          /\ known \subseteq Hook
StateOK == {claim, hold, rejected, setback} \subseteq BOOLEAN /\ streak \in 0..MaxStreak
LeaseOK == owner \in [Kind -> Proc \cup {None}] /\ lapsed \subseteq {k \in Kind : owner[k] # None}
HookOK == faults \subseteq Fault /\ hook \in [Hook -> {"idle", "queued", "marked", "claimed", "over"}]
ProcOK == pc \in [Proc -> Stage] /\ batch \in [Proc -> SUBSET Hook] /\ run \in [Proc -> Run]

\* Together they are TypeOK.
LEMMA Groups == TypeOK <=> DataOK /\ StateOK /\ LeaseOK /\ HookOK /\ ProcOK
  BY DEF TypeOK, DataOK, StateOK, LeaseOK, HookOK, ProcOK, Run

\* They hold at the start.
LEMMA TypeInit == Init => TypeOK
  <1> SUFFICES ASSUME Init PROVE DataOK /\ StateOK /\ LeaseOK /\ HookOK /\ ProcOK
    BY Groups
  <1>1. DataOK /\ StateOK /\ LeaseOK
    <2>1. DataOK
      BY DEF Init, DataOK
    <2>2. StateOK
      <3>1. 0 \in 0..MaxStreak
        BY Bounds
      <3> QED BY <3>1 DEF Init, StateOK
    <2>3. LeaseOK
      BY DEF Init, LeaseOK
    <2> QED BY <2>1, <2>2, <2>3
  <1>2. HookOK
    BY ScenariosOk DEF Init, HookOK
  <1>3. ProcOK
    <2>1. pc \in [Proc -> Stage]
      BY DEF Init, Stage
    <2>2. batch \in [Proc -> SUBSET Hook] /\ run \in [Proc -> Run]
      BY FreshRun DEF Init
    <2> QED BY <2>1, <2>2 DEF ProcOK
  <1> QED BY <1>1, <1>2, <1>3

\* What renewing, taking and giving up leases does to their rows.
LEMMA LeaseMoves ==
  ASSUME LeaseOK
  PROVE  /\ \A p \in Proc, ks \in SUBSET Kind : Take(p, ks) => LeaseOK'
         /\ \A ks \in SUBSET Kind : Free(ks) => LeaseOK'
         /\ \A p \in Proc : Renew(p) => LeaseOK'
         /\ \A p \in Proc : LetGo(p) /\ StateOK => LeaseOK' /\ setback' \in BOOLEAN
  <1>1. ASSUME NEW p \in Proc, NEW ks \in SUBSET Kind, Take(p, ks) PROVE LeaseOK'
    BY <1>1, Bounds DEF Take, LeaseOK
  <1>2. ASSUME NEW ks \in SUBSET Kind, Free(ks) PROVE LeaseOK'
    BY <1>2 DEF Free, LeaseOK
  <1>3. ASSUME NEW p \in Proc, Renew(p) PROVE LeaseOK'
    BY <1>3 DEF Renew, LeaseOK
  <1>4. ASSUME NEW p \in Proc, LetGo(p), StateOK PROVE LeaseOK' /\ setback' \in BOOLEAN
    <2> DEFINE mine == {k \in Kinds(p) : owner[k] = p}
    <2>1. mine \in SUBSET Kind
      BY DEF Kinds, Kind
    <2>2. CASE UNCHANGED lease /\ setback' = TRUE
      BY <2>2 DEF LeaseOK
    <2>3. CASE Free(mine) /\ UNCHANGED setback
      <3>1. setback \in BOOLEAN
        BY <1>4 DEF StateOK
      <3> HIDE DEF mine
      <3> QED BY <2>1, <2>3, <1>2, <3>1
    <2> QED BY <1>4, <2>2, <2>3 DEF LetGo
  <1> QED BY <1>1, <1>2, <1>3, <1>4

\* Hooks, and what passes by itself, keep the types.
LEMMA TypeHooks ==
  ASSUME TypeOK,
         \/ \E h \in Hook : Enqueue(h) \/ HookProceeds(h) \/ HookKilled(h)
         \/ \E k \in Kind : LapseAbandoned(k)
         \/ \E p \in Proc : LapseAsleep(p)
         \/ ClaimExpires \/ HoldExpires \/ TokenTriedAgain \/ RetryTimeComes
  PROVE  TypeOK'
  <1> SUFFICES (DataOK /\ StateOK /\ LeaseOK /\ HookOK /\ ProcOK)'
    BY DEF TypeOK, DataOK, StateOK, LeaseOK, HookOK, ProcOK, Run
  <1>t. DataOK /\ StateOK /\ LeaseOK /\ HookOK /\ ProcOK
    BY Groups
  <1>1. ASSUME NEW h \in Hook, Enqueue(h) \/ Mark(h) PROVE (DataOK /\ StateOK /\ LeaseOK /\ HookOK /\ ProcOK)'
    <2>1. HookOK' /\ DataOK'
      BY <1>1, <1>t DEF Enqueue, Mark, HookGoesTo, HookOK, DataOK
    <2>2. UNCHANGED <<state, setback, lease, pc, batch, run>>
      BY <1>1 DEF Enqueue, Mark
    <2> QED BY <1>t, <2>1, <2>2 DEF StateOK, LeaseOK, ProcOK
  <1>2. ASSUME NEW h \in Hook, Claim(h) \/ LeaveIt(h) \/ SpawnFails(h) \/ HookKilled(h)
        PROVE (DataOK /\ StateOK /\ LeaseOK /\ HookOK /\ ProcOK)'
    <2>1. HookOK' /\ StateOK'
      BY <1>2, <1>t DEF Claim, LeaveIt, SpawnFails, HookKilled, HookGoesTo, HookOK, StateOK
    <2>2. UNCHANGED <<data, lease, pc, batch, run>>
      BY <1>2 DEF Claim, LeaveIt, SpawnFails, HookKilled
    <2> QED BY <1>t, <2>1, <2>2 DEF DataOK, LeaseOK, ProcOK
  <1>3. ASSUME NEW h \in Hook, NEW p \in Drainer, Spawn(h, p)
        PROVE (DataOK /\ StateOK /\ LeaseOK /\ HookOK /\ ProcOK)'
    <2>1. HookOK' /\ ProcOK'
      BY <1>3, <1>t DEF Spawn, GoTo, HookGoesTo, HookOK, ProcOK, Stage
    <2> QED BY <1>3, <1>t, <2>1 DEF Spawn, DataOK, StateOK, LeaseOK
  <1>4. ASSUME NEW k \in Kind, LapseAbandoned(k) PROVE (DataOK /\ StateOK /\ LeaseOK /\ HookOK /\ ProcOK)'
    <2>1. LeaseOK'
      BY <1>4, <1>t, LeaseMoves DEF LapseAbandoned
    <2> QED BY <1>4, <1>t, <2>1 DEF LapseAbandoned, DataOK, StateOK, HookOK, ProcOK
  <1>5. ASSUME NEW p \in Proc, LapseAsleep(p) PROVE (DataOK /\ StateOK /\ LeaseOK /\ HookOK /\ ProcOK)'
    <2> DEFINE mine == {k \in Kinds(p) : Held(k) /\ owner[k] = p}
    <2>1. \E ks \in SUBSET mine : lapsed' = lapsed \cup ks
      BY <1>5 DEF LapseAsleep
    <2>2. mine \subseteq {k \in Kind : owner[k] # None}
      BY Bounds DEF Kinds, Kind
    <2> HIDE DEF mine
    <2>3. LeaseOK'
      BY <1>5, <1>t, <2>1, <2>2 DEF LapseAsleep, LeaseOK
    <2> QED BY <1>5, <1>t, <2>3 DEF LapseAsleep, DataOK, StateOK, HookOK, ProcOK
  <1>6. CASE ClaimExpires \/ HoldExpires \/ TokenTriedAgain
    <2>1. StateOK'
      BY <1>6, <1>t DEF ClaimExpires, HoldExpires, TokenTriedAgain, StateOK
    <2>2. UNCHANGED <<faults, hook, data, lease, pc, batch, run>>
      BY <1>6 DEF ClaimExpires, HoldExpires, TokenTriedAgain
    <2> QED BY <1>t, <2>1, <2>2 DEF DataOK, LeaseOK, HookOK, ProcOK
  <1>7. CASE RetryTimeComes
    BY <1>7, <1>t DEF RetryTimeComes, DataOK, StateOK, LeaseOK, HookOK, ProcOK
  <1> QED BY <1>1, <1>2, <1>3, <1>4, <1>5, <1>6, <1>7 DEF HookProceeds

\* Passes and commands keep the types.
LEMMA TypeProcs ==
  ASSUME TypeOK, NEW p \in Proc,
         \/ Proceed(p) \/ Crash(p) \/ Import(p) \/ \E d \in Drainer : DrainByHand(p, d)
  PROVE  TypeOK'
  <1> DEFINE All == DataOK /\ StateOK /\ LeaseOK /\ HookOK /\ ProcOK
  <1> SUFFICES All'
    BY DEF TypeOK, DataOK, StateOK, LeaseOK, HookOK, ProcOK, Run
  <1>t. All
    BY Groups
  <1>r. run[p] \in Run /\ pc \in [Proc -> Stage] /\ batch \in [Proc -> SUBSET Hook] /\ batch[p] \subseteq Hook
    BY <1>t DEF ProcOK
  <1>g. \A s \in Stage : GoTo(p, s) => pc' \in [Proc -> Stage]
    BY <1>r DEF GoTo
  <1>u. \A r \in Run : run' = [run EXCEPT ![p] = r] => run' \in [Proc -> Run]
    BY <1>t DEF ProcOK
  <1>b. \A b \in SUBSET Hook : batch' = [batch EXCEPT ![p] = b] => batch' \in [Proc -> SUBSET Hook]
    BY <1>r
  <1>s. ASSUME NEW x \in Stop, Return(p, x) PROVE ProcOK'
    <2>1. run' = [run EXCEPT ![p] = [run[p] EXCEPT !.stop = x]]
      BY <1>s, <1>t DEF Return, ProcOK
    <2>2. run' \in [Proc -> Run]
      BY <2>1, <1>r, <1>u, RunUpdates
    <2>3. pc' \in [Proc -> Stage]
      BY <1>s, <1>g DEF Return, Stage, Leased
    <2>4. batch' \in [Proc -> SUBSET Hook]
      BY <1>s, <1>r DEF Return
    <2> QED BY <2>2, <2>3, <2>4 DEF ProcOK
  <1>1. CASE Start(p)
    <2>1. \/ run' = [run EXCEPT ![p] = [run[p] EXCEPT !.stop = "unauthorized"]]
          \/ run' = [run EXCEPT ![p] = [run[p] EXCEPT !.acquisition = 1]]
      BY <1>1, <1>t DEF Start, ProcOK
    <2>2. run' \in [Proc -> Run]
      <3>1. 1 \in 0..MaxAcquisitions /\ "unauthorized" \in Stop
        BY Bounds DEF Stop
      <3> QED BY <2>1, <3>1, <1>r, <1>u, RunUpdates
    <2>3. ProcOK' /\ StateOK'
      BY <1>1, <2>2, <1>g, <1>t DEF Start, ProcOK, StateOK, Stage, Leased
    <2> QED BY <1>1, <2>3, <1>t DEF Start, DataOK, LeaseOK, HookOK
  <1>2. CASE Acquire(p)
    <2>1. LeaseOK' /\ \E x \in BOOLEAN : run' = [run EXCEPT ![p].covers = x, ![p].added = FALSE]
      <3> DEFINE got == {"events"} \cup {k \in {"transcripts"} : Takeable(k)}
      <3>1. got \in SUBSET Kind /\ Take(p, got)
        BY <1>2 DEF Acquire, Kind
      <3>2. run' = [run EXCEPT ![p].covers = "transcripts" \in got, ![p].added = FALSE]
        BY <1>2 DEF Acquire
      <3> HIDE DEF got
      <3>3. ("transcripts" \in got) \in BOOLEAN
        OBVIOUS
      <3>4. LeaseOK'
        BY <3>1, <1>t, LeaseMoves
      <3> QED BY <3>2, <3>3, <3>4
    <2>2. run' \in [Proc -> Run]
      <3>1. PICK x \in BOOLEAN : run' = [run EXCEPT ![p] = [run[p] EXCEPT !.covers = x, !.added = FALSE]]
        BY <2>1, <1>t DEF ProcOK
      <3> QED BY <3>1, <1>r, <1>u, RunUpdates
    <2>3. ProcOK'
      BY <1>2, <2>2, <1>g, <1>t DEF Acquire, ProcOK, Stage, Leased
    <2> QED BY <1>2, <2>1, <2>3, <1>t DEF Acquire, DataOK, StateOK, HookOK
  <1>3. CASE AcquireBusy(p) \/ CappedLook(p) \/ ShipDone(p) \/ ImportGivesUp(p) \/ Import(p)
    <2>1. pc' \in [Proc -> Stage]
      BY <1>3, <1>g DEF AcquireBusy, CappedLook, ShipDone, ImportGivesUp, Import, Stage, Leased
    <2>2. UNCHANGED <<faults, hook, data, state, lease, batch, run>> /\ setback' \in {TRUE, setback}
      BY <1>3 DEF AcquireBusy, CappedLook, ShipDone, ImportGivesUp, Import
    <2> QED BY <2>1, <2>2, <1>t DEF DataOK, StateOK, LeaseOK, HookOK, ProcOK
  <1>4. CASE Begin(p)
    <2>1. run' = [run EXCEPT ![p] = [run[p] EXCEPT !.took = TRUE, !.seen = streak, !.round = 1]]
      BY <1>4, <1>t DEF Begin, ProcOK
    <2>2. run' \in [Proc -> Run]
      BY <2>1, <1>r, <1>u, <1>t, RunUpdates DEF StateOK
    <2>3. ProcOK' /\ StateOK'
      BY <1>4, <2>2, <1>g, <1>t DEF Begin, ProcOK, StateOK, Stage, Leased
    <2> QED BY <1>4, <2>3, <1>t DEF Begin, DataOK, LeaseOK, HookOK
  <1>5. CASE LeaseLost(p) \/ Capped(p) \/ NoToken(p) \/ PassDone(p) \/ LeaveTranscripts(p)
    <2>1. /\ \E x \in Stop : Return(p, x)
          /\ UNCHANGED <<faults, hook, data, state, lease>> /\ setback' \in {TRUE, setback}
      BY <1>5 DEF LeaseLost, Capped, NoToken, PassDone, LeaveTranscripts, Stop
    <2> QED BY <2>1, <1>s, <1>t DEF DataOK, StateOK, LeaseOK, HookOK
  <1>6. CASE PostFails(p) \/ (\E m \in Hook : UploadFails(p, m)) \/ Unauthorized(p)
    <2>1. /\ \E x \in Stop : Return(p, x)
          /\ UNCHANGED <<faults, hook, lease>> /\ setback' = TRUE
      BY <1>6 DEF PostFails, UploadFails, Unauthorized, Stop
    <2>2. DataOK' /\ StateOK'
      BY <1>6, <1>t DEF PostFails, UploadFails, Unauthorized, DataOK, StateOK
    <2> QED BY <2>1, <2>2, <1>s, <1>t DEF LeaseOK, HookOK
  <1>n. ASSUME Renew(p) PROVE LeaseOK' /\ run' \in [Proc -> Run]
    <2>1. run' = [run EXCEPT ![p] = [run[p] EXCEPT !.added = FALSE]]
      BY <1>n, <1>t DEF Renew, ProcOK
    <2> QED BY <1>n, <2>1, <1>r, <1>u, <1>t, RunUpdates, LeaseMoves
  <1>7. CASE Flush(p) \/ Post(p) \/ Upload(p)
    <2>1. Renew(p) /\ UNCHANGED <<faults, hook, data, state, setback>>
      BY <1>7 DEF Flush, Post, Upload
    <2>2. pc' \in [Proc -> Stage]
      BY <1>7, <1>g DEF Flush, Post, Upload, Stage, Leased
    <2>3. batch' \in [Proc -> SUBSET Hook]
      <3>1. Due \subseteq Hook
        BY <1>t DEF Due, DataOK
      <3>2. CASE Flush(p)
        BY <3>1, <3>2, <1>b, <1>r DEF Flush
      <3> QED BY <1>7, <3>2, <1>r DEF Post, Upload
    <2> QED BY <2>1, <2>2, <2>3, <1>n, <1>t DEF DataOK, StateOK, HookOK, ProcOK
  <1>8. CASE Sent(p)
    <2>1. run' = [run EXCEPT ![p] = [run[p] EXCEPT !.flushed = TRUE]]
      BY <1>8, <1>t DEF Sent, ProcOK
    <2>2. run' \in [Proc -> Run]
      BY <2>1, <1>r, <1>u, RunUpdates
    <2>3. ProcOK'
      <3>1. pc' \in [Proc -> Stage]
        BY <1>8, <1>g DEF Sent, Stage, Leased
      <3>2. batch' \in [Proc -> SUBSET Hook]
        BY <1>8, <1>r DEF Sent
      <3> QED BY <2>2, <3>1, <3>2 DEF ProcOK
    <2>4. DataOK' /\ StateOK'
      BY <1>8, <1>t, <1>r DEF Sent, DataOK, StateOK
    <2> QED BY <1>8, <2>3, <2>4, <1>t DEF Sent, LeaseOK, HookOK
  <1>9. CASE Ship(p)
    <2>1. LeaseOK' /\ run' \in [Proc -> Run]
      <3>1. CASE run[p].covers
        BY <1>9, <3>1, <1>t DEF Ship, LeaseOK, ProcOK
      <3>2. CASE ~run[p].covers
        <4>1. run' = [run EXCEPT ![p] = [run[p] EXCEPT !.covers = TRUE, !.added = TRUE]]
          BY <1>9, <3>2, <1>t DEF Ship, ProcOK
        <4>2. Take(p, {"transcripts"}) /\ {"transcripts"} \in SUBSET Kind
          BY <1>9, <3>2 DEF Ship, Kind
        <4> QED BY <4>1, <4>2, <1>r, <1>u, <1>t, RunUpdates, LeaseMoves
      <3> QED BY <3>1, <3>2
    <2>2. Shippable \in SUBSET Hook
      BY <1>t DEF Shippable, DataOK
    <2>3. ProcOK'
      BY <1>9, <2>1, <2>2, <1>g, <1>b DEF Ship, ProcOK, Stage, Leased
    <2> QED BY <1>9, <2>1, <2>3, <1>t DEF Ship, DataOK, StateOK, HookOK
  <1>10. ASSUME NEW m \in Hook, Uploaded(p, m) \/ SessionNotReady(p, m) PROVE All'
    <2>1. batch' = [batch EXCEPT ![p] = batch[p] \ {m}] /\ pc' \in [Proc -> Stage]
      BY <1>10, <1>g, <1>r DEF Uploaded, SessionNotReady, Stage, Leased
    <2>2. DataOK'
      BY <1>10, <1>t DEF Uploaded, SessionNotReady, DataOK
    <2>3. batch' \in [Proc -> SUBSET Hook]
      BY <2>1, <1>b, <1>r
    <2>4. UNCHANGED <<faults, hook, state, lease, run, setback>>
      BY <1>10 DEF Uploaded, SessionNotReady
    <2> QED BY <2>1, <2>2, <2>3, <2>4, <1>t DEF StateOK, LeaseOK, HookOK, ProcOK
  <1>11. CASE NextRound(p)
    <2>1. run' = [run EXCEPT ![p] = [run[p] EXCEPT !.round = run[p].round + 1]]
      BY <1>11, <1>t DEF NextRound, ProcOK
    <2>2. run[p].round + 1 \in 0..MaxRounds
      BY <1>11, <1>r, RunFields, Bounds DEF NextRound
    <2>3. ProcOK'
      BY <1>11, <2>1, <2>2, <1>g, <1>r, <1>u, RunUpdates DEF NextRound, ProcOK, Stage, Leased
    <2> QED BY <1>11, <2>3, <1>t DEF NextRound, DataOK, StateOK, LeaseOK, HookOK
  <1>12. CASE Release(p) \/ ImportEnds(p)
    <2>1. LetGo(p) /\ UNCHANGED <<faults, hook, data, state, batch, run>>
      BY <1>12 DEF Release, ImportEnds
    <2>2. pc' \in [Proc -> Stage]
      BY <1>12, <1>g DEF Release, ImportEnds, Stage
    <2>3. LeaseOK' /\ setback' \in BOOLEAN
      BY <2>1, <1>t, LeaseMoves
    <2> QED BY <2>1, <2>2, <2>3, <1>t DEF DataOK, StateOK, HookOK, ProcOK
  <1>13. CASE LookAgain(p)
    <2>1. run' \in [Proc -> Run]
      <3>1. CASE MoreWork(p) /\ run[p].acquisition < MaxAcquisitions
        <4>1. run' = [run EXCEPT ![p] = [run[p] EXCEPT !.acquisition = run[p].acquisition + 1]]
          BY <1>13, <3>1, <1>t DEF LookAgain, ProcOK
        <4>2. run[p].acquisition + 1 \in 0..MaxAcquisitions
          BY <3>1, <1>r, RunFields, Bounds
        <4> QED BY <4>1, <4>2, <1>r, <1>u, RunUpdates
      <3>2. CASE ~(MoreWork(p) /\ run[p].acquisition < MaxAcquisitions)
        BY <1>13, <3>2, <1>t DEF LookAgain, ProcOK
      <3> QED BY <3>1, <3>2
    <2>2. pc' \in [Proc -> Stage] /\ UNCHANGED <<faults, hook, data, state, lease, batch>>
      BY <1>13, <1>g DEF LookAgain, Stage
    <2>3. setback' \in BOOLEAN
      <3>1. MoreWork(p) \in BOOLEAN
        BY <1>r, RunFields DEF MoreWork
      <3> QED BY <1>13, <3>1, <1>t DEF LookAgain, StateOK
    <2> QED BY <2>1, <2>2, <2>3, <1>t DEF DataOK, StateOK, LeaseOK, HookOK, ProcOK
  <1>14. CASE Report(p)
    <2>1. pc' \in [Proc -> Stage] /\ UNCHANGED <<faults, hook, data, claim, rejected, lease, batch, run, setback>>
      BY <1>14, <1>g DEF Report, Stage
    <2>2. hold' \in BOOLEAN /\ streak' \in 0..MaxStreak
      <3>1. run[p].seen \in 0..MaxStreak /\ hold \in BOOLEAN /\ streak \in 0..MaxStreak
        BY <1>r, <1>t, RunFields DEF StateOK
      <3> DEFINE s == run[p].stop
      <3>2. CASE s \in Failing
        <4>1. hold' = TRUE /\ streak' = (IF s # "transport" THEN streak
                       ELSE IF run[p].seen < MaxStreak THEN run[p].seen + 1 ELSE MaxStreak)
          BY <1>14, <3>2 DEF Report
        <4> QED BY <3>1, <4>1, Bounds
      <3>3. CASE s \notin Failing /\ (run[p].flushed \/ (s = "done" /\ queue = {}))
        <4>1. hold' = FALSE /\ streak' = 0
          BY <1>14, <3>3 DEF Report
        <4>2. 0 \in 0..MaxStreak
          BY Bounds
        <4>3. streak' \in 0..MaxStreak
          BY <4>1, <4>2
        <4>4. hold' \in BOOLEAN
          BY <4>1
        <4> QED BY <4>3, <4>4
      <3>4. CASE s \notin Failing /\ ~(run[p].flushed \/ (s = "done" /\ queue = {}))
        BY <1>14, <3>1, <3>4 DEF Report
      <3> QED BY <3>2, <3>3, <3>4
    <2> QED BY <2>1, <2>2, <1>t DEF DataOK, StateOK, LeaseOK, HookOK, ProcOK
  <1>15. CASE Exit(p)
    <2>1. ProcOK'
      BY <1>15, <1>g, <1>u, <1>t, FreshRun DEF Exit, ProcOK, Stage
    <2>2. StateOK'
      BY <1>15, <1>r, <1>t, RunFields DEF Exit, StateOK
    <2> QED BY <1>15, <2>1, <2>2, <1>t DEF Exit, DataOK, LeaseOK, HookOK
  <1>16. CASE ImportStarts(p)
    <2>1. LeaseOK' /\ pc' \in [Proc -> Stage]
      <3>1. Take(p, {"transcripts"}) /\ {"transcripts"} \in SUBSET Kind
        BY <1>16 DEF ImportStarts, Kind
      <3> QED BY <1>16, <3>1, <1>g, <1>t, LeaseMoves DEF ImportStarts, Stage
    <2> QED BY <1>16, <2>1, <1>t DEF ImportStarts, DataOK, StateOK, HookOK, ProcOK
  <1>17. CASE ImportThrows(p)
    <2>1. {k \in Kinds(p) : owner[k] = p} \in SUBSET Kind
      BY DEF Kinds, Kind
    <2>2. LeaseOK' /\ pc' \in [Proc -> Stage]
      BY <1>17, <2>1, <1>g, <1>t, LeaseMoves DEF ImportThrows, Stage
    <2> QED BY <1>17, <2>2, <1>t DEF ImportThrows, DataOK, StateOK, HookOK, ProcOK
  <1>18. ASSUME NEW d \in Drainer, PostDrain(p, d) \/ DrainByHand(p, d) PROVE All'
    <2>1. pc' = [pc EXCEPT ![p] = "over", ![d] = "start"] /\ UNCHANGED <<faults, hook, data, state, lease, batch, run, setback>>
      BY <1>18 DEF PostDrain, DrainByHand
    <2>2. pc' \in [Proc -> Stage]
      BY <2>1, <1>r DEF Stage
    <2> QED BY <2>1, <2>2, <1>t DEF DataOK, StateOK, LeaseOK, HookOK, ProcOK
  <1>19. CASE Crash(p)
    <2>1. ProcOK'
      <3>1. pc' \in [Proc -> Stage]
        BY <1>19, <1>g DEF Crash, Stage
      <3>2. batch' \in [Proc -> SUBSET Hook]
        BY <1>19, <1>r DEF Crash
      <3>3. run' \in [Proc -> Run]
        BY <1>19, <1>u, FreshRun DEF Crash
      <3> QED BY <3>1, <3>2, <3>3 DEF ProcOK
    <2> QED BY <1>19, <2>1, <1>t DEF Crash, DataOK, StateOK, LeaseOK, HookOK
  <1> QED BY <1>1, <1>2, <1>3, <1>4, <1>5, <1>6, <1>7, <1>8, <1>9, <1>10, <1>11, <1>12, <1>13,
             <1>14, <1>15, <1>16, <1>17, <1>18, <1>19 DEF Proceed

\* Types hold through every step.
LEMMA TypeStep == TypeOK /\ [Next]_vars => TypeOK'
  <1>1. TypeOK /\ Next => TypeOK'
    BY TypeHooks, TypeProcs, Bounds DEF Next
  <1>2. TypeOK /\ UNCHANGED vars => TypeOK'
    BY DEF TypeOK, vars
  <1> QED BY <1>1, <1>2

-----------------------------------------------------------------------------
(* Steps, by what they come to.                                            *)

\* Nobody but p does anything.
Only(p) == \A q \in Proc \ {p} : pc'[q] = pc[q] /\ run'[q] = run[q]

\* A step of a pass from the moment it holds its lease until it is about to let
\* it go.
Works(p) ==
  /\ pc[p] \in Leased \ {"begin", "release"} /\ pc'[p] \in Leased \ {"begin"} /\ Only(p)
  /\ run'[p].took = run[p].took
  /\ pc'[p] = "release" /\ run'[p].stop # "done" => setback' \/ ~Intact(p)
  /\ \/ ~run[p].covers /\ run'[p].covers /\ Take(p, {"transcripts"})
     \/ /\ run'[p].covers = run[p].covers /\ owner' = owner
        /\ lapsed' = lapsed \/ (Intact(p) /\ lapsed' = lapsed \ Kinds(p))
  /\ setback' \in {setback, TRUE}
  /\ UNCHANGED <<faults, hook, claim>>

\* Each action between taking the lease and letting it go is such a step.
LEMMA Working ==
  ASSUME TypeOK, NEW p \in Proc,
         \/ LeaseLost(p) \/ Capped(p) \/ Flush(p) \/ Post(p) \/ Sent(p) \/ PostFails(p)
         \/ Unauthorized(p) \/ NoToken(p) \/ Ship(p) \/ LeaveTranscripts(p) \/ Upload(p)
         \/ \E m \in Hook : Uploaded(p, m) \/ SessionNotReady(p, m) \/ UploadFails(p, m)
         \/ ShipDone(p) \/ NextRound(p) \/ PassDone(p)
  PROVE  Works(p)
  <1>t. pc \in [Proc -> Stage] /\ run \in [Proc -> Run] /\ run[p] \in Run
    BY Groups DEF ProcOK
  <1>r. ASSUME NEW x, Return(p, x)
        PROVE  /\ pc'[p] = "release" /\ Only(p) /\ run'[p].stop = x
               /\ run'[p].took = run[p].took /\ run'[p].covers = run[p].covers
    BY <1>r, <1>t DEF Return, GoTo, Only, Run
  <1>n. ASSUME Renew(p), NEW s, GoTo(p, s)
        PROVE  /\ pc'[p] = s /\ Only(p) /\ owner' = owner /\ lapsed' = lapsed \ Kinds(p) /\ Intact(p)
               /\ run'[p].took = run[p].took /\ run'[p].covers = run[p].covers
    BY <1>n, <1>t DEF Renew, GoTo, Only, Run
  <1>g. ASSUME NEW s, GoTo(p, s), run' = run
        PROVE  /\ pc'[p] = s /\ Only(p)
               /\ run'[p].took = run[p].took /\ run'[p].covers = run[p].covers
    BY <1>g, <1>t DEF GoTo, Only
  <1>1. CASE LeaseLost(p)
    BY <1>1, <1>r DEF LeaseLost, Works, AsksStopNow, Leased
  <1>2. CASE Capped(p) \/ NoToken(p) \/ LeaveTranscripts(p) \/ PassDone(p)
    <2>1. \E x \in Stop : Return(p, x) /\ (x # "done" => setback')
      BY <1>2 DEF Capped, NoToken, LeaveTranscripts, PassDone, Stop
    <2>2. /\ pc[p] \in Leased \ {"begin", "release"} /\ UNCHANGED <<lease, faults, hook, claim>>
          /\ setback' \in {setback, TRUE}
      BY <1>2 DEF Capped, NoToken, LeaveTranscripts, PassDone, AsksStopNow, Leased
    <2> QED BY <2>1, <2>2, <1>r DEF Works, Leased
  <1>3. CASE PostFails(p) \/ Unauthorized(p) \/ \E m \in Hook : UploadFails(p, m)
    <2>1. \E x \in Stop : Return(p, x)
      BY <1>3 DEF PostFails, Unauthorized, UploadFails, Stop
    <2>2. /\ pc[p] \in Leased \ {"begin", "release"} /\ UNCHANGED <<lease, faults, hook, claim>>
          /\ setback' = TRUE
      BY <1>3 DEF PostFails, Unauthorized, UploadFails, Leased
    <2> QED BY <2>1, <2>2, <1>r DEF Works, Leased
  <1>4. CASE Flush(p) \/ Post(p) \/ Upload(p)
    <2>1. /\ pc[p] \in Leased \ {"begin", "release"} /\ UNCHANGED <<faults, hook, claim, setback>>
          /\ Renew(p) /\ \E s \in Leased \ {"begin", "release"} : GoTo(p, s)
      BY <1>4 DEF Flush, Post, Upload, Leased
    <2> QED BY <2>1, <1>n DEF Works
  <1>5. CASE Sent(p)
    <2>1. /\ pc[p] \in Leased \ {"begin", "release"} /\ pc'[p] \in Leased \ {"begin", "release"} /\ Only(p)
          /\ run'[p].took = run[p].took /\ run'[p].covers = run[p].covers
          /\ UNCHANGED <<faults, hook, claim, setback, lease>>
      BY <1>5, <1>t DEF Sent, GoTo, Only, Run, Leased
    <2> QED BY <2>1 DEF Works
  <1>6. CASE Ship(p)
    <2>1. /\ pc[p] \in Leased \ {"begin", "release"} /\ pc'[p] \in Leased \ {"begin", "release"}
          /\ UNCHANGED <<faults, hook, claim, setback>>
      BY <1>6, <1>t DEF Ship, GoTo, Leased
    <2>2. CASE run[p].covers
      BY <1>6, <2>1, <2>2, <1>g DEF Ship, Works
    <2>3. CASE ~run[p].covers
      <3>1. /\ Take(p, {"transcripts"}) /\ run'[p].took = run[p].took /\ run'[p].covers = TRUE /\ Only(p)
        BY <1>6, <2>3, <1>t DEF Ship, Run, GoTo, Only
      <3> QED BY <2>1, <2>3, <3>1 DEF Works
    <2> QED BY <2>2, <2>3
  <1>7. ASSUME NEW m \in Hook, Uploaded(p, m) \/ SessionNotReady(p, m) PROVE Works(p)
    <2>1. /\ pc[p] \in Leased \ {"begin", "release"} /\ GoTo(p, "upload")
          /\ UNCHANGED <<faults, hook, claim, setback, lease, run>>
      BY <1>7 DEF Uploaded, SessionNotReady, Leased
    <2> QED BY <2>1, <1>g DEF Works, Leased
  <1>8. CASE ShipDone(p)
    <2>1. /\ pc[p] \in Leased \ {"begin", "release"} /\ GoTo(p, "again")
          /\ UNCHANGED <<faults, hook, claim, setback, lease, run>>
      BY <1>8 DEF ShipDone, Leased
    <2> QED BY <2>1, <1>g DEF Works, Leased
  <1>9. CASE NextRound(p)
    <2>1. /\ pc[p] \in Leased \ {"begin", "release"} /\ pc'[p] \in Leased \ {"begin", "release"} /\ Only(p)
          /\ run'[p].took = run[p].took /\ run'[p].covers = run[p].covers
          /\ UNCHANGED <<faults, hook, claim, setback, lease>>
      BY <1>9, <1>t DEF NextRound, GoTo, Only, Run, Leased
    <2> QED BY <2>1 DEF Works
  <1> QED BY <1>1, <1>2, <1>3, <1>4, <1>5, <1>6, <1>7, <1>8, <1>9

\* A step of a command.
Commands(c) == Import(c) \/ ImportStarts(c) \/ ImportGivesUp(c) \/ ImportEnds(c) \/ ImportThrows(c)

\* A drainer is started by a command.
Launches(c, d) == (PostDrain(c, d) \/ DrainByHand(c, d)) /\ d \in Drainer

\* All that processes do.
LEMMA Steps ==
  ASSUME TypeOK, NEW p \in Proc,
         Proceed(p) \/ Import(p) \/ \E d \in Drainer : DrainByHand(p, d)
  PROVE  \/ Works(p) \/ Start(p) \/ Acquire(p) \/ AcquireBusy(p) \/ Begin(p) \/ Release(p)
         \/ LookAgain(p) \/ CappedLook(p) \/ Report(p) \/ Exit(p) \/ Commands(p)
         \/ \E d \in Drainer : Launches(p, d)
  BY Working DEF Proceed, Commands, Launches

\* Each stays at its stages.
LEMMA StagesStep == TypeOK /\ Stages /\ [Next]_vars => Stages'
  <1> SUFFICES ASSUME TypeOK, Stages, [Next]_vars PROVE Stages'
    OBVIOUS
  <1>t. pc \in [Proc -> Stage] /\ run \in [Proc -> Run]
    BY Groups DEF ProcOK
  <1>p. Drainer \subseteq Proc /\ Command \subseteq Proc /\ Drainer \cap Command = {} /\ Proc = Drainer \cup Command
    BY Bounds DEF Proc
  <1>1. ASSUME UNCHANGED <<pc, run>> PROVE Stages'
    BY <1>1 DEF Stages
  <1>2. ASSUME NEW p \in Drainer, Only(p), pc'[p] \in Leased \cup {"start", "acquire", "look", "report", "exit"}
        PROVE  Stages'
    BY <1>2, <1>p DEF Only, Stages, Leased
  <1>3. ASSUME NEW p \in Drainer, Only(p), pc'[p] = "off", ~run'[p].took PROVE Stages'
    BY <1>3, <1>p DEF Only, Stages
  <1>4. ASSUME NEW c \in Command, Only(c), pc'[c] \in {"wait", "import", "after", "over"} PROVE Stages'
    BY <1>4, <1>p DEF Only, Stages
  <1>5. ASSUME NEW p \in Proc, pc[p] \in Leased \cup {"start", "acquire", "look", "report", "exit"}
        PROVE  p \in Drainer
    BY <1>5, <1>p DEF Stages, Leased
  <1>6. ASSUME NEW p \in Proc, NEW s, GoTo(p, s)
        PROVE  pc'[p] = s /\ (\A q \in Proc \ {p} : pc'[q] = pc[q])
    BY <1>6, <1>t DEF GoTo
  <1>7. ASSUME NEW p \in Proc, Works(p) PROVE Stages'
    BY <1>7, <1>2, <1>5 DEF Works
  <1>8. ASSUME NEW p \in Proc, Start(p) \/ Acquire(p) \/ AcquireBusy(p) \/ Begin(p) \/ Release(p)
                               \/ LookAgain(p) \/ CappedLook(p) \/ Report(p)
        PROVE  Stages'
    <2>1. \E s \in Leased \cup {"start", "acquire", "look", "report", "exit"} : GoTo(p, s)
      BY <1>8 DEF Start, Acquire, AcquireBusy, Begin, Release, LookAgain, CappedLook, Report, Leased
    <2>2. \A q \in Proc \ {p} : run'[q] = run[q]
      BY <1>8, <1>t DEF Start, Acquire, AcquireBusy, Begin, Release, LookAgain, CappedLook, Report
    <2>3. p \in Drainer
      BY <1>8, <1>5 DEF Start, Acquire, AcquireBusy, Begin, Release, LookAgain, CappedLook, Report, Leased
    <2> QED BY <2>1, <2>2, <2>3, <1>2, <1>6 DEF Only
  <1>9. ASSUME NEW p \in Proc, Exit(p) PROVE Stages'
    <2>1. p \in Drainer /\ pc'[p] = "off" /\ ~run'[p].took /\ Only(p)
      BY <1>9, <1>5, <1>6, <1>t DEF Exit, Fresh, Only
    <2> QED BY <2>1, <1>3
  <1>10. ASSUME NEW p \in Proc, Commands(p) PROVE Stages'
    <2>1. /\ \E s \in {"wait", "import", "after", "over"} : GoTo(p, s)
          /\ run' = run
      BY <1>10 DEF Commands, Import, ImportStarts, ImportGivesUp, ImportEnds, ImportThrows
    <2>2. p \in Command
      BY <1>10, <1>p DEF Commands, Import, ImportStarts, ImportGivesUp, ImportEnds, ImportThrows, Stages
    <2> QED BY <2>1, <2>2, <1>4, <1>6 DEF Only
  <1>11. ASSUME NEW c \in Proc, NEW d \in Drainer, Launches(c, d) PROVE Stages'
    <2>1. /\ pc' = [pc EXCEPT ![c] = "over", ![d] = "start"] /\ run' = run
          /\ c \in Command
      BY <1>11, <1>p DEF Launches, PostDrain, DrainByHand, Stages
    <2> QED BY <2>1, <1>t, <1>p DEF Stages
  <1>12. ASSUME NEW p \in Proc, Crash(p) PROVE Stages'
    <2>1. GoTo(p, IF p \in Command THEN "over" ELSE "off")
      BY <1>12 DEF Crash
    <2>2. Only(p) /\ ~run'[p].took
      BY <1>12, <2>1, <1>6, <1>t DEF Crash, Fresh, Only
    <2> QED BY <2>1, <2>2, <1>3, <1>4, <1>6, <1>p
  <1>13. ASSUME NEW h \in Hook, NEW p \in Drainer, Spawn(h, p) PROVE Stages'
    <2>1. Only(p) /\ pc'[p] = "start"
      BY <1>13, <1>6, <1>p DEF Spawn, Only
    <2> QED BY <2>1, <1>2
  <1>14. CASE \/ \E h \in Hook : Enqueue(h) \/ Mark(h) \/ Claim(h) \/ LeaveIt(h) \/ SpawnFails(h) \/ HookKilled(h)
              \/ \E k \in Kind : LapseAbandoned(k)
              \/ \E p \in Proc : LapseAsleep(p)
              \/ ClaimExpires \/ HoldExpires \/ TokenTriedAgain \/ RetryTimeComes \/ UNCHANGED vars
    <2>1. UNCHANGED <<pc, run>>
      BY <1>14 DEF Enqueue, Mark, Claim, LeaveIt, SpawnFails, HookKilled, LapseAbandoned, LapseAsleep,
                   ClaimExpires, HoldExpires, TokenTriedAgain, RetryTimeComes, vars
    <2> QED BY <2>1, <1>1
  <1> QED BY <1>7, <1>8, <1>9, <1>10, <1>11, <1>12, <1>13, <1>14, <1>p, Steps DEF Next, HookProceeds

-----------------------------------------------------------------------------
(* The work.                                                               *)

\* No step loses sight of what is owed.
LEMMA WorkStep == TypeOK /\ Work /\ [Next]_vars => Work'
  <1> SUFFICES ASSUME TypeOK, Work, [Next]_vars PROVE Work'
    OBVIOUS
  <1>d. /\ rowsHeld \subseteq queue /\ markersHeld \subseteq markers
        /\ hook \in [Hook -> {"idle", "queued", "marked", "claimed", "over"}]
        /\ batch \in [Proc -> SUBSET Hook]
    BY Groups DEF DataOK, HookOK, ProcOK
  <1>w. /\ \A h \in Hook : h \in markers \/ hook[h] = "queued" => h \in known \cup queue
        /\ ~setback => rowsHeld = {} /\ markersHeld \subseteq queue
    BY DEF Work
  \* Steps that leave the data alone.
  <1>1. ASSUME UNCHANGED data, \A h \in Hook : hook'[h] = "queued" => hook[h] = "queued",
               ~setback' => ~setback \/ (rowsHeld = {} /\ markersHeld = {})
        PROVE  Work'
    BY <1>1, <1>w DEF Work
  <1>2. ASSUME NEW h \in Hook, HookProceeds(h) \/ HookKilled(h), ~Mark(h) PROVE Work'
    <2>1. UNCHANGED data /\ \E s \in {"claimed", "over"} : HookGoesTo(h, s)
      BY <1>2 DEF HookProceeds, Claim, LeaveIt, SpawnFails, HookKilled, Spawn
    <2>2. setback => setback'
      BY <1>2 DEF HookProceeds, Claim, LeaveIt, SpawnFails, HookKilled, Spawn
    <2>3. \A g \in Hook : hook'[g] = "queued" => hook[g] = "queued"
      BY <2>1, <1>d DEF HookGoesTo
    <2> QED BY <2>1, <2>2, <2>3, <1>1
  <1>3. ASSUME NEW h \in Hook, Enqueue(h) PROVE Work'
    <2>1. \A g \in Hook : hook'[g] = "queued" => hook[g] = "queued" \/ g = h
      BY <1>3, <1>d DEF Enqueue, HookGoesTo
    <2> QED BY <1>3, <2>1, <1>w DEF Enqueue, Work
  <1>4. ASSUME NEW h \in Hook, Mark(h) PROVE Work'
    <2>1. hook[h] = "queued" /\ \A g \in Hook : hook'[g] = "queued" => hook[g] = "queued"
      BY <1>4, <1>d DEF Mark, HookGoesTo
    <2>2. \A g \in Hook : g \in markers' => g \in markers \/ g = h
      BY <1>4 DEF Mark
    <2>3. UNCHANGED <<queue, known, rowsHeld, markersHeld, setback>>
      BY <1>4 DEF Mark
    <2> QED BY <2>1, <2>2, <2>3, <1>w DEF Work
  <1>5. ASSUME NEW p \in Proc, Sent(p) PROVE Work'
    <2>1. /\ known' = known \cup batch[p] /\ queue' = queue \ batch[p] /\ rowsHeld' = {} /\ markersHeld' = {}
          /\ UNCHANGED <<hook, markers>>
      BY <1>5 DEF Sent
    <2> QED BY <2>1, <1>w DEF Work
  <1>6. ASSUME NEW p \in Proc, PostFails(p) \/ \E m \in Hook : UploadFails(p, m) PROVE Work'
    <2>1. UNCHANGED <<hook, queue, markers, known>> /\ setback' = TRUE
      BY <1>6 DEF PostFails, UploadFails
    <2> QED BY <2>1, <1>w DEF Work
  <1>7. ASSUME NEW p \in Proc, NEW m \in Hook, Uploaded(p, m) PROVE Work'
    <2>1. markers' \subseteq markers /\ markersHeld' = {} /\ UNCHANGED <<hook, queue, rowsHeld, known, setback>>
      BY <1>7 DEF Uploaded
    <2> QED BY <2>1, <1>w DEF Work
  <1>8. ASSUME NEW p \in Proc, NEW m \in Hook, SessionNotReady(p, m) PROVE Work'
    <2>1. /\ markersHeld' = markersHeld \cup ({m} \cap markers) /\ m \notin known
          /\ UNCHANGED <<hook, queue, rowsHeld, markers, known, setback>>
      BY <1>8 DEF SessionNotReady
    <2>2. m \in markers => m \in queue
      BY <2>1, <1>w
    <2> QED BY <2>1, <2>2, <1>w DEF Work
  <1>9. ASSUME NEW p \in Proc, UNCHANGED <<hook, data>>, setback => setback' PROVE Work'
    BY <1>9, <1>1
  <1>10. ASSUME NEW p \in Proc, Begin(p) PROVE Work'
    <2>1. UNCHANGED <<hook, data>> /\ setback' = (setback /\ ~CleanSlate(p))
      BY <1>10 DEF Begin
    <2>2. CleanSlate(p) => rowsHeld = {} /\ markersHeld = {}
      BY DEF CleanSlate
    <2>3. setback \in BOOLEAN
      BY Groups DEF StateOK
    <2> QED BY <2>1, <2>2, <2>3, <1>1
  <1>11. ASSUME NEW p \in Proc,
                \/ Start(p) \/ Acquire(p) \/ AcquireBusy(p)
                \/ LeaseLost(p) \/ Capped(p) \/ Flush(p) \/ Post(p)
                \/ Unauthorized(p) \/ NoToken(p) \/ Ship(p) \/ LeaveTranscripts(p) \/ Upload(p)
                \/ ShipDone(p) \/ NextRound(p) \/ PassDone(p)
         PROVE  Work'
    <2>1. UNCHANGED <<hook, data>>
      BY <1>11 DEF Start, Acquire, AcquireBusy, LeaseLost, Capped, Flush, Post, Unauthorized,
                   NoToken, Ship, LeaveTranscripts, Upload, ShipDone, NextRound, PassDone
    <2>2. setback => setback'
      <3>1. CASE Start(p)
        BY <3>1 DEF Start
      <3>2. CASE ~Start(p)
        <4>1. setback' \in {setback, TRUE}
          BY <1>11, <3>2 DEF Acquire, AcquireBusy, LeaseLost, Capped, Flush, Post, Unauthorized,
                       NoToken, Ship, LeaveTranscripts, Upload, ShipDone, NextRound, PassDone
        <4> QED BY <4>1
      <3> QED BY <3>1, <3>2
    <2> QED BY <2>1, <2>2, <1>9
  <1>12. ASSUME NEW p \in Proc,
                \/ LookAgain(p) \/ CappedLook(p) \/ Report(p) \/ Exit(p)
                \/ ImportStarts(p) \/ ImportGivesUp(p) \/ ImportThrows(p) \/ Import(p) \/ Crash(p)
                \/ \E d \in Drainer : PostDrain(p, d) \/ DrainByHand(p, d)
         PROVE  Work'
    <2>1. UNCHANGED <<hook, data>>
      BY <1>12 DEF LookAgain, CappedLook, Report, Exit, ImportStarts, ImportGivesUp,
                   ImportThrows, PostDrain, DrainByHand, Import, Crash
    <2>2. setback => setback'
      <3>1. CASE LookAgain(p)
        BY <3>1 DEF LookAgain
      <3>2. CASE ~LookAgain(p)
        <4>1. setback' \in {setback, TRUE}
          BY <1>12, <3>2 DEF CappedLook, Report, Exit, ImportStarts, ImportGivesUp,
                       ImportThrows, PostDrain, DrainByHand, Import, Crash
        <4> QED BY <4>1
      <3> QED BY <3>1, <3>2
    <2> QED BY <2>1, <2>2, <1>9
  <1>13. ASSUME NEW p \in Proc, Release(p) \/ ImportEnds(p) PROVE Work'
    <2>1. UNCHANGED <<hook, data>> /\ (setback => setback')
      BY <1>13 DEF Release, ImportEnds, LetGo
    <2> QED BY <2>1, <1>9
  <1>14. CASE \/ \E k \in Kind : LapseAbandoned(k)
              \/ \E p \in Proc : LapseAsleep(p)
              \/ ClaimExpires \/ HoldExpires \/ TokenTriedAgain \/ UNCHANGED vars
    <2>1. UNCHANGED <<hook, data, setback>>
      BY <1>14 DEF LapseAbandoned, LapseAsleep, ClaimExpires, HoldExpires, TokenTriedAgain, vars
    <2> QED BY <2>1, <1>1
  <1>15. CASE RetryTimeComes
    <2>1. /\ rowsHeld' \subseteq rowsHeld /\ markersHeld' \subseteq markersHeld
          /\ UNCHANGED <<hook, queue, markers, known, setback>>
      BY <1>15 DEF RetryTimeComes
    <2> QED BY <2>1, <1>w DEF Work
  <1>16. ASSUME NEW h \in Hook, Enqueue(h) \/ HookProceeds(h) \/ HookKilled(h) PROVE Work'
    BY <1>16, <1>2, <1>3, <1>4
  <1>17. ASSUME NEW p \in Proc, Proceed(p) PROVE Work'
    BY <1>17, <1>5, <1>6, <1>7, <1>8, <1>10, <1>11, <1>12, <1>13 DEF Proceed
  <1> QED BY <1>12, <1>14, <1>15, <1>16, <1>17, Bounds DEF Next

-----------------------------------------------------------------------------
(* The leases.                                                             *)

\* Nobody but p starts or stops counting on a lease.
OthersCount(p) == \A q \in Proc \ {p} : Kinds(q)' = Kinds(q)

AllCount == \A q \in Proc : Kinds(q)' = Kinds(q)

\* Somebody renews what is still intact, or sleeps, or nothing happens to leases.
Keeps ==
  /\ AllCount /\ owner' = owner
  /\ \/ lapsed' = lapsed
     \/ \E p \in Proc : Intact(p) /\ lapsed' = lapsed \ Kinds(p)
     \/ "suspend" \in faults /\ \E ks \in SUBSET {k \in Kind : Held(k)} : lapsed' = lapsed \cup ks

\* p takes leases and counts on them.
Gains(p) == /\ OthersCount(p)
            /\ \E ks \in SUBSET Kind : Take(p, ks) /\ Kinds(p)' = Kinds(p) \cup ks

\* p gives up all of its leases.
GivesUp(p) == /\ OthersCount(p) /\ Kinds(p)' = {}
              /\ Free({k \in Kinds(p) : owner[k] = p})

\* p no longer counts on its leases and leaves their rows behind.
Abandons(p) == OthersCount(p) /\ Kinds(p)' = {} /\ UNCHANGED lease /\ setback'

\* A row runs out that nobody counts on.
Runs == AllCount /\ \E k \in Kind : Held(k) /\ k \notin Kinds(owner[k]) /\ Free({k})

\* Who does nothing counts on the same leases.
LEMMA SameKinds ==
  ASSUME NEW q, pc'[q] = pc[q], run'[q] = run[q]
  PROVE  Kinds(q)' = Kinds(q)
  BY DEF Kinds

\* A process elsewhere counts on no lease.
LEMMA NoKinds ==
  /\ \A q : pc[q] \notin Leased \cup {"import"} => Kinds(q) = {}
  /\ \A q : pc'[q] \notin Leased \cup {"import"} => Kinds(q)' = {}
  BY DEF Kinds

\* Every step does one of these to the leases.
LEMMA LeaseSteps ==
  ASSUME TypeOK, Stages, [Next]_vars
  PROVE  \/ Keeps \/ Runs \/ \E p \in Proc : Gains(p) \/ GivesUp(p) \/ Abandons(p)
  <1> DEFINE Goal == Keeps \/ Runs \/ \E p \in Proc : Gains(p) \/ GivesUp(p) \/ Abandons(p)
  <1>t. pc \in [Proc -> Stage] /\ run \in [Proc -> Run]
    BY Groups DEF ProcOK
  <1>1. ASSUME UNCHANGED <<pc, run, lease>> PROVE Goal
    BY <1>1, SameKinds DEF Keeps, AllCount
  <1>2. ASSUME NEW p \in Proc, Only(p) PROVE OthersCount(p)
    BY <1>2, SameKinds DEF Only, OthersCount
  <1>3. ASSUME NEW p \in Proc, OthersCount(p), Kinds(p)' = Kinds(p) PROVE AllCount
    BY <1>3 DEF OthersCount, AllCount
  <1>4. ASSUME NEW p \in Proc, NEW s, GoTo(p, s)
        PROVE  pc'[p] = s /\ (\A q \in Proc \ {p} : pc'[q] = pc[q])
    BY <1>4, <1>t DEF GoTo
  <1>5. ASSUME NEW p \in Proc, Works(p) PROVE Goal
    <2>1. OthersCount(p) /\ pc[p] \in Leased /\ pc'[p] \in Leased /\ run[p].covers \in BOOLEAN
      BY <1>5, <1>2, <1>t, RunFields DEF Works
    <2>2. CASE ~run[p].covers /\ run'[p].covers /\ Take(p, {"transcripts"})
      <3>1. Kinds(p)' = Kinds(p) \cup {"transcripts"}
        BY <2>1, <2>2 DEF Kinds, Leased
      <3> QED BY <2>1, <2>2, <3>1 DEF Gains, Kind
    <2>3. CASE /\ run'[p].covers = run[p].covers /\ owner' = owner
               /\ lapsed' = lapsed \/ (Intact(p) /\ lapsed' = lapsed \ Kinds(p))
      <3>1. Kinds(p)' = Kinds(p)
        BY <2>1, <2>3 DEF Kinds, Leased
      <3> QED BY <2>1, <2>3, <3>1, <1>3 DEF Keeps
    <2> QED BY <1>5, <2>2, <2>3 DEF Works
  \* Steps of p from and to places without a lease.
  <1>6. ASSUME NEW p \in Proc, Only(p), UNCHANGED lease,
               pc[p] \notin Leased \cup {"import"}, pc'[p] \notin Leased \cup {"import"}
        PROVE  Goal
    <2>1. Kinds(p)' = Kinds(p)
      BY <1>6, NoKinds
    <2> QED BY <1>6, <2>1, <1>2, <1>3 DEF Keeps
  <1>7. ASSUME NEW p \in Proc, Start(p) \/ AcquireBusy(p) \/ LookAgain(p) \/ CappedLook(p)
                               \/ Report(p) \/ Exit(p) \/ Import(p) \/ ImportGivesUp(p)
        PROVE  Goal
    <2>1. /\ \E s \in {"report", "acquire", "exit", "off", "wait", "over"} : GoTo(p, s)
          /\ pc[p] \in {"start", "acquire", "look", "report", "exit", "off", "wait"}
          /\ UNCHANGED lease
      BY <1>7 DEF Start, AcquireBusy, LookAgain, CappedLook, Report, Exit, Import, ImportGivesUp
    <2>2. \A q \in Proc \ {p} : run'[q] = run[q]
      BY <1>7, <1>t DEF Start, AcquireBusy, LookAgain, CappedLook, Report, Exit, Import, ImportGivesUp
    <2>3. Only(p) /\ pc'[p] \notin Leased \cup {"import"} /\ pc[p] \notin Leased \cup {"import"}
      BY <2>1, <2>2, <1>4 DEF Only, Leased
    <2> QED BY <2>1, <2>3, <1>6
  <1>8. ASSUME NEW p \in Proc, Acquire(p) PROVE Goal
    <2> DEFINE got == {"events"} \cup {k \in {"transcripts"} : Takeable(k)}
    <2>1. /\ pc[p] = "acquire" /\ Take(p, got) /\ GoTo(p, "begin")
          /\ run' = [run EXCEPT ![p].covers = "transcripts" \in got, ![p].added = FALSE]
      BY <1>8 DEF Acquire
    <2>2. got \in SUBSET Kind /\ got = {"events"} \cup (IF "transcripts" \in got THEN {"transcripts"} ELSE {})
      BY DEF Kind
    <2> HIDE DEF got
    <2>3. run'[p].covers = ("transcripts" \in got) /\ (\A q \in Proc \ {p} : run'[q] = run[q])
      BY <2>1, <1>t DEF Run
    <2>4. Only(p) /\ pc'[p] = "begin"
      BY <2>1, <2>3, <1>4 DEF Only
    <2>5. Kinds(p) = {}
      BY <2>1, NoKinds DEF Leased
    <2>6. Kinds(p)' = got
      BY <2>2, <2>3, <2>4 DEF Kinds, Leased
    <2> QED BY <2>1, <2>2, <2>4, <2>5, <2>6, <1>2 DEF Gains
  <1>9. ASSUME NEW p \in Proc, Begin(p) PROVE Goal
    <2>1. /\ pc[p] = "begin" /\ pc'[p] = "flush" /\ Only(p) /\ UNCHANGED lease
          /\ run'[p].covers = run[p].covers
      BY <1>9, <1>t, <1>4 DEF Begin, Only, Run
    <2>2. Kinds(p)' = Kinds(p)
      BY <2>1 DEF Kinds, Leased
    <2> QED BY <2>1, <2>2, <1>2, <1>3 DEF Keeps
  <1>10. ASSUME NEW p \in Proc, Release(p) \/ ImportEnds(p) PROVE Goal
    <2>1. LetGo(p) /\ UNCHANGED run /\ \E s \in {"look", "report", "after"} : GoTo(p, s)
      BY <1>10 DEF Release, ImportEnds
    <2>2. OthersCount(p) /\ pc'[p] \notin Leased \cup {"import"}
      BY <2>1, <1>2, <1>4 DEF Only, Leased
    <2>3. Kinds(p)' = {}
      BY <2>2, NoKinds
    <2>4. Free({k \in Kinds(p) : owner[k] = p}) \/ (UNCHANGED lease /\ setback')
      BY <2>1 DEF LetGo
    <2> QED BY <2>2, <2>3, <2>4 DEF GivesUp, Abandons
  <1>11. ASSUME NEW p \in Proc, ImportThrows(p) PROVE Goal
    <2>1. GoTo(p, "over") /\ UNCHANGED run /\ Free({k \in Kinds(p) : owner[k] = p})
      BY <1>11 DEF ImportThrows
    <2>2. OthersCount(p) /\ pc'[p] \notin Leased \cup {"import"}
      BY <2>1, <1>2, <1>4 DEF Only, Leased
    <2>3. Kinds(p)' = {}
      BY <2>2, NoKinds
    <2> QED BY <2>1, <2>2, <2>3 DEF GivesUp
  <1>12. ASSUME NEW p \in Proc, ImportStarts(p) PROVE Goal
    <2>1. pc[p] = "wait" /\ GoTo(p, "import") /\ UNCHANGED run /\ Take(p, {"transcripts"})
      BY <1>12 DEF ImportStarts
    <2>2. OthersCount(p) /\ pc'[p] = "import"
      BY <2>1, <1>2, <1>4 DEF Only
    <2>3. Kinds(p)' = {"transcripts"} /\ Kinds(p) = {}
      BY <2>1, <2>2 DEF Kinds, Leased
    <2> QED BY <2>1, <2>2, <2>3 DEF Gains, Kind
  <1>13. ASSUME NEW c \in Proc, NEW d \in Drainer, Launches(c, d) PROVE Goal
    <2>1. /\ pc' = [pc EXCEPT ![c] = "over", ![d] = "start"] /\ run' = run /\ UNCHANGED lease
          /\ pc[c] \in {"after", "off"} /\ pc[d] = "off"
      BY <1>13 DEF Launches, PostDrain, DrainByHand, Idle
    <2>2. \A q \in Proc : pc'[q] = pc[q] \/ (pc[q] \in {"after", "off"} /\ pc'[q] \in {"over", "start"})
      BY <2>1, <1>t, Bounds
    <2>3. \A q \in Proc : Kinds(q)' = Kinds(q)
      <3>1. ASSUME NEW q \in Proc PROVE Kinds(q)' = Kinds(q)
        <4>1. CASE pc'[q] = pc[q]
          BY <4>1, <2>1, SameKinds
        <4>2. CASE pc[q] \in {"after", "off"} /\ pc'[q] \in {"over", "start"}
          BY <4>2, NoKinds DEF Leased
        <4> QED BY <4>1, <4>2, <2>2
      <3> QED BY <3>1
    <2> QED BY <2>1, <2>3 DEF Keeps, AllCount
  <1>14. ASSUME NEW p \in Proc, Crash(p) PROVE Goal
    <2>1. /\ GoTo(p, IF p \in Command THEN "over" ELSE "off") /\ UNCHANGED lease /\ setback'
          /\ \A q \in Proc \ {p} : run'[q] = run[q]
      BY <1>14, <1>t DEF Crash
    <2>2. OthersCount(p) /\ pc'[p] \notin Leased \cup {"import"}
      BY <2>1, <1>2, <1>4 DEF Only, Leased
    <2>3. Kinds(p)' = {}
      BY <2>2, NoKinds
    <2> QED BY <2>1, <2>2, <2>3 DEF Abandons
  <1>15. ASSUME NEW h \in Hook, NEW p \in Drainer, Spawn(h, p) PROVE Goal
    <2>1. pc[p] = "off" /\ GoTo(p, "start") /\ UNCHANGED <<lease, run>> /\ p \in Proc
      BY <1>15, Bounds DEF Spawn, Idle
    <2>2. Only(p) /\ pc'[p] \notin Leased \cup {"import"} /\ pc[p] \notin Leased \cup {"import"}
      BY <2>1, <1>4 DEF Only, Leased
    <2> QED BY <2>1, <2>2, <1>6
  <1>16. ASSUME NEW k \in Kind, LapseAbandoned(k) PROVE Goal
    BY <1>16, SameKinds DEF LapseAbandoned, Runs, AllCount
  <1>17. ASSUME NEW p \in Proc, LapseAsleep(p) PROVE Goal
    <2> DEFINE mine == {k \in Kinds(p) : Held(k) /\ owner[k] = p}
    <2>1. "suspend" \in faults /\ (\E ks \in SUBSET mine : lapsed' = lapsed \cup ks) /\ UNCHANGED <<owner, pc, run>>
      BY <1>17 DEF LapseAsleep
    <2>2. mine \subseteq {k \in Kind : Held(k)}
      BY DEF Kinds, Kind
    <2> HIDE DEF mine
    <2>3. AllCount
      BY <2>1, SameKinds DEF AllCount
    <2> QED BY <2>1, <2>2, <2>3 DEF Keeps
  <1>18. ASSUME \/ \E h \in Hook : Enqueue(h) \/ Mark(h) \/ Claim(h) \/ LeaveIt(h) \/ SpawnFails(h) \/ HookKilled(h)
                \/ ClaimExpires \/ HoldExpires \/ TokenTriedAgain \/ RetryTimeComes \/ UNCHANGED vars
         PROVE  Goal
    <2>1. UNCHANGED <<pc, run, lease>>
      BY <1>18 DEF Enqueue, Mark, Claim, LeaveIt, SpawnFails, HookKilled,
                   ClaimExpires, HoldExpires, TokenTriedAgain, RetryTimeComes, vars
    <2> QED BY <2>1, <1>1
  <1>19. ASSUME NEW p \in Proc, Commands(p) PROVE Goal
    BY <1>19, <1>7, <1>10, <1>11, <1>12 DEF Commands
  <1> HIDE DEF Goal
  <1>20. ASSUME NEW p \in Proc, Proceed(p) \/ Import(p) \/ \E d \in Drainer : DrainByHand(p, d) PROVE Goal
    BY <1>20, Steps, <1>5, <1>7, <1>8, <1>9, <1>10, <1>13, <1>19
  <1>21. ASSUME NEW h \in Hook, HookProceeds(h) PROVE Goal
    BY <1>21, <1>15, <1>18 DEF HookProceeds
  <1>22. Goal
    BY <1>14, <1>16, <1>17, <1>18, <1>20, <1>21, Bounds DEF Next
  <1> QED BY <1>22 DEF Goal

\* Only the start of a pass that may do all the work makes good a failure.
LEMMA Setbacks ==
  ASSUME TypeOK, [Next]_vars, setback
  PROVE  setback' \/ \E p \in Proc : Begin(p) /\ CleanSlate(p)
  <1>b. setback = TRUE
    BY Groups DEF StateOK
  <1>1. ASSUME NEW p \in Proc, Begin(p) PROVE setback' \/ CleanSlate(p)
    BY <1>1 DEF Begin
  <1>2. ASSUME NEW p \in Proc,
               Proceed(p) \/ Import(p) \/ (\E d \in Drainer : DrainByHand(p, d)) \/ Crash(p), ~Begin(p)
        PROVE  setback'
    <2>1. CASE Start(p) \/ LookAgain(p)
      BY <2>1 DEF Start, LookAgain
    <2>2. CASE Works(p) \/ Acquire(p) \/ AcquireBusy(p) \/ Release(p) \/ CappedLook(p) \/ Report(p) \/ Exit(p)
      <3>1. setback' \in {setback, TRUE}
        BY <2>2 DEF Works, Acquire, AcquireBusy, Release, LetGo, CappedLook, Report, Exit
      <3> QED BY <3>1, <1>b
    <2>3. CASE Commands(p) \/ Crash(p) \/ \E d \in Drainer : Launches(p, d)
      <3>1. setback' \in {setback, TRUE}
        BY <2>3 DEF Commands, Import, ImportStarts, ImportGivesUp, ImportEnds, LetGo, ImportThrows, Crash,
                    Launches, PostDrain, DrainByHand
      <3> QED BY <3>1, <1>b
    <2> QED BY <1>2, <2>1, <2>2, <2>3, Steps
  <1>3. ASSUME NEW h \in Hook, Enqueue(h) \/ HookProceeds(h) \/ HookKilled(h) PROVE setback'
    <2>1. CASE LeaveIt(h)
      BY <2>1 DEF LeaveIt
    <2>2. CASE ~LeaveIt(h)
      <3>1. setback' \in {setback, TRUE}
        BY <1>3, <2>2 DEF Enqueue, HookProceeds, Mark, Claim, SpawnFails, Spawn, HookKilled
      <3> QED BY <3>1, <1>b
    <2> QED BY <2>1, <2>2
  <1>4. CASE \/ \E k \in Kind : LapseAbandoned(k)
             \/ \E p \in Proc : LapseAsleep(p)
             \/ ClaimExpires \/ HoldExpires \/ TokenTriedAgain \/ RetryTimeComes \/ UNCHANGED vars
    <2>1. setback' = setback
      BY <1>4 DEF LapseAbandoned, LapseAsleep, ClaimExpires, HoldExpires, TokenTriedAgain, RetryTimeComes, vars
    <2> QED BY <2>1, <1>b
  <1> QED BY <1>1, <1>2, <1>3, <1>4, Bounds DEF Next

\* As long as nothing fails, whoever is in a row counts on it.
LEMMA RowsStep == TypeOK /\ Stages /\ Rows /\ [Next]_vars => Rows'
  <1> SUFFICES ASSUME TypeOK, Stages, Rows, [Next]_vars, ~setback', NEW k \in Kind, owner'[k] # None
               PROVE  (k \in Kinds(owner[k]))'
    BY DEF Rows
  <1>t. owner \in [Kind -> Proc \cup {None}] /\ None \notin Proc
    BY Groups, Bounds DEF LeaseOK
  <1>o. TypeOK'
    BY TypeStep
  <1>p. owner'[k] \in Proc
    BY <1>o DEF TypeOK
  <1> SUFFICES \E q \in Proc : owner'[k] = q /\ k \in Kinds(q)'
    BY DEF Kinds
  <1>1. CASE setback
    <2>1. PICK p \in Proc : Begin(p) /\ CleanSlate(p)
      BY <1>1, Setbacks
    <2>2. pc[p] = "begin" /\ run[p].covers /\ Intact(p) /\ UNCHANGED lease
      BY <2>1 DEF Begin, CleanSlate
    <2>3. Kinds(p) = Kind
      BY <2>2 DEF Kinds, Leased, Kind
    <2>4. owner'[k] = p
      BY <2>2, <2>3 DEF Intact
    <2>5. pc'[p] \in Leased /\ run'[p].covers
      BY <2>1, <2>2, Groups DEF Begin, GoTo, Leased, ProcOK, Run
    <2>6. Kinds(p)' = Kind
      BY <2>5 DEF Kinds, Leased, Kind
    <2> QED BY <2>4, <2>6
  <1>2. CASE ~setback
    <2>1. \A i \in Kind : owner[i] # None => i \in Kinds(owner[i])
      BY <1>2 DEF Rows
    <2>2. CASE Keeps
      BY <2>1, <2>2, <1>p DEF Keeps, AllCount
    <2>3. CASE Runs
      <3>1. owner'[k] = owner[k]
        BY <2>3 DEF Runs, Free
      <3> QED BY <2>1, <2>3, <3>1, <1>p DEF Runs, AllCount
    <2>4. ASSUME NEW p \in Proc, Gains(p) PROVE \E q \in Proc : owner'[k] = q /\ k \in Kinds(q)'
      <3>1. PICK ks \in SUBSET Kind : Take(p, ks) /\ Kinds(p)' = Kinds(p) \cup ks
        BY <2>4 DEF Gains
      <3>2. (owner'[k] = p /\ k \in ks) \/ owner'[k] = owner[k]
        BY <3>1 DEF Take
      <3>3. CASE owner'[k] = p /\ k \in ks
        BY <3>1, <3>3
      <3>4. CASE owner'[k] = owner[k]
        BY <2>1, <2>4, <3>1, <3>4, <1>p DEF Gains, OthersCount
      <3> QED BY <3>2, <3>3, <3>4
    <2>5. ASSUME NEW p \in Proc, GivesUp(p) PROVE \E q \in Proc : owner'[k] = q /\ k \in Kinds(q)'
      <3>1. owner'[k] = owner[k] /\ ~(k \in Kinds(p) /\ owner[k] = p)
        BY <2>5 DEF GivesUp, Free
      <3>2. owner[k] # p
        BY <2>1, <3>1
      <3> QED BY <2>1, <2>5, <3>1, <3>2, <1>p DEF GivesUp, OthersCount
    <2> QED BY <2>2, <2>3, <2>4, <2>5, LeaseSteps DEF Abandons
  <1> QED BY <1>1, <1>2

-----------------------------------------------------------------------------
(* The claim.                                                              *)

\* A process does something, or it is started, or nothing happens to it.
LEMMA ProcTurns ==
  ASSUME TypeOK, Stages, [Next]_vars, NEW q \in Proc
  PROVE  \/ pc'[q] = pc[q] /\ run'[q] = run[q]
         \/ q \in Drainer /\ pc[q] = "off" /\ pc'[q] = "start" /\ run'[q] = run[q]
         \/ Works(q) \/ Start(q) \/ Acquire(q) \/ AcquireBusy(q) \/ Begin(q) \/ Release(q)
         \/ LookAgain(q) \/ CappedLook(q) \/ Report(q) \/ Exit(q) \/ Commands(q) \/ Crash(q)
         \/ \E d \in Drainer : Launches(q, d)
  <1> DEFINE Same == pc'[q] = pc[q] /\ run'[q] = run[q]
             Started == q \in Drainer /\ pc[q] = "off" /\ pc'[q] = "start" /\ run'[q] = run[q]
             Turn == \/ Works(q) \/ Start(q) \/ Acquire(q) \/ AcquireBusy(q) \/ Begin(q) \/ Release(q)
                     \/ LookAgain(q) \/ CappedLook(q) \/ Report(q) \/ Exit(q) \/ Commands(q) \/ Crash(q)
                     \/ \E d \in Drainer : Launches(q, d)
  <1>t. pc \in [Proc -> Stage] /\ run \in [Proc -> Run]
    BY Groups DEF ProcOK
  <1>1. ASSUME UNCHANGED <<pc, run>> PROVE Same
    BY <1>1
  <1>2. ASSUME NEW p \in Proc, p # q, Works(p) PROVE Same
    BY <1>2 DEF Works, Only
  <1>3. ASSUME NEW p \in Proc, p # q,
               \/ Start(p) \/ Acquire(p) \/ AcquireBusy(p) \/ Begin(p) \/ Release(p)
               \/ LookAgain(p) \/ CappedLook(p) \/ Report(p) \/ Exit(p) \/ Commands(p) \/ Crash(p)
        PROVE  Same
    <2>1. \E s : pc' = [pc EXCEPT ![p] = s]
      BY <1>3 DEF GoTo, Start, Acquire, AcquireBusy, Begin, Release, LookAgain, CappedLook, Report, Exit,
                  Commands, Import, ImportStarts, ImportGivesUp, ImportEnds, ImportThrows, Crash
    <2>2. \E r : run' = run \/ run' = [run EXCEPT ![p] = r]
      BY <1>3, <1>t DEF Start, Acquire, AcquireBusy, Begin, Release, LookAgain, CappedLook, Report, Exit,
                  Commands, Import, ImportStarts, ImportGivesUp, ImportEnds, ImportThrows, Crash
    <2> QED BY <1>3, <2>1, <2>2, <1>t
  <1>4. ASSUME NEW c \in Proc, c # q, NEW d \in Drainer, Launches(c, d) PROVE Same \/ Started
    BY <1>4, <1>t, Bounds DEF Launches, PostDrain, DrainByHand, Idle
  <1>5. ASSUME NEW h \in Hook, NEW d \in Drainer, Spawn(h, d) PROVE Same \/ Started
    BY <1>5, <1>t, Bounds DEF Spawn, Idle, GoTo
  <1>6. ASSUME \/ \E h \in Hook : Enqueue(h) \/ Mark(h) \/ Claim(h) \/ LeaveIt(h) \/ SpawnFails(h) \/ HookKilled(h)
               \/ \E k \in Kind : LapseAbandoned(k)
               \/ \E p \in Proc : LapseAsleep(p)
               \/ ClaimExpires \/ HoldExpires \/ TokenTriedAgain \/ RetryTimeComes \/ UNCHANGED vars
        PROVE  Same
    <2>1. UNCHANGED <<pc, run>>
      BY <1>6 DEF Enqueue, Mark, Claim, LeaveIt, SpawnFails, HookKilled, LapseAbandoned, LapseAsleep,
                  ClaimExpires, HoldExpires, TokenTriedAgain, RetryTimeComes, vars
    <2> QED BY <2>1, <1>1
  <1> HIDE DEF Same, Started
  <1>7. ASSUME NEW p \in Proc, p # q,
               Proceed(p) \/ Import(p) \/ (\E d \in Drainer : DrainByHand(p, d)) \/ Crash(p)
        PROVE  Same \/ Started
    BY <1>7, <1>2, <1>3, <1>4, Steps
  <1>8. ASSUME Proceed(q) \/ Import(q) \/ (\E d \in Drainer : DrainByHand(q, d)) \/ Crash(q) PROVE Turn
    BY <1>8, Steps
  <1> HIDE DEF Turn
  <1>9. ASSUME NEW h \in Hook, Enqueue(h) \/ HookProceeds(h) \/ HookKilled(h) PROVE Same \/ Started
    BY <1>9, <1>5, <1>6 DEF HookProceeds
  <1>10. Same \/ Started \/ Turn
    BY <1>6, <1>7, <1>8, <1>9, Bounds DEF Next
  <1> QED BY <1>10 DEF Same, Started, Turn

\* A hook goes on, or nothing happens to it.
LEMMA HookTurns ==
  ASSUME TypeOK, [Next]_vars, NEW h \in Hook
  PROVE  hook'[h] = hook[h] \/ Enqueue(h) \/ HookProceeds(h) \/ HookKilled(h)
  <1>t. hook \in [Hook -> {"idle", "queued", "marked", "claimed", "over"}]
    BY Groups DEF HookOK
  <1>1. ASSUME NEW g \in Hook, g # h, Enqueue(g) \/ HookProceeds(g) \/ HookKilled(g) PROVE hook'[h] = hook[h]
    <2>1. \E s : HookGoesTo(g, s)
      BY <1>1 DEF Enqueue, HookProceeds, HookKilled, Mark, Claim, LeaveIt, SpawnFails, Spawn
    <2> QED BY <1>1, <2>1, <1>t DEF HookGoesTo
  <1>2. ASSUME NEW p \in Proc, Proceed(p) \/ Import(p) \/ (\E d \in Drainer : DrainByHand(p, d)) \/ Crash(p)
        PROVE  hook' = hook
    <2>1. \/ Works(p) \/ Start(p) \/ Acquire(p) \/ AcquireBusy(p) \/ Begin(p) \/ Release(p)
          \/ LookAgain(p) \/ CappedLook(p) \/ Report(p) \/ Exit(p) \/ Commands(p) \/ Crash(p)
          \/ \E d \in Drainer : Launches(p, d)
      BY <1>2, Steps
    <2> QED BY <2>1 DEF Works, Start, Acquire, AcquireBusy, Begin, Release, LookAgain, CappedLook, Report, Exit,
                        Commands, Import, ImportStarts, ImportGivesUp, ImportEnds, ImportThrows, Crash,
                        Launches, PostDrain, DrainByHand
  <1>3. CASE \/ \E k \in Kind : LapseAbandoned(k)
             \/ \E p \in Proc : LapseAsleep(p)
             \/ ClaimExpires \/ HoldExpires \/ TokenTriedAgain \/ RetryTimeComes \/ UNCHANGED vars
    BY <1>3 DEF LapseAbandoned, LapseAsleep, ClaimExpires, HoldExpires, TokenTriedAgain, RetryTimeComes, vars
  <1> QED BY <1>1, <1>2, <1>3, Bounds DEF Next

\* Only a hook that starts a drainer sets the claim, and nothing changes what may
\* go wrong.
LEMMA ClaimTurns ==
  ASSUME TypeOK, [Next]_vars
  PROVE  faults' = faults /\ (claim' => claim \/ \E h \in Hook : Claim(h))
  <1>1. ASSUME NEW p \in Proc, Proceed(p) \/ Import(p) \/ (\E d \in Drainer : DrainByHand(p, d)) \/ Crash(p)
        PROVE  faults' = faults /\ (claim' => claim)
    <2>1. \/ Works(p) \/ Start(p) \/ Acquire(p) \/ AcquireBusy(p) \/ Begin(p) \/ Release(p)
          \/ LookAgain(p) \/ CappedLook(p) \/ Report(p) \/ Exit(p) \/ Commands(p) \/ Crash(p)
          \/ \E d \in Drainer : Launches(p, d)
      BY <1>1, Steps
    <2>2. faults' = faults
      BY <2>1 DEF Works, Start, Acquire, AcquireBusy, Begin, Release, LookAgain, CappedLook, Report, Exit,
                        Commands, Import, ImportStarts, ImportGivesUp, ImportEnds, ImportThrows, Crash,
                        Launches, PostDrain, DrainByHand
    <2>3. CASE Exit(p)
      BY <2>2, <2>3 DEF Exit
    <2>4. CASE ~Exit(p)
      <3>1. claim' = claim \/ claim' = FALSE
        BY <2>1, <2>4 DEF Works, Start, Acquire, AcquireBusy, Begin, Release, LookAgain, CappedLook, Report,
                        Commands, Import, ImportStarts, ImportGivesUp, ImportEnds, ImportThrows, Crash,
                        Launches, PostDrain, DrainByHand
      <3> QED BY <3>1, <2>2
    <2> QED BY <2>3, <2>4
  <1>2. ASSUME NEW h \in Hook, Enqueue(h) \/ HookProceeds(h) \/ HookKilled(h)
        PROVE  faults' = faults /\ (claim' = claim \/ Claim(h))
    BY <1>2 DEF Enqueue, HookProceeds, HookKilled, Mark, Claim, LeaveIt, SpawnFails, Spawn
  <1>3. CASE \/ \E k \in Kind : LapseAbandoned(k)
             \/ \E p \in Proc : LapseAsleep(p)
             \/ ClaimExpires \/ HoldExpires \/ TokenTriedAgain \/ RetryTimeComes \/ UNCHANGED vars
    <2>1. faults' = faults /\ (claim' = claim \/ claim' = FALSE)
      BY <1>3 DEF LapseAbandoned, LapseAsleep, ClaimExpires, HoldExpires, TokenTriedAgain, RetryTimeComes, vars
    <2> QED BY <2>1
  <1> QED BY <1>1, <1>2, <1>3, Bounds DEF Next

\* Whoever answers for the claim hands it on, or it goes, or a failure shows.
LEMMA ClaimsStep == TypeOK /\ Stages /\ Claims /\ [Next]_vars => Claims'
  <1> SUFFICES ASSUME TypeOK, Stages, Claims, [Next]_vars,
                      ~setback' \/ {"crash", "spawn"} \cap faults = {}, claim'
               PROVE  (\E h \in Hook : hook'[h] = "claimed") \/ \E p \in Drainer : pc'[p] # "off" /\ ~run'[p].took
    BY ClaimTurns DEF Claims, Claiming
  <1>t. /\ pc \in [Proc -> Stage] /\ run \in [Proc -> Run]
        /\ hook \in [Hook -> {"idle", "queued", "marked", "claimed", "over"}]
    BY Groups DEF ProcOK, HookOK
  <1>1. ASSUME NEW h \in Hook, Claim(h) PROVE hook'[h] = "claimed"
    BY <1>1, <1>t DEF Claim, HookGoesTo
  <1>2. CASE claim
    <2>1. ~setback \/ {"crash", "spawn"} \cap faults = {}
      <3>1. ASSUME NEW p \in Proc, Begin(p) PROVE FALSE
        BY <3>1 DEF Begin
      <3> QED BY <3>1, Setbacks
    <2>2. (\E h \in Hook : hook[h] = "claimed") \/ \E p \in Drainer : pc[p] # "off" /\ ~run[p].took
      BY <1>2, <2>1 DEF Claims, Claiming
    <2>3. ASSUME NEW h \in Hook, hook[h] = "claimed"
          PROVE  hook'[h] = "claimed" \/ \E p \in Drainer : pc'[p] # "off" /\ ~run'[p].took
      <3>1. ~SpawnFails(h) /\ ~HookKilled(h)
        BY DEF SpawnFails, HookKilled
      <3>2. ~Enqueue(h) /\ ~Mark(h) /\ ~Claim(h) /\ ~LeaveIt(h)
        BY <2>3 DEF Enqueue, Mark, Claim, LeaveIt
      <3>3. ASSUME NEW p \in Drainer, Spawn(h, p) PROVE pc'[p] = "start" /\ ~run'[p].took
        BY <3>3, <1>t, Bounds DEF Spawn, Idle, GoTo, Stages
      <3> QED BY <2>3, <3>1, <3>2, <3>3, HookTurns DEF HookProceeds
    <2>4. ASSUME NEW p \in Drainer, pc[p] # "off", ~run[p].took PROVE pc'[p] # "off" /\ ~run'[p].took
      <3>p. p \in Proc
        BY Bounds
      <3>1. ~Begin(p) /\ ~Exit(p) /\ ~Crash(p)
        BY <2>4 DEF Begin, Exit, Crash
      <3>2. ~Commands(p) /\ \A d \in Drainer : ~Launches(p, d)
        BY <2>4, <3>p, Bounds DEF Stages, Commands, Import, ImportStarts, ImportGivesUp, ImportEnds, ImportThrows,
                           Launches, PostDrain, DrainByHand
      <3>3. CASE Works(p)
        BY <2>4, <3>3 DEF Works, Leased
      <3>4. CASE Start(p) \/ Acquire(p) \/ AcquireBusy(p) \/ Release(p) \/ LookAgain(p) \/ CappedLook(p) \/ Report(p)
        <4>1. \E s \in {"report", "acquire", "begin", "look", "exit"} : GoTo(p, s)
          BY <3>4 DEF Start, Acquire, AcquireBusy, Release, LookAgain, CappedLook, Report
        <4>2. run'[p].took = run[p].took
          BY <3>4, <3>p, <1>t DEF Start, Acquire, AcquireBusy, Release, LookAgain, CappedLook, Report, Run
        <4> QED BY <2>4, <4>1, <4>2, <3>p, <1>t DEF GoTo
      <3> QED BY <2>4, <3>p, <3>1, <3>2, <3>3, <3>4, ProcTurns
    <2> QED BY <2>2, <2>3, <2>4
  <1> QED BY <1>1, <1>2, ClaimTurns

-----------------------------------------------------------------------------
(* Nobody asleep: who will see to it.                                      *)

\* Who counts on a lease has it, since nobody else takes it meanwhile.
LEMMA OwnedStep ==
  ASSUME TypeOK, Stages, "suspend" \notin faults, Owned, [Next]_vars
  PROVE  Owned'
  <1> SUFFICES ASSUME NEW q \in Proc, NEW k, k \in Kinds(q)' PROVE owner'[k] = q /\ Held(k)'
    BY DEF Owned
  <1>k. k \in Kind
    BY DEF Kinds, Kind
  <1>n. q # None
    BY Bounds
  <1>o. \A p \in Proc : \A i \in Kinds(p) : owner[i] = p /\ owner[i] # None /\ i \notin lapsed
    BY DEF Owned, Held
  <1>1. CASE Keeps
    <2>1. owner[k] = q /\ k \notin lapsed
      BY <1>1, <1>o DEF Keeps, AllCount
    <2> QED BY <1>1, <1>n, <2>1 DEF Keeps, Held
  <1>2. CASE Runs
    <2>1. owner[k] = q /\ k \notin lapsed /\ k \in Kinds(q)
      BY <1>2, <1>o DEF Runs, AllCount
    <2> QED BY <1>2, <1>k, <1>n, <2>1 DEF Runs, Free, Held
  <1>3. ASSUME NEW p \in Proc, Gains(p) PROVE owner'[k] = q /\ Held(k)'
    <2>1. PICK ks \in SUBSET Kind : Take(p, ks) /\ Kinds(p)' = Kinds(p) \cup ks
      BY <1>3 DEF Gains
    <2>2. CASE k \in Kinds(q)
      <3>1. owner[k] = q /\ k \notin lapsed /\ k \notin ks
        BY <2>1, <2>2, <1>n, <1>o DEF Take, Takeable, Held
      <3> QED BY <2>1, <3>1, <1>k, <1>n DEF Take, Held
    <2>3. CASE k \notin Kinds(q)
      <3>1. q = p /\ k \in ks
        BY <1>3, <2>1, <2>3 DEF Gains, OthersCount
      <3> QED BY <2>1, <3>1, <1>k, <1>n DEF Take, Held
    <2> QED BY <2>2, <2>3
  <1>4. ASSUME NEW p \in Proc, GivesUp(p) PROVE owner'[k] = q /\ Held(k)'
    <2>1. q # p /\ k \in Kinds(q)
      BY <1>4 DEF GivesUp, OthersCount
    <2> QED BY <1>4, <2>1, <1>k, <1>n, <1>o DEF GivesUp, Free, Held
  <1>5. ASSUME NEW p \in Proc, Abandons(p) PROVE owner'[k] = q /\ Held(k)'
    <2>1. k \in Kinds(q)
      BY <1>5 DEF Abandons, OthersCount
    <2> QED BY <1>5, <2>1, <1>n, <1>o DEF Abandons, Held
  <1> QED BY <1>1, <1>2, <1>3, <1>4, <1>5, LeaseSteps

\* There is one pass.
LEMMA OnePass ==
  ASSUME Owned, NEW p \in Proc, NEW q \in Proc, pc[p] \in Leased, pc[q] \in Leased
  PROVE  p = q
  <1>1. "events" \in Kinds(p) /\ "events" \in Kinds(q)
    BY DEF Kinds, Leased
  <1> QED BY <1>1 DEF Owned

\* Where a step leads.
LEMMA Ways ==
  ASSUME TypeOK, Stages, [Next]_vars, NEW p \in Proc, pc'[p] \in Leased \ {"begin"}
  PROVE  (pc'[p] = pc[p] /\ run'[p] = run[p]) \/ Works(p) \/ Begin(p)
  <1>t. pc \in [Proc -> Stage]
    BY Groups DEF ProcOK
  <1>1. ASSUME \/ Start(p) \/ Acquire(p) \/ AcquireBusy(p) \/ Release(p) \/ LookAgain(p) \/ CappedLook(p)
               \/ Report(p) \/ Exit(p) \/ Commands(p) \/ Crash(p)
        PROVE  FALSE
    <2>1. \E s \in Stage \ (Leased \ {"begin"}) : GoTo(p, s)
      BY <1>1 DEF Start, Acquire, AcquireBusy, Release, LookAgain, CappedLook, Report, Exit, Crash,
                  Commands, Import, ImportStarts, ImportGivesUp, ImportEnds, ImportThrows, Stage, Leased
    <2> QED BY <2>1, <1>t DEF GoTo
  <1>2. ASSUME NEW d \in Drainer, Launches(p, d) PROVE FALSE
    <2>1. pc' = [pc EXCEPT ![p] = "over", ![d] = "start"]
      BY <1>2 DEF Launches, PostDrain, DrainByHand
    <2>2. pc'[p] \in {"over", "start"}
      BY <2>1, <1>t, Bounds
    <2> QED BY <2>2 DEF Leased
  <1>3. pc'[p] # "start"
    BY DEF Leased
  <1> QED BY <1>1, <1>2, <1>3, ProcTurns

\* A new claim needs leases nobody holds.
LEMMA ClearedStep ==
  ASSUME TypeOK, Stages, Owned, Cleared, [Next]_vars
  PROVE  Cleared'
  <1> SUFFICES ASSUME NEW p \in Proc, pc'[p] \in Leased \ {"begin"}, claim' PROVE FALSE
    BY DEF Cleared
  <1>1. ~Begin(p)
    BY DEF Begin
  <1>2. pc[p] \in Leased \ {"begin"}
    BY <1>1, Ways DEF Works
  <1>3. ~claim
    BY <1>2 DEF Cleared
  <1>4. Held("events")
    <2>1. "events" \in Kinds(p)
      BY <1>2 DEF Kinds, Leased
    <2> QED BY <2>1 DEF Owned
  <1> QED BY <1>3, <1>4, ClaimTurns DEF Claim, NoLeaseHeld

\* A pass that ends for another reason than being done has recorded a failure, and
\* no other pass makes that good meanwhile.
LEMMA RememberedStep ==
  ASSUME TypeOK, Stages, Owned, Remembered, [Next]_vars
  PROVE  Remembered'
  <1> SUFFICES ASSUME NEW p \in Proc, pc'[p] = "release", run'[p].stop # "done" PROVE setback'
    BY DEF Remembered
  <1>l. "release" \in Leased \ {"begin"}
    BY DEF Leased
  <1>1. CASE pc'[p] = pc[p] /\ run'[p] = run[p]
    <2>1. setback
      BY <1>1 DEF Remembered
    <2>2. ASSUME NEW q \in Proc, Begin(q) PROVE FALSE
      <3>1. pc[q] = "begin"
        BY <2>2 DEF Begin
      <3>2. p = q
        BY <3>1, <1>1, <1>l, OnePass DEF Leased
      <3> QED BY <3>1, <3>2, <1>1
    <2> QED BY <2>1, <2>2, Setbacks
  <1>2. CASE Works(p)
    <2>1. Intact(p)
      BY DEF Owned, Intact
    <2> QED BY <1>2, <2>1 DEF Works
  <1>3. ~Begin(p)
    <2>1. pc \in [Proc -> Stage]
      BY Groups DEF ProcOK
    <2> QED BY <2>1 DEF Begin, GoTo
  <1> QED BY <1>1, <1>2, <1>3, <1>l, Ways

\* As long as nothing fails, the holder of a lease is a pass or an import.
LEMMA Holder ==
  ASSUME TypeOK, Stages, Rows, ~setback, NEW k \in Kind, Held(k)
  PROVE  \E q \in Proc : /\ owner[k] = q
                         /\ \/ q \in Drainer /\ pc[q] \in Leased
                            \/ q \in Command /\ pc[q] = "import" /\ k = "transcripts"
  <1> DEFINE q == owner[k]
  <1>1. q \in Proc /\ q # None
    BY Groups DEF LeaseOK, Held
  <1>2. k \in Kinds(q)
    BY <1>1 DEF Rows
  <1> HIDE DEF q
  <1>3. pc[q] \in Leased \/ (pc[q] = "import" /\ k = "transcripts")
    BY <1>2 DEF Kinds
  <1>4. (pc[q] \in Leased => q \in Drainer) /\ (pc[q] = "import" => q \in Command)
    BY <1>1, Bounds DEF Stages, Leased, Proc
  <1> QED BY <1>1, <1>3, <1>4 DEF q

\* The hook or the process behind the claim clears it, or shows a failure.
LEMMA AnsweredStep ==
  ASSUME TypeOK, Stages, Rows, Cleared, Answered, [Next]_vars
  PROVE  Answered'
  <1> SUFFICES ASSUME ~setback', claim'
               PROVE  (\E h \in Hook : hook'[h] = "claimed") \/ \E p \in Drainer : WillClear(p)'
    BY DEF Answered, Claiming
  <1>t. /\ pc \in [Proc -> Stage] /\ run \in [Proc -> Run]
        /\ hook \in [Hook -> {"idle", "queued", "marked", "claimed", "over"}]
    BY Groups DEF ProcOK, HookOK
  <1>b. \A p \in Proc : ~Begin(p)
    BY DEF Begin
  <1>1. ASSUME NEW h \in Hook, Claim(h) PROVE hook'[h] = "claimed"
    BY <1>1, <1>t DEF Claim, HookGoesTo
  <1>2. CASE claim
    <2>1. ~setback
      BY <1>b, Setbacks
    <2>2. (\E h \in Hook : hook[h] = "claimed") \/ \E p \in Drainer : WillClear(p)
      BY <1>2, <2>1 DEF Answered, Claiming
    <2>3. ASSUME NEW h \in Hook, hook[h] = "claimed"
          PROVE  hook'[h] = "claimed" \/ \E p \in Drainer : WillClear(p)'
      <3>1. ~SpawnFails(h) /\ ~HookKilled(h)
        BY DEF SpawnFails, HookKilled
      <3>2. ~Enqueue(h) /\ ~Mark(h) /\ ~Claim(h) /\ ~LeaveIt(h)
        BY <2>3 DEF Enqueue, Mark, Claim, LeaveIt
      <3>3. ASSUME NEW p \in Drainer, Spawn(h, p) PROVE WillClear(p)'
        <4>1. pc'[p] = "start" /\ ~run'[p].took
          BY <3>3, <1>t, Bounds DEF Spawn, Idle, GoTo, Stages
        <4> QED BY <4>1 DEF WillClear
      <3> QED BY <2>3, <3>1, <3>2, <3>3, HookTurns DEF HookProceeds
    <2>4. ASSUME NEW p \in Drainer, WillClear(p) PROVE \E q \in Drainer : WillClear(q)'
      <3>p. p \in Proc
        BY Bounds
      <3>w. (pc[p] \in {"start", "acquire"} /\ ~run[p].took) \/ pc[p] = "begin"
        BY <2>4 DEF WillClear
      <3>1. CASE pc'[p] = pc[p] /\ run'[p] = run[p]
        BY <3>1, <3>w DEF WillClear
      <3>2. CASE Start(p)
        <4>1. ~rejected
          BY <3>2 DEF Start
        <4>2. pc'[p] = "acquire" /\ run'[p].took = run[p].took /\ pc[p] = "start"
          BY <3>2, <4>1, <3>p, <1>t DEF Start, GoTo, Run
        <4> QED BY <3>w, <4>2 DEF WillClear
      <3>3. CASE Acquire(p)
        BY <3>3, <3>p, <1>t DEF Acquire, GoTo, WillClear
      <3>4. CASE AcquireBusy(p)
        <4>1. Held("events") /\ pc[p] = "acquire" /\ pc' = [pc EXCEPT ![p] = "report"] /\ run' = run
          BY <3>4 DEF AcquireBusy, Takeable, GoTo
        <4>2. PICK q \in Drainer : pc[q] \in Leased
          BY <4>1, <2>1, Holder DEF Kind
        <4>3. q \in Proc /\ q # p
          BY <4>1, <4>2, Bounds DEF Leased
        <4>4. pc[q] = "begin"
          BY <1>2, <4>2, <4>3 DEF Cleared
        <4> QED BY <4>1, <4>3, <4>4, <1>t DEF WillClear
      <3>5. CASE Release(p) \/ LookAgain(p) \/ CappedLook(p) \/ Report(p) \/ Exit(p)
        BY <3>5, <3>w DEF Release, LookAgain, CappedLook, Report, Exit
      <3>6. ~Crash(p)
        BY DEF Crash
      <3>7. ~Commands(p) /\ (\A d \in Drainer : ~Launches(p, d)) /\ ~Works(p)
        BY <3>w, <3>p, Bounds DEF Stages, Commands, Import, ImportStarts, ImportGivesUp, ImportEnds, ImportThrows,
                           Launches, PostDrain, DrainByHand, Works, Leased
      <3> QED BY <3>p, <3>w, <3>1, <3>2, <3>3, <3>4, <3>5, <3>6, <3>7, <1>b, ProcTurns
    <2> QED BY <2>2, <2>3, <2>4
  <1> QED BY <1>1, <1>2, ClaimTurns

\* Only hooks make work.
LEMMA WorkTurns ==
  ASSUME TypeOK, [Next]_vars
  PROVE  queue' \cup markers' \subseteq queue \cup markers \/ \E h \in Hook : Enqueue(h) \/ Mark(h)
  <1> DEFINE Goal == queue' \cup markers' \subseteq queue \cup markers
  <1>1. ASSUME NEW p \in Proc, Proceed(p) PROVE Goal
    <2>1. CASE Sent(p) \/ \E m \in Hook : Uploaded(p, m)
      BY <2>1 DEF Sent, Uploaded
    <2>2. CASE \/ LeaseLost(p) \/ Capped(p) \/ Flush(p) \/ Post(p) \/ PostFails(p)
               \/ Unauthorized(p) \/ NoToken(p) \/ Ship(p) \/ LeaveTranscripts(p) \/ Upload(p)
               \/ \E m \in Hook : SessionNotReady(p, m) \/ UploadFails(p, m)
               \/ ShipDone(p) \/ NextRound(p) \/ PassDone(p)
      BY <2>2 DEF LeaseLost, Capped, Flush, Post, PostFails, Unauthorized, NoToken, Ship, LeaveTranscripts,
                  Upload, SessionNotReady, UploadFails, ShipDone, NextRound, PassDone
    <2>3. CASE Start(p) \/ Acquire(p) \/ AcquireBusy(p) \/ Begin(p) \/ Release(p)
               \/ LookAgain(p) \/ CappedLook(p) \/ Report(p) \/ Exit(p) \/ ImportStarts(p)
               \/ ImportGivesUp(p) \/ ImportEnds(p) \/ ImportThrows(p) \/ \E d \in Drainer : PostDrain(p, d)
      BY <2>3 DEF Start, Acquire, AcquireBusy, Begin, Release, LookAgain, CappedLook, Report, Exit, ImportStarts,
                  ImportGivesUp, ImportEnds, ImportThrows, PostDrain
    <2> QED BY <1>1, <2>1, <2>2, <2>3 DEF Proceed
  <1>2. ASSUME NEW p \in Proc, Import(p) \/ (\E d \in Drainer : DrainByHand(p, d)) \/ Crash(p) PROVE Goal
    BY <1>2 DEF Import, DrainByHand, Crash
  <1>3. ASSUME NEW h \in Hook, HookProceeds(h) \/ HookKilled(h), ~Mark(h) PROVE Goal
    BY <1>3 DEF HookProceeds, HookKilled, Claim, LeaveIt, SpawnFails, Spawn
  <1>4. ASSUME \/ \E k \in Kind : LapseAbandoned(k)
               \/ \E p \in Proc : LapseAsleep(p)
               \/ ClaimExpires \/ HoldExpires \/ TokenTriedAgain \/ RetryTimeComes \/ UNCHANGED vars
        PROVE Goal
    BY <1>4 DEF LapseAbandoned, LapseAsleep, ClaimExpires, HoldExpires, TokenTriedAgain, RetryTimeComes, vars
  <1> HIDE DEF Goal
  <1>5. Goal \/ \E h \in Hook : Enqueue(h) \/ Mark(h)
    BY <1>1, <1>2, <1>3, <1>4, Bounds DEF Next
  <1> QED BY <1>5 DEF Goal

\* A process that looks finds the work, or leaves it to one that will.
LEMMA LookedStep ==
  ASSUME TypeOK, Stages, Work, Rows, Cleared, Remembered, Answered, Looked, [Next]_vars
  PROVE  Looked'
  <1> DEFINE Goal == (\E h \in Hook : Undecided(h)') \/ \E p \in Proc : WillLook(p)'
  <1> SUFFICES ASSUME ~setback', queue' \cup markers' # {} PROVE Goal
    BY DEF Looked
  <1>t. /\ pc \in [Proc -> Stage] /\ run \in [Proc -> Run]
        /\ hook \in [Hook -> {"idle", "queued", "marked", "claimed", "over"}]
    BY Groups DEF ProcOK, HookOK
  <1>p. Drainer \subseteq Proc /\ Command \subseteq Proc /\ Drainer \cap Command = {} /\ Proc = Drainer \cup Command
    BY Bounds DEF Proc
  <1>d. \A p \in Proc : pc[p] \in Leased \cup {"start", "acquire", "look", "report", "exit"} => p \in Drainer
    BY <1>p DEF Stages, Leased
  <1>c. \A p \in Proc : pc[p] \in {"wait", "import", "after"} => p \in Command
    BY <1>p DEF Stages
  <1>g. ASSUME NEW p \in Proc, NEW s, GoTo(p, s)
        PROVE  pc'[p] = s /\ (\A q \in Proc \ {p} : pc'[q] = pc[q])
    BY <1>g, <1>t DEF GoTo
  <1>1. ASSUME NEW p \in Proc, pc[p] \in Leased, pc'[p] = pc[p] PROVE Goal
    BY <1>1, <1>d DEF WillLook
  <1>2. ASSUME NEW h \in Hook, Enqueue(h) \/ Mark(h) PROVE Goal
    <2>1. hook'[h] \in {"queued", "marked"}
      BY <1>2, <1>t DEF Enqueue, Mark, HookGoesTo
    <2> QED BY <2>1 DEF Undecided
  <1>3. ASSUME NEW p \in Proc, Begin(p) PROVE Goal
    <2>1. pc[p] = "begin" /\ pc'[p] = "flush"
      BY <1>3, <1>g DEF Begin
    <2>2. p \in Drainer
      BY <2>1, <1>d DEF Leased
    <2> QED BY <2>1, <2>2, <1>p DEF WillLook, Leased
  <1>4. CASE setback
    BY <1>4, <1>3, Setbacks
  <1>5. CASE queue \cup markers = {}
    BY <1>5, <1>2, WorkTurns
  <1>6. CASE ~setback /\ queue \cup markers # {}
    <2> USE <1>6
    \* A hook decides.
    <2>1. ASSUME NEW h \in Hook, Undecided(h) PROVE Goal
      <3>1. CASE hook'[h] = hook[h]
        BY <2>1, <3>1 DEF Undecided
      <3>2. CASE Claim(h)
        <4>1. hook'[h] = "claimed"
          BY <3>2, <1>t DEF Claim, HookGoesTo
        <4> QED BY <4>1 DEF Undecided
      <3>3. CASE LeaveIt(h)
        <4>1. /\ hook[h] = "marked" /\ hook' = [hook EXCEPT ![h] = "over"] /\ UNCHANGED <<pc, run>>
              /\ claim \/ ~NoLeaseHeld
          BY <3>3 DEF LeaveIt, HookGoesTo
        <4>2. CASE claim
          <5>1. (\E g \in Hook : hook[g] = "claimed") \/ \E p \in Drainer : WillClear(p)
            BY <4>2 DEF Answered, Claiming
          <5>2. ASSUME NEW g \in Hook, hook[g] = "claimed" PROVE Goal
            <6>1. hook'[g] = "claimed"
              BY <5>2, <4>1, <1>t
            <6> QED BY <6>1 DEF Undecided
          <5>3. ASSUME NEW p \in Drainer, WillClear(p) PROVE Goal
            <6>1. pc'[p] \in Leased \cup {"start", "acquire", "look"}
              BY <5>3, <4>1 DEF WillClear, Leased
            <6> QED BY <6>1, <1>p DEF WillLook
          <5> QED BY <5>1, <5>2, <5>3
        <4>3. CASE ~NoLeaseHeld
          <5>1. PICK k \in Kind : Held(k) /\ (k = "events" \/ owner[k] \in Drainer)
            BY <4>3 DEF NoLeaseHeld, Kind
          <5>2. PICK q \in Proc : /\ owner[k] = q
                                  /\ \/ q \in Drainer /\ pc[q] \in Leased
                                     \/ q \in Command /\ pc[q] = "import" /\ k = "transcripts"
            BY <5>1, Holder
          <5>3. pc[q] \in Leased
            BY <5>1, <5>2, <1>p
          <5> QED BY <5>3, <4>1, <1>1
        <4> QED BY <4>1, <4>2, <4>3
      <3>4. ASSUME NEW p \in Drainer, Spawn(h, p) PROVE Goal
        <4>1. pc'[p] = "start"
          BY <3>4, <1>g, <1>p DEF Spawn
        <4> QED BY <4>1, <1>p DEF WillLook
      <3>5. ~SpawnFails(h) /\ ~HookKilled(h)
        BY DEF SpawnFails, HookKilled
      <3> QED BY <3>1, <3>2, <3>3, <3>4, <3>5, <1>2, HookTurns DEF HookProceeds
    \* A process goes on.
    <2>2. ASSUME NEW p \in Proc, WillLook(p) PROVE Goal
      <3>w. \/ p \in Drainer /\ pc[p] \in Leased \cup {"start", "acquire", "look"}
            \/ p \in Command /\ pc[p] \in {"import", "after"}
        BY <2>2 DEF WillLook
      <3>s. ASSUME p \in Drainer, pc'[p] \in Leased \cup {"start", "acquire", "look"} PROVE Goal
        BY <3>s DEF WillLook
      <3>1. CASE pc'[p] = pc[p]
        BY <2>2, <3>1 DEF WillLook
      <3>2. CASE Works(p)
        BY <3>2, <3>s, <1>d DEF Works
      <3>3. CASE Start(p)
        <4>1. ~rejected
          BY <3>3 DEF Start
        <4>2. pc[p] = "start" /\ pc'[p] = "acquire"
          BY <3>3, <4>1, <1>g DEF Start
        <4> QED BY <4>2, <1>d, <3>s
      <3>4. CASE Acquire(p)
        <4>1. pc[p] = "acquire" /\ pc'[p] = "begin"
          BY <3>4, <1>g DEF Acquire
        <4> QED BY <4>1, <1>d, <3>s DEF Leased
      <3>5. CASE AcquireBusy(p)
        <4>1. Held("events") /\ pc[p] = "acquire" /\ GoTo(p, "report")
          BY <3>5 DEF AcquireBusy, Takeable
        <4>2. PICK q \in Drainer : pc[q] \in Leased
          BY <4>1, Holder DEF Kind
        <4>3. q \in Proc /\ q # p
          BY <4>1, <4>2, <1>p DEF Leased
        <4>4. pc'[q] = pc[q]
          BY <4>1, <4>3, <1>g
        <4> QED BY <4>2, <4>3, <4>4, <1>1
      <3>6. CASE Release(p)
        <4>1. pc[p] = "release" /\ GoTo(p, IF run[p].stop = "done" THEN "look" ELSE "report")
          BY <3>6 DEF Release
        <4>2. run[p].stop = "done"
          BY <4>1 DEF Remembered
        <4>3. pc'[p] = "look"
          BY <4>1, <4>2, <1>g
        <4> QED BY <4>1, <4>3, <1>d, <3>s DEF Leased
      <3>7. CASE LookAgain(p)
        <4>1. /\ pc[p] = "look" /\ UNCHANGED data
              /\ \E s : GoTo(p, s)
          BY <3>7 DEF LookAgain
        <4>2. CASE MoreWork(p)
          <5>1. pc'[p] = "acquire"
            BY <3>7, <4>2, <1>g DEF LookAgain
          <5> QED BY <5>1, <4>1, <1>d, <3>s
        <4>3. CASE ~MoreWork(p)
          <5>1. queue = {} /\ markersHeld = {}
            BY <4>3 DEF MoreWork, Due, Work
          <5>2. Held("transcripts")
            BY <4>3, <5>1 DEF MoreWork, Shippable
          <5>3. PICK q \in Proc : \/ q \in Drainer /\ pc[q] \in Leased
                                  \/ q \in Command /\ pc[q] = "import"
            BY <5>2, Holder DEF Kind
          <5>4. q # p
            BY <4>1, <5>3 DEF Leased
          <5>5. pc'[q] = pc[q]
            BY <4>1, <5>4, <1>g
          <5> QED BY <5>3, <5>5 DEF WillLook
        <4> QED BY <4>2, <4>3
      <3>8. CASE Report(p) \/ Exit(p)
        BY <3>8, <3>w DEF Report, Exit, Leased
      <3>9. ~CappedLook(p) /\ ~Crash(p)
        BY DEF CappedLook, Crash
      <3>10. CASE Commands(p)
        <4>1. ImportEnds(p)
          <5>1. pc[p] \notin {"off", "wait"}
            BY <3>w DEF Leased
          <5>2. ~ImportThrows(p)
            BY DEF ImportThrows
          <5> QED BY <3>10, <5>1, <5>2 DEF Commands, Import, ImportStarts, ImportGivesUp
        <4>2. pc[p] = "import" /\ pc'[p] = "after"
          BY <4>1, <1>g DEF ImportEnds
        <4> QED BY <4>2, <1>c DEF WillLook
      <3>11. ASSUME NEW d \in Drainer, Launches(p, d) PROVE Goal
        <4>1. pc'[d] = "start"
          BY <3>11, <1>t, <1>p DEF Launches, PostDrain, DrainByHand
        <4> QED BY <4>1, <1>p DEF WillLook
      <3>12. CASE p \in Drainer /\ pc'[p] = "start"
        BY <3>12, <3>s
      <3> HIDE DEF Goal
      <3> QED BY <3>1, <3>2, <3>3, <3>4, <3>5, <3>6, <3>7, <3>8, <3>9, <3>10, <3>11, <3>12, <1>3, ProcTurns
    <2> HIDE DEF Goal
    <2>3. (\E h \in Hook : Undecided(h)) \/ \E p \in Proc : WillLook(p)
      BY DEF Looked
    <2> QED BY <2>1, <2>2, <2>3
  <1> QED BY <1>4, <1>5, <1>6

\* All that holds of the leases and the work when nobody sleeps past the TTL.
LEMMA AwakeStep == TypeOK /\ Stages /\ Work /\ Rows /\ Awake /\ [Next]_vars => Awake'
  BY OwnedStep, ClearedStep, RememberedStep, AnsweredStep, LookedStep, ClaimTurns DEF Awake

-----------------------------------------------------------------------------
(* The invariant and what follows from it.                                 *)

\* Nothing is owed and nobody holds anything when it all begins.
LEMMA InvInit == Init => Inv
  <1> SUFFICES ASSUME Init PROVE Inv
    OBVIOUS
  <1>1. /\ queue = {} /\ rowsHeld = {} /\ markers = {} /\ markersHeld = {} /\ claim = FALSE
        /\ owner = [k \in Kind |-> None] /\ run = [p \in Proc |-> Fresh]
        /\ \A h \in Hook : hook[h] \in {"idle", "over"}
        /\ \A p \in Proc : pc[p] \in {"off", "over"} /\ (pc[p] = "over" => p \in Command)
    BY DEF Init
  <1>2. Stages
    BY <1>1, Bounds DEF Stages, Fresh, Proc
  <1>3. Work
    <2>1. \A h \in Hook : hook[h] # "queued"
      BY <1>1
    <2> QED BY <1>1, <2>1 DEF Work
  <1>4. Rows /\ Claims
    BY <1>1 DEF Rows, Claims
  <1>5. Awake
    <2>1. \A p \in Proc : pc[p] \notin Leased \cup {"import"}
      BY <1>1 DEF Leased
    <2>2. Owned
      BY <2>1, NoKinds DEF Owned
    <2>3. Cleared /\ Remembered
      BY <1>1, <2>1 DEF Cleared, Remembered, Leased
    <2>4. Answered /\ Looked
      BY <1>1 DEF Answered, Looked
    <2> QED BY <2>2, <2>3, <2>4 DEF Awake
  <1> QED BY <1>2, <1>3, <1>4, <1>5, TypeInit DEF Inv

\* Who is responsible is known at every moment, in every scenario.
THEOREM Invariant == Spec => []Inv
  <1>1. Inv /\ [Next]_vars => Inv'
    BY TypeStep, StagesStep, WorkStep, RowsStep, ClaimsStep, AwakeStep DEF Inv
  <1> QED BY <1>1, InvInit, PTL DEF Spec

\* The variables keep their types, in particular the counters of rounds and of
\* acquisitions their bounds (drainPass in commands/drain.ts).
THEOREM TypeCorrect == Spec => []TypeOK
  <1>1. Inv => TypeOK
    BY DEF Inv
  <1> QED BY <1>1, Invariant, PTL

\* With the pass and the commands gone and nothing failed since a pass that may
\* do all the work, neither row nor marker is left, whichever hook, pass and
\* import did what when (drainPass and claimDrainerSpawn).
THEOREM NothingStranded == Spec => []NoStrandedWork
  <1>1. Inv => NoStrandedWork
    <2> SUFFICES ASSUME Inv, "suspend" \notin faults, Quiet, ~setback PROVE queue \cup markers = {}
      BY DEF NoStrandedWork
    <2>1. Looked
      BY DEF Inv, Awake
    <2>2. \A h \in Hook : ~Undecided(h)
      BY DEF Quiet, Undecided
    <2>3. \A p \in Proc : ~WillLook(p)
      BY DEF Quiet, WillLook, Leased
    <2> QED BY <2>1, <2>2, <2>3 DEF Looked
  <1> QED BY <1>1, Invariant, PTL

\* Nor is a claim or a live row left that would keep the next hook from
\* spawning (claimDrainerSpawn and release).
THEOREM NextHookFree == Spec => []NothingBlocksNextHook
  <1>1. Inv => NothingBlocksNextHook
    <2> SUFFICES ASSUME Inv, Quiet, ~setback PROVE ~claim /\ \A k \in Kind : ~Held(k)
      BY DEF NothingBlocksNextHook
    <2>1. ASSUME NEW p \in Drainer PROVE pc[p] = "off"
      BY <2>1, Bounds DEF Quiet, Inv, Stages
    <2>2. ~claim
      BY <2>1 DEF Inv, Claims, Claiming, Quiet
    <2>3. ASSUME NEW k \in Kind, Held(k) PROVE FALSE
      <3>1. PICK q \in Proc : pc[q] \in Leased \cup {"import"}
        BY <2>3, Holder DEF Inv
      <3> QED BY <3>1 DEF Quiet, Leased
    <2> QED BY <2>2, <2>3
  <1> QED BY <1>1, Invariant, PTL

\* A claim stands only while somebody has yet to take the lease or hand it back,
\* however many hooks and passes there are (the finally block of runDrain).
THEOREM ClaimAnswered == Spec => []ClaimIsAnswered
  <1>1. Inv => ClaimIsAnswered
    BY DEF Inv, Claims, ClaimIsAnswered
  <1> QED BY <1>1, Invariant, PTL

-----------------------------------------------------------------------------
(* One pass at a time, and nothing is delivered twice.                     *)

\* If nobody sleeps past the TTL, two passes never flush and ship at a time.
OnePassAtATime ==
  "suspend" \notin faults =>
    \A p, q \in Proc : pc[p] \in Leased /\ pc[q] \in Leased => p = q

\* What a pass has in hand to post or upload has not been delivered meanwhile.
Undelivered ==
  \A p \in Proc : /\ pc[p] \in {"post", "answer"} => batch[p] \subseteq queue
                  /\ pc[p] \in {"upload", "uploading"} => batch[p] \subseteq markers

\* If nobody sleeps past the TTL, no row is posted and no marker uploaded after
\* an earlier pass, or an earlier round, has seen to it.
NothingTwice == "suspend" \notin faults => Undelivered

\* How a pass comes to have something in hand.
InHand(p) ==
  \/ pc'[p] = pc[p] /\ batch'[p] = batch[p]
  \/ pc[p] = "flush" /\ pc'[p] = "post" /\ batch'[p] \subseteq queue /\ queue' = queue
  \/ pc[p] = "post" /\ pc'[p] = "answer" /\ batch'[p] = batch[p]
  \/ pc[p] = "ship" /\ pc'[p] = "upload" /\ batch'[p] \subseteq markers /\ markers' = markers
  \/ pc[p] = "upload" /\ pc'[p] = "uploading" /\ batch'[p] = batch[p]
  \/ /\ pc[p] = "uploading" /\ pc'[p] = "upload"
     /\ \E m \in Hook : batch'[p] = batch[p] \ {m} /\ markers \ {m} \subseteq markers'

\* There is no other way.
LEMMA Grasps ==
  ASSUME TypeOK, Stages, [Next]_vars, NEW p \in Proc,
         pc'[p] \in {"post", "answer", "upload", "uploading"}
  PROVE  InHand(p)
  <1>t. pc \in [Proc -> Stage] /\ batch \in [Proc -> SUBSET Hook]
    BY Groups DEF ProcOK
  <1>1. ASSUME NEW q \in Proc, q # p, Proceed(q) \/ Crash(q) \/ Import(q) PROVE InHand(p)
    <2>1. CASE \E d \in Drainer : PostDrain(q, d)
      <3>1. UNCHANGED batch /\ \E d \in Drainer : pc' = [pc EXCEPT ![q] = "over", ![d] = "start"]
        BY <2>1 DEF PostDrain
      <3>2. pc'[p] = pc[p] \/ pc'[p] = "start"
        BY <3>1, <1>1, <1>t, Bounds
      <3> QED BY <3>1, <3>2 DEF InHand
    <2>2. CASE ~\E d \in Drainer : PostDrain(q, d)
      <3>1. \E x : GoTo(q, x)
        BY <1>1, <2>2 DEF Proceed, Crash, Import, Start, Acquire, AcquireBusy, Begin, LeaseLost, Capped, Flush,
             Post, Sent, PostFails, Unauthorized, NoToken, Ship, LeaveTranscripts, Upload, Uploaded,
             SessionNotReady, UploadFails, ShipDone, NextRound, PassDone, Release, LookAgain, CappedLook,
             Report, Exit, ImportStarts, ImportGivesUp, ImportEnds, ImportThrows, Return
      <3>2. batch' = batch \/ \E b : batch' = [batch EXCEPT ![q] = b]
        BY <1>1, <2>2, Zenon DEF Proceed, Crash, Import, Start, Acquire, AcquireBusy, Begin, LeaseLost, Capped, Flush,
             Post, Sent, PostFails, Unauthorized, NoToken, Ship, LeaveTranscripts, Upload, Uploaded,
             SessionNotReady, UploadFails, ShipDone, NextRound, PassDone, Release, LookAgain, CappedLook,
             Report, Exit, ImportStarts, ImportGivesUp, ImportEnds, ImportThrows, Return
      <3>3. pc'[p] = pc[p] /\ batch'[p] = batch[p]
        BY <1>1, <3>1, <3>2, <1>t DEF GoTo
      <3> QED BY <3>3 DEF InHand
    <2> QED BY <2>1, <2>2
  <1>2. ASSUME NEW q \in Proc, \E d \in Drainer : DrainByHand(q, d) PROVE InHand(p)
    <2>1. UNCHANGED batch /\ \E d \in Drainer : pc' = [pc EXCEPT ![q] = "over", ![d] = "start"]
      BY <1>2 DEF DrainByHand
    <2>2. pc'[p] = pc[p] \/ pc'[p] = "start" \/ pc'[p] = "over"
      BY <2>1, <1>t, Bounds
    <2> QED BY <2>1, <2>2 DEF InHand
  <1>g. ASSUME NEW x, GoTo(p, x) PROVE pc'[p] = x
    BY <1>g, <1>t DEF GoTo
  <1>3. ASSUME Proceed(p) \/ Crash(p) \/ Import(p) PROVE InHand(p)
    <2>1. ASSUME \/ Start(p) \/ Acquire(p) \/ AcquireBusy(p) \/ Begin(p) \/ LeaseLost(p) \/ Capped(p)
                 \/ Sent(p) \/ PostFails(p) \/ Unauthorized(p) \/ NoToken(p) \/ LeaveTranscripts(p)
                 \/ (\E m \in Hook : UploadFails(p, m)) \/ ShipDone(p) \/ NextRound(p) \/ PassDone(p)
                 \/ Release(p) \/ LookAgain(p) \/ CappedLook(p) \/ Report(p) \/ Exit(p)
                 \/ Crash(p) \/ Commands(p)
          PROVE  FALSE
      <3>1. \E x \in Stage \ {"post", "answer", "upload", "uploading"} : GoTo(p, x)
        BY <2>1 DEF Crash, Start, Acquire, AcquireBusy, Begin, LeaseLost, Capped, Sent, PostFails,
             Unauthorized, NoToken, LeaveTranscripts, UploadFails, ShipDone, NextRound, PassDone, Release,
             LookAgain, CappedLook, Report, Exit, Commands, Import, ImportStarts, ImportGivesUp, ImportEnds,
             ImportThrows, Return, Stage, Leased
      <3> QED BY <3>1, <1>g
    <2>2. ASSUME NEW d \in Drainer, PostDrain(p, d) PROVE FALSE
      <3>1. pc' = [pc EXCEPT ![p] = "over", ![d] = "start"]
        BY <2>2 DEF PostDrain
      <3>2. pc'[p] \in {"over", "start"}
        BY <3>1, <1>t, Bounds
      <3> QED BY <3>2
    <2>3. CASE Flush(p)
      <3>1. pc[p] = "flush" /\ (pc'[p] = "ship" \/ pc'[p] = "post")
        BY <2>3, <1>g DEF Flush
      <3>2. pc'[p] = "post" /\ queue' = queue /\ \E b \in SUBSET Due : batch' = [batch EXCEPT ![p] = b]
        BY <2>3, <3>1, <1>g DEF Flush
      <3>3. batch'[p] \subseteq queue
        BY <3>2, <1>t DEF Due
      <3> QED BY <3>1, <3>2, <3>3 DEF InHand
    <2>4. CASE Post(p)
      BY <2>4, <1>g DEF Post, InHand
    <2>5. CASE Ship(p)
      <3>1. pc[p] = "ship" /\ pc'[p] = "upload" /\ markers' = markers /\ batch' = [batch EXCEPT ![p] = Shippable]
        BY <2>5, <1>g DEF Ship
      <3>2. batch'[p] \subseteq markers
        BY <3>1, <1>t DEF Shippable
      <3> QED BY <3>1, <3>2 DEF InHand
    <2>6. CASE Upload(p)
      BY <2>6, <1>g DEF Upload, InHand
    <2>7. ASSUME NEW m \in Hook, Uploaded(p, m) \/ SessionNotReady(p, m) PROVE InHand(p)
      <3>1. /\ pc[p] = "uploading" /\ pc'[p] = "upload" /\ batch'[p] = batch[p] \ {m}
            /\ markers \ {m} \subseteq markers'
        BY <2>7, <1>g, <1>t DEF Uploaded, SessionNotReady
      <3> QED BY <3>1 DEF InHand
    <2> QED BY <1>3, <2>1, <2>2, <2>3, <2>4, <2>5, <2>6, <2>7 DEF Proceed, Commands
  <1>4. ASSUME NEW h \in Hook, NEW d \in Drainer, Spawn(h, d) PROVE InHand(p)
    <2>1. UNCHANGED batch /\ GoTo(d, "start")
      BY <1>4 DEF Spawn
    <2>2. pc'[p] = pc[p] \/ pc'[p] = "start"
      BY <2>1, <1>t, Bounds DEF GoTo
    <2> QED BY <2>1, <2>2 DEF InHand
  <1>5. CASE \/ \E h \in Hook : Enqueue(h) \/ Mark(h) \/ Claim(h) \/ LeaveIt(h) \/ SpawnFails(h) \/ HookKilled(h)
             \/ \E k \in Kind : LapseAbandoned(k)
             \/ \E q \in Proc : LapseAsleep(q)
             \/ ClaimExpires \/ HoldExpires \/ TokenTriedAgain \/ RetryTimeComes \/ UNCHANGED vars
    <2>1. UNCHANGED <<pc, batch>>
      BY <1>5 DEF Enqueue, Mark, Claim, LeaveIt, SpawnFails, HookKilled, LapseAbandoned, LapseAsleep,
                  ClaimExpires, HoldExpires, TokenTriedAgain, RetryTimeComes, vars
    <2> QED BY <2>1 DEF InHand
  <1> QED BY <1>1, <1>2, <1>3, <1>4, <1>5, Bounds DEF Next, HookProceeds

\* Only a pass that has an answer takes anything from the queue or the markers.
LEMMA WorkLeaves ==
  ASSUME TypeOK, [Next]_vars
  PROVE  \/ queue \subseteq queue' /\ markers \subseteq markers'
         \/ \E q \in Proc : /\ pc[q] \in {"answer", "uploading"}
                            /\ pc'[q] \notin {"post", "answer", "uploading"}
                            /\ Sent(q) \/ \E m \in Hook : Uploaded(q, m)
  <1> DEFINE Stays == queue \subseteq queue' /\ markers \subseteq markers'
             Goes(q) == /\ pc[q] \in {"answer", "uploading"}
                        /\ pc'[q] \notin {"post", "answer", "uploading"}
                        /\ Sent(q) \/ \E m \in Hook : Uploaded(q, m)
  <1>t. pc \in [Proc -> Stage]
    BY Groups DEF ProcOK
  <1>1. ASSUME NEW p \in Proc, Proceed(p) PROVE Stays \/ Goes(p)
    <2>1. CASE Sent(p) \/ \E m \in Hook : Uploaded(p, m)
      BY <2>1, <1>t DEF Sent, Uploaded, GoTo
    <2>2. CASE \/ LeaseLost(p) \/ Capped(p) \/ Flush(p) \/ Post(p) \/ PostFails(p)
               \/ Unauthorized(p) \/ NoToken(p) \/ Ship(p) \/ LeaveTranscripts(p) \/ Upload(p)
               \/ \E m \in Hook : SessionNotReady(p, m) \/ UploadFails(p, m)
               \/ ShipDone(p) \/ NextRound(p) \/ PassDone(p)
      BY <2>2 DEF LeaseLost, Capped, Flush, Post, PostFails, Unauthorized, NoToken, Ship, LeaveTranscripts,
                  Upload, SessionNotReady, UploadFails, ShipDone, NextRound, PassDone
    <2>3. CASE Start(p) \/ Acquire(p) \/ AcquireBusy(p) \/ Begin(p) \/ Release(p)
               \/ LookAgain(p) \/ CappedLook(p) \/ Report(p) \/ Exit(p) \/ ImportStarts(p)
               \/ ImportGivesUp(p) \/ ImportEnds(p) \/ ImportThrows(p) \/ \E d \in Drainer : PostDrain(p, d)
      BY <2>3 DEF Start, Acquire, AcquireBusy, Begin, Release, LookAgain, CappedLook, Report, Exit, ImportStarts,
                  ImportGivesUp, ImportEnds, ImportThrows, PostDrain
    <2> QED BY <1>1, <2>1, <2>2, <2>3 DEF Proceed
  <1>2. ASSUME NEW p \in Proc, Import(p) \/ (\E d \in Drainer : DrainByHand(p, d)) \/ Crash(p) PROVE Stays
    BY <1>2 DEF Import, DrainByHand, Crash
  <1>3. ASSUME NEW h \in Hook, Enqueue(h) \/ HookProceeds(h) \/ HookKilled(h) PROVE Stays
    BY <1>3 DEF Enqueue, HookProceeds, HookKilled, Mark, Claim, LeaveIt, SpawnFails, Spawn
  <1>4. ASSUME \/ \E k \in Kind : LapseAbandoned(k)
               \/ \E p \in Proc : LapseAsleep(p)
               \/ ClaimExpires \/ HoldExpires \/ TokenTriedAgain \/ RetryTimeComes \/ UNCHANGED vars
        PROVE Stays
    BY <1>4 DEF LapseAbandoned, LapseAsleep, ClaimExpires, HoldExpires, TokenTriedAgain, RetryTimeComes, vars
  <1> HIDE DEF Stays, Goes
  <1>5. Stays \/ \E q \in Proc : Goes(q)
    BY <1>1, <1>2, <1>3, <1>4, Bounds DEF Next
  <1> QED BY <1>5 DEF Stays, Goes

\* What is in hand stays undelivered: nobody else has a pass.
LEMMA UndeliveredStep ==
  ASSUME TypeOK, Stages, Owned, Undelivered, [Next]_vars
  PROVE  Undelivered'
  <1> SUFFICES ASSUME NEW p \in Proc, pc'[p] \in {"post", "answer", "upload", "uploading"}
               PROVE  /\ pc'[p] \in {"post", "answer"} => batch'[p] \subseteq queue'
                      /\ pc'[p] \in {"upload", "uploading"} => batch'[p] \subseteq markers'
    BY DEF Undelivered
  <1>1. InHand(p)
    BY Grasps
  <1>2. pc[p] \in Leased
    BY <1>1 DEF InHand, Leased
  <1>3. /\ pc[p] \in {"post", "answer"} => batch[p] \subseteq queue
        /\ pc[p] \in {"upload", "uploading"} => batch[p] \subseteq markers
    BY DEF Undelivered
  <1>4. CASE queue \subseteq queue' /\ markers \subseteq markers'
    BY <1>1, <1>3, <1>4 DEF InHand
  <1>5. ASSUME NEW q \in Proc, pc[q] \in {"answer", "uploading"},
               pc'[q] \notin {"post", "answer", "uploading"},
               Sent(q) \/ \E m \in Hook : Uploaded(q, m)
        PROVE  /\ pc'[p] \in {"post", "answer"} => batch'[p] \subseteq queue'
               /\ pc'[p] \in {"upload", "uploading"} => batch'[p] \subseteq markers'
    <2>1. p = q
      BY <1>2, <1>5, OnePass DEF Leased
    <2>2. pc[p] \in {"answer", "uploading"} /\ pc'[p] = "upload"
      BY <1>5, <2>1
    <2>3. pc[p] = "uploading" /\ \E m \in Hook : batch'[p] = batch[p] \ {m} /\ markers \ {m} \subseteq markers'
      BY <1>1, <2>2 DEF InHand
    <2> QED BY <1>3, <2>2, <2>3
  <1> QED BY <1>4, <1>5, WorkLeaves

\* However many hooks, passes and commands there are, one pass at a time flushes
\* and ships (the delivery lease, as drainPass uses it).
THEOREM OneDrainPass == Spec => []OnePassAtATime
  <1>1. Inv => OnePassAtATime
    BY OnePass DEF Inv, Awake, OnePassAtATime
  <1> QED BY <1>1, Invariant, PTL

\* No pass posts a row or uploads a marker that was delivered before: what
\* another one left off, or a round of its own, is read again under the lease
\* (flushOnce and shipPass inside passBody).
THEOREM DeliveredOnce == Spec => []NothingTwice
  <1>1. Init => NothingTwice
    BY DEF Init, NothingTwice, Undelivered
  <1>2. Inv /\ NothingTwice /\ [Next]_vars => NothingTwice'
    <2> SUFFICES ASSUME Inv, NothingTwice, [Next]_vars, "suspend" \notin faults' PROVE Undelivered'
      BY DEF NothingTwice
    <2>1. "suspend" \notin faults
      BY ClaimTurns DEF Inv
    <2> QED BY <2>1, UndeliveredStep DEF Inv, Awake, NothingTwice
  <1> QED BY <1>1, <1>2, Invariant, PTL DEF Spec

\* What RowsLeave rests on: while a row or a marker is left and nothing has
\* failed, a hook has yet to decide about a drainer, or a process will look
\* again before it is gone (the re-checks of drainPass).
SomebodyLooks == "suspend" \notin faults => Looked

\* SomebodyLooks holds in every behaviour.
THEOREM WorkIsLookedAfter == Spec => []SomebodyLooks
  <1>1. Inv => SomebodyLooks
    BY DEF Inv, Awake, SomebodyLooks
  <1> QED BY <1>1, Invariant, PTL

-----------------------------------------------------------------------------
(* The leases are used as promised.                                        *)

\* Who is entitled to what, in the terms of ExclusiveLease.
Entitled == [k \in Kind |-> IF Held(k) THEN {owner[k]} ELSE {}]

\* The passes, the commands and the passing of time only let a lease lapse that
\* somebody has, or take one that nobody has; a renewal that comes too late
\* takes it again (lib/lease.ts, as commands/drain.ts and import.ts use it).
THEOREM LeaseRefinement == Spec => LeasesAsPromised
  <1>1. Init => Abstract!Init
    BY DEF Init, Abstract!Init, Held
  <1>2. Inv /\ [Next]_vars => [Abstract!Next]_Entitled
    <2> SUFFICES ASSUME Inv, [Next]_vars PROVE Abstract!Next
      BY DEF Entitled
    <2>t. /\ owner \in [Kind -> Proc \cup {None}] /\ owner' \in [Kind -> Proc \cup {None}]
      <3>1. TypeOK /\ TypeOK'
        BY TypeStep DEF Inv
      <3> QED BY <3>1 DEF TypeOK
    <2>1. Entitled' \in [Kind -> SUBSET Proc]
      BY <2>t DEF Entitled, Held
    <2>2. ASSUME NEW k \in Kind
          PROVE  Abstract!Lapse(k) \/ Abstract!Grant(k)
      <3> DEFINE mine == IF Held(k) THEN {owner[k]} ELSE {}
                 next == IF Held(k)' THEN {owner'[k]} ELSE {}
      <3>e. Entitled[k] = mine /\ Entitled'[k] = next
        BY DEF Entitled, Held
      <3>1. (owner'[k] = owner[k] /\ (k \in lapsed => k \in lapsed')) \/ owner'[k] = None => next \subseteq mine
        BY DEF Held
      <3>2. ~Held(k) => mine = {} /\ (next = {} \/ \E p \in Proc : next = {p})
        BY <2>t DEF Held
      <3>3. next \subseteq mine \/ ~Held(k)
        <4>1. CASE Keeps
          <5>1. owner' = owner /\ (k \in lapsed \/ lapsed' = lapsed \/ k \notin lapsed)
            BY <4>1 DEF Keeps
          <5> QED BY <5>1 DEF Held
        <4>2. CASE Runs
          BY <4>2, <2>t DEF Runs, Free, Held
        <4>3. ASSUME NEW p \in Proc, Gains(p) PROVE next \subseteq mine \/ ~Held(k)
          BY <4>3, <2>t DEF Gains, Take, Takeable, Held
        <4>4. ASSUME NEW p \in Proc, GivesUp(p) PROVE next \subseteq mine \/ ~Held(k)
          BY <4>4, <2>t DEF GivesUp, Free, Held
        <4>5. ASSUME NEW p \in Proc, Abandons(p) PROVE next \subseteq mine \/ ~Held(k)
          BY <4>5 DEF Abandons, Held
        <4> QED BY <4>1, <4>2, <4>3, <4>4, <4>5, LeaseSteps DEF Inv
      <3>4. next \subseteq mine => Abstract!Lapse(k)
        BY <3>e DEF Abstract!Lapse, Entitled
      <3>5. mine = {} /\ (\E p \in Proc : next = {p}) => Abstract!Grant(k)
        BY <3>e DEF Abstract!Grant, Entitled
      <3> HIDE DEF mine, next
      <3>6. CASE next \subseteq mine
        BY <3>4, <3>6
      <3>7. CASE ~Held(k)
        BY <3>2, <3>4, <3>5, <3>7
      <3> QED BY <3>3, <3>6, <3>7
    <2> QED BY <2>1, <2>2 DEF Abstract!Next, Entitled
  <1> QED BY <1>1, <1>2, Invariant, PTL DEF Spec, LeasesAsPromised, Abstract!Spec, Entitled
=============================================================================
