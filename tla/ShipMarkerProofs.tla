--------------------------- MODULE ShipMarkerProofs ---------------------------
(***************************************************************************)
(* Proofs about ShipMarker: its types, that no transcript is assembled     *)
(* from two, that the end of a session is not forgotten, that attempts are *)
(* earned, that a transcript is given up for a cause only, and that what   *)
(* is stored is never replaced by anything older.                          *)
(*                                                                         *)
(* A marker exists in many copies: the file, what each hook has read, what *)
(* the pass has read, the snapshot and what is about to be written.        *)
(* The invariant says how these copies agree although nobody locks the     *)
(* file.  It is carried by a few kinds of steps that the actions come to.  *)
(***************************************************************************)
EXTENDS ShipMarker, TLAPS

\* The shipper is processing a marker.
Busy == pc \in {"snapped", "sending"} \/ (pc = "writing" /\ after # "lift")

\* It is about to lift the hold of one.
Lifting == pc = "writing" /\ after = "lift"

\* The body read is still being uploaded.
Uploading == pc = "sending" \/ (pc = "writing" /\ after = "send")

\* The copies of a session's marker, in the file and in the hands of its writers.
Copies(s) ==
  {marker[s], todo[s]} \cup {hook[s][h].prior : h \in Slot}
  \cup (IF s = cur THEN {snap, copy} ELSE {})

\* Neither the shipper nor a SessionEnd has written over a marker of this session
\* that it had not read.
Unraced(s) == "shipper" \notin raced[s] /\ "end" \notin raced[s]

\* No progress is about more than was uploaded, and nothing was uploaded that
\* the transcript did not hold.
Sizes ==
  /\ \A s \in Session :
       /\ scratch[s] <= turns[s] /\ reported[s] <= turns[s]
       /\ \A m \in Copies(s) :
            /\ m.sent <= turns[s]
            /\ scratch[s] # 0 => m.sent <= scratch[s]
            /\ s = cur /\ Uploading => m.sent <= body
  /\ Uploading =>
       /\ body <= turns[cur]
       /\ setting.chunked /\ offset = 1 => scratch[cur] \in {0, body}
  /\ mixed = {}

\* updated_at is never newer than the last write, and two copies with the same
\* agree on whether the session has ended.
Stamps ==
  /\ \A s \in Session :
       /\ \A m \in Copies(s) :
            /\ m.stamp <= writes[s]
            /\ m.stamp = 0 => m = NoMarker
       /\ \A m, n \in Copies(s) : m.stamp = n.stamp => m.final = n.final
       /\ listed[s] <= writes[s]
  /\ seen <= writes[cur]

\* What the shipper has in its hands at each stage of a pass.
Pass ==
  /\ pc = "idle" => \A s \in Session : todo[s] = NoMarker
  /\ ~Busy => snap = NoMarker
  /\ pc # "writing" => copy = NoMarker /\ seen = 0
  /\ Busy => todo[cur].dirty /\ Exists(snap)
  /\ pc = "writing" => \/ copy = NoMarker /\ after \notin {"send", "lift"}
                       \/ copy.stamp = seen /\ seen # 0
  /\ pc = "writing" /\ after = "send" => seen = snap.stamp
  /\ \A s \in Session : Exists(todo[s]) => Exists(marker[s])

\* What is listed for release, and what is being released, is owed.
Owed ==
  /\ pc # "releasing" /\ ~Lifting => \A s \in Session : listed[s] = 0
  /\ \A s \in Session : listed[s] # 0 /\ marker[s].stamp = listed[s] => marker[s].dirty
  /\ Lifting => copy.dirty /\ Exists(marker[cur]) /\ (marker[cur].stamp = seen => marker[cur].dirty)

\* Between the steps of either writer the other has not made clean what is owed.
Kept ==
  /\ \A s \in Session : Unraced(s) =>
       /\ todo[s].dirty => marker[s].dirty
       /\ \A h \in Slot : marker[s].dirty /\ marker[s].stamp = hook[s][h].prior.stamp =>
            hook[s][h].prior.dirty
  /\ Busy /\ Unraced(cur) => snap.dirty
  /\ pc = "writing" /\ after = "send" /\ Unraced(cur) => copy.dirty

\* No copy charges an attempt that did not fail.
Earned ==
  \A s \in Session : raced[s] = {} =>
    /\ marker[s].attempts <= failures[s] /\ todo[s].attempts <= failures[s]
    /\ s = cur => snap.attempts <= failures[s] /\ copy.attempts <= failures[s]

\* What is about to be cleaned is covered.
Covered ==
  Unraced(cur) =>
    /\ Uploading /\ marker[cur].stamp = snap.stamp => reported[cur] <= body
    /\ pc = "writing" /\ marker[cur].stamp = seen /\ ~copy.dirty =>
         stored[cur] >= reported[cur] \/ cur \in idle
    /\ pc = "writing" /\ ~copy.dirty => copy.attempts = 0

Inv == TypeOK /\ Sizes /\ Stamps /\ Pass /\ Owed /\ Kept /\ Earned /\ Covered

\* The types of the shipper's variables, and of the others.
Local ==
  /\ pc \in Stage /\ mode \in Mode /\ todo \in [Session -> Marker]
  /\ cur \in Session /\ snap \in Marker /\ body \in 0..MaxTurns
  /\ offset \in 0..1 /\ retried \in BOOLEAN
  /\ copy \in Marker /\ after \in After /\ seen \in 0..MaxWrites
  /\ listed \in [Session -> 0..MaxWrites]
  /\ rejected \in BOOLEAN

Files ==
  /\ turns \in [Session -> 0..MaxTurns] /\ writes \in [Session -> 0..MaxWrites]
  /\ marker \in [Session -> Marker] /\ idle \subseteq Session
  /\ hook \in [Session -> [Slot -> [kind : Hook, prior : Marker]]]

Rest ==
  /\ setting \in Scenario
  /\ scratch \in [Session -> 0..MaxTurns] /\ stored \in [Session -> 0..MaxTurns]
  /\ reported \in [Session -> 0..MaxTurns]
  /\ failures \in [Session -> 0..MaxAttempts]
  /\ refused \subseteq Session /\ mixed \subseteq Session
  /\ raced \in [Session -> SUBSET Racer]

\* The types, by whose variable it is.
LEMMA TypeParts == TypeOK <=> Local /\ Files /\ Rest
BY DEF TypeOK, Local, Files, Rest

-----------------------------------------------------------------------------
\* The bounds are positive.
LEMMA Bounds ==
  /\ MaxTurns \in Nat /\ MaxWrites \in Nat /\ MaxAttempts \in Nat
  /\ 0 < MaxTurns /\ 0 < MaxWrites /\ 0 < MaxAttempts
BY BoundsOk

\* The sessions of a setting are sessions.
LEMMA InSession == TypeOK => setting.sessions \subseteq Session /\ setting.modes \subseteq Mode
BY ScenarioOk DEF TypeOK, Setting

\* What is made of a marker is one.
LEMMA Copied ==
  /\ NoMarker \in Marker
  /\ \A m \in Marker, b \in BOOLEAN :
       [m EXCEPT !.held = b] \in Marker /\ [m EXCEPT !.recent = b] \in Marker
  /\ \A m \in Marker, k \in 0..MaxTurns : [m EXCEPT !.sent = k] \in Marker
  /\ \A m \in Marker : [NoMarker EXCEPT !.stamp = m.stamp, !.recent = TRUE] \in Marker
<1>1. NoMarker \in Marker
  BY Bounds DEF Marker, NoMarker
<1>2. ASSUME NEW m \in Marker, NEW b \in BOOLEAN
      PROVE  [m EXCEPT !.held = b] \in Marker /\ [m EXCEPT !.recent = b] \in Marker
  BY DEF Marker
<1>4. ASSUME NEW m \in Marker, NEW k \in 0..MaxTurns PROVE [m EXCEPT !.sent = k] \in Marker
  BY DEF Marker
<1>5. ASSUME NEW m \in Marker
      PROVE  [NoMarker EXCEPT !.stamp = m.stamp, !.recent = TRUE] \in Marker
  <2>1. m.stamp \in 0..MaxWrites /\ 0 \in 0..MaxAttempts - 1 /\ 0 \in 0..MaxTurns
    BY Bounds DEF Marker
  <2> QED
    BY <1>1, <2>1 DEF Marker
<1> QED
  BY <1>1, <1>2, <1>4, <1>5

\* A marker that is blamed once more and not at the cap is still one.
LEMMA Blamed ==
  ASSUME NEW m \in Marker, ~(m.attempts + 1 >= MaxAttempts)
  PROVE  [m EXCEPT !.attempts = @ + 1, !.held = TRUE] \in Marker
<1>1. m.attempts + 1 \in 0..MaxAttempts - 1
  BY Bounds DEF Marker
<1> QED
  BY <1>1 DEF Marker

\* A hook that may still write makes a marker of one.
LEMMA Hooked ==
  ASSUME TypeOK, NEW s \in Session, NEW h \in Slot, writes[s] < MaxWrites
  PROVE  HookMarker(s, h) \in Marker
<1> DEFINE p == hook[s][h].prior
<1>1. p \in Marker /\ writes[s] + 1 \in 0..MaxWrites /\ 0 \in 0..MaxTurns
  BY Bounds DEF TypeOK
<1>2. p.final \in BOOLEAN /\ p.dirty \in BOOLEAN
  BY <1>1 DEF Marker
<1> QED
  BY <1>1, <1>2 DEF HookMarker, Marker

\* What a hook that starts or stops leaves of the hooks.
LEMMA HookTypes ==
  ASSUME TypeOK, NEW s \in Session, NEW h \in Slot, NEW new \in [kind : Hook, prior : Marker],
         hook' = [hook EXCEPT ![s][h] = new]
  PROVE  /\ hook' \in [Session -> [Slot -> [kind : Hook, prior : Marker]]]
         /\ \A r \in Session, g \in Slot :
              hook'[r][g] = IF r = s /\ g = h THEN new ELSE hook[r][g]
BY DEF TypeOK

\* A hook that writes leaves nothing behind, but a marker of its own.
LEMMA HookWrote ==
  ASSUME TypeOK, NEW s \in Session, NEW h \in Slot, HookWrites(s, h)
  PROVE  /\ marker' = [marker EXCEPT ![s] = HookMarker(s, h)]
         /\ \A r \in Session, g \in Slot : hook'[r][g].prior \in {hook[r][g].prior, NoMarker}
         /\ \A r \in Session : raced[r] \subseteq raced'[r] /\ (r # s => raced'[r] = raced[r])
         /\ raced'[s] = {} => marker[s] = hook[s][h].prior
         /\ Unraced(s)' /\ hook[s][h].kind = "end" /\ Exists(marker[s]) =>
              marker[s].stamp = hook[s][h].prior.stamp
<1>1. NoHook \in [kind : Hook, prior : Marker] /\ NoHook.prior = NoMarker
  BY Copied DEF NoHook, Hook
<1>2. \A r \in Session, g \in Slot : hook'[r][g].prior \in {hook[r][g].prior, NoMarker}
  BY <1>1, HookTypes DEF HookWrites
<1>3. /\ \A r \in Session \ {s} : raced'[r] = raced[r]
      /\ raced'[s] = raced[s] \cup HookRaces(s, h)
  BY DEF HookWrites, TypeOK
<1>4. /\ marker[s] # hook[s][h].prior => "hook" \in raced'[s]
      /\ Behind(s, h) /\ hook[s][h].kind = "end" => "end" \in raced'[s]
  BY <1>3 DEF HookRaces
<1> QED
  BY <1>2, <1>3, <1>4 DEF HookWrites, Unraced, Behind

\* However a marker is done with, the shipper's variables keep their types.
LEMMA Ended ==
  ASSUME TypeOK, NextMarker \/ StopPass \/ OnTransport, UNCHANGED mode, rejected' \in BOOLEAN
  PROVE  Local'
<1>0. listed' \in [Session -> 0..MaxWrites]
  BY Bounds DEF NextMarker, StopPass, OnTransport, Unlisted
<1>1. Local /\ NoMarker \in Marker /\ 0 \in 0..MaxTurns /\ 0 \in 0..MaxWrites
  <2>1. 0 \in 0..MaxTurns /\ 0 \in 0..MaxWrites
    BY Bounds
  <2> QED
    BY <2>1, TypeParts, Copied
<1>2. pc' \in Stage /\ Forget /\ (Processed(cur) \/ todo' = [s \in Session |-> NoMarker])
  BY DEF NextMarker, StopPass, OnTransport, Stage
<1>3. todo' \in [Session -> Marker]
  BY <1>1, <1>2 DEF Processed, Local
<1>4. /\ cur' = cur /\ snap' = NoMarker /\ body' = 0 /\ offset' = 0 /\ retried' = FALSE
      /\ copy' = NoMarker /\ after' \in After /\ seen' = 0
  BY <1>2 DEF Forget, After
<1>5. /\ cur' \in Session /\ snap' \in Marker /\ body' \in 0..MaxTurns /\ offset' \in 0..1
      /\ retried' \in BOOLEAN /\ copy' \in Marker /\ seen' \in 0..MaxWrites /\ mode' \in Mode
  <2>1. mode' = mode /\ mode \in Mode /\ cur \in Session /\ 0 \in 0..1
    BY <1>1 DEF Local
  <2> QED
    BY <1>1, <1>4, <2>1
<1> QED
  BY <1>0, <1>2, <1>3, <1>4, <1>5 DEF Local

\* So they do when it goes on to write.
LEMMA Writing ==
  ASSUME TypeOK, NEW m \in Marker, NEW then \in After, Write(m, then)
  PROVE  /\ pc' \in Stage /\ copy' \in Marker /\ after' \in After /\ seen' \in 0..MaxWrites
         /\ UNCHANGED listed
         /\ WriteNext(m, then) /\ UNCHANGED <<mode, rejected>> => Local'
BY TypeParts, Bounds DEF Write, WriteNext, Local, Files, Stage, upload, Marker

\* No step breaks a type.
LEMMA TypesNext == Inv /\ [Next]_vars => TypeOK'
<1> SUFFICES ASSUME Inv, [Next]_vars PROVE TypeOK'
  OBVIOUS
<1>0. TypeOK /\ Stamps /\ Local /\ Files /\ Rest
  BY TypeParts DEF Inv
<1> USE <1>0, Bounds DEF hooks, upload, write, shipper, server, ghosts
<1>h. \A s \in Session, k \in Hook : [kind |-> k, prior |-> marker[s]] \in [kind : Hook, prior : Marker]
  BY DEF Files
<1>o. NoHook \in [kind : Hook, prior : Marker]
  BY Copied DEF NoHook, Hook
<1>1. ASSUME NEW s \in Session, NEW h \in Slot, NEW kind \in {"stop", "finalStop"}, StopReads(s, h, kind)
      PROVE  TypeOK'
  <2>1. Local' /\ Rest'
    BY <1>1 DEF StopReads, Local, Rest
  <2>2. kind \in Hook
    BY DEF Hook
  <2>3. hook' \in [Session -> [Slot -> [kind : Hook, prior : Marker]]]
    BY <1>1, <1>h, <2>2, HookTypes DEF StopReads, Reads
  <2>4. turns' \in [Session -> 0..MaxTurns]
    <3>1. turns' = [turns EXCEPT ![s] = @ + 1] /\ turns[s] < MaxTurns
      BY <1>1 DEF StopReads
    <3>2. turns[s] + 1 \in 0..MaxTurns
      BY <3>1 DEF Files
    <3> QED
      BY <3>1, <3>2 DEF Files
  <2>5. Files'
    BY <1>1, <2>3, <2>4 DEF StopReads, Files
  <2> QED
    BY <2>1, <2>5 DEF TypeOK, Local, Files, Rest
<1>2. ASSUME NEW s \in Session, NEW h \in Slot, EndReads(s, h) PROVE TypeOK'
  <2>1. Local' /\ Rest'
    BY <1>2 DEF EndReads, Local, Rest
  <2>2. "end" \in Hook
    BY DEF Hook
  <2>3. hook' \in [Session -> [Slot -> [kind : Hook, prior : Marker]]]
    BY <1>2, <1>h, <2>2, HookTypes DEF EndReads, Reads
  <2>4. Files'
    BY <1>2, <2>3 DEF EndReads, Files
  <2> QED
    BY <2>1, <2>4 DEF TypeOK, Local, Files, Rest
<1>3. ASSUME NEW s \in Session, NEW h \in Slot, HookWrites(s, h) PROVE TypeOK'
  <2>1. writes[s] < MaxWrites /\ hook' = [hook EXCEPT ![s][h] = NoHook]
    BY <1>3 DEF HookWrites
  <2>2. HookMarker(s, h) \in Marker
    BY <2>1, Hooked
  <2>3. hook' \in [Session -> [Slot -> [kind : Hook, prior : Marker]]]
    BY <1>o, <2>1, HookTypes
  <2>4. Files'
    BY <1>3, <2>1, <2>2, <2>3 DEF HookWrites, Files
  <2>5. HookRaces(s, h) \subseteq Racer
    BY DEF HookRaces, Racer
  <2>6. Rest'
    BY <1>3, <2>5 DEF HookWrites, Files, Rest
  <2>7. Local'
    BY <1>3 DEF HookWrites, Local
  <2> QED
    BY <2>4, <2>6, <2>7 DEF TypeOK, Local, Files, Rest
<1>4. ASSUME NEW s \in Session, NEW h \in Slot, HookDies(s, h) PROVE TypeOK'
  <2>1. Local' /\ Rest'
    BY <1>4 DEF HookDies, Local, Rest
  <2>2. hook' \in [Session -> [Slot -> [kind : Hook, prior : Marker]]]
    BY <1>4, <1>o, HookTypes DEF HookDies
  <2>3. Files'
    BY <1>4, <2>2 DEF HookDies, Files
  <2> QED
    BY <2>1, <2>3 DEF TypeOK, Local, Files, Rest
<1>5. ASSUME NEW s \in Session, Collect(s) PROVE TypeOK'
  <2>1. Local'
    BY <1>5, Copied DEF Collect, Local, Processed
  <2>2. Files'
    BY <1>5, Copied DEF Collect, Files, Delete
  <2>3. Rest'
    BY <1>5 DEF Collect, Rest, Race, Racer
  <2> QED
    BY <2>1, <2>2, <2>3 DEF TypeOK, Local, Files, Rest
<1>6. ASSUME NEW s \in Session, TranscriptMissing(s) PROVE TypeOK'
  <2>1. Local'
    BY <1>6, Copied DEF TranscriptMissing, Local, Processed
  <2>2. Files'
    BY <1>6, Copied DEF TranscriptMissing, Files, Delete
  <2>3. Rest'
    BY <1>6 DEF TranscriptMissing, Rest, Race
  <2> QED
    BY <2>1, <2>2, <2>3 DEF TypeOK, Local, Files, Rest
<1>7. ASSUME NEW s \in Session, Snapshot(s) PROVE TypeOK'
  <2>1. snap' \in Marker
    BY <1>7 DEF Snapshot, Files, Local
  <2>2. Local'
    BY <1>7, <2>1 DEF Snapshot, Local, Stage
  <2>3. Files' /\ Rest'
    BY <1>7 DEF Snapshot, Files, Rest
  <2> QED
    BY <2>2, <2>3 DEF TypeOK, Local, Files, Rest
<1>8. ASSUME NEW s \in Session, WeekPasses(s) PROVE TypeOK'
  <2>1. Local'
    BY <1>8 DEF WeekPasses, Local, Stage
  <2>2. Files'
    BY <1>8 DEF WeekPasses, Files
  <2>3. Rest'
    BY <1>8 DEF WeekPasses, Rest
  <2> QED
    BY <2>1, <2>2, <2>3 DEF TypeOK, Local, Files, Rest
<1>9. ASSUME NEW s \in Session, ScratchSwept(s) PROVE TypeOK'
  <2>1. Local'
    BY <1>9 DEF ScratchSwept, Local, Stage
  <2>2. Files'
    BY <1>9 DEF ScratchSwept, Files
  <2>3. Rest'
    BY <1>9 DEF ScratchSwept, Rest
  <2> QED
    BY <2>1, <2>2, <2>3 DEF TypeOK, Local, Files, Rest
<1>10. ASSUME NEW how \in Mode, NEW force \in BOOLEAN, Begin(how, force) PROVE TypeOK'
  <2>1. todo' \in [Session -> Marker]
    BY <1>10, Copied DEF Begin, Files
  <2>2. Local'
    BY <1>10, <2>1 DEF Begin, Local, Stage
  <2>3. Files' /\ Rest'
    BY <1>10 DEF Begin, Files, Rest
  <2> QED
    BY <2>2, <2>3 DEF TypeOK, Local, Files, Rest
<1>11. CASE PassEnds
  <2>1. Local'
    BY <1>11, Ended DEF PassEnds, Local
  <2>2. Files' /\ Rest'
    BY <1>11 DEF PassEnds, Files, Rest
  <2> QED
    BY <2>1, <2>2 DEF TypeOK, Local, Files, Rest
<1>12. CASE ReadFails
  <2>0. PICK m \in Marker, t \in BOOLEAN : RecordFailure(m, t)
    BY <1>12 DEF ReadFails, Local
  <2>1. Local'
    <3>1. mode' = mode /\ rejected' = rejected /\ rejected \in BOOLEAN
      BY <1>12 DEF ReadFails, Local
    <3>2. CASE NextMarker \/ OnTransport
      BY <3>1, <3>2, Ended
    <3>3. CASE ~(NextMarker \/ OnTransport)
      <4> DEFINE n == [m EXCEPT !.attempts = @ + 1, !.held = TRUE]
      <4>1. n \in Marker /\ \E then \in After : WriteNext(n, then)
        <5>1. ~(m.attempts + 1 >= MaxAttempts) /\ \E then \in After : WriteNext(n, then)
          BY <2>0, <3>3 DEF RecordFailure, After
        <5> QED
          BY <2>0, <5>1, Blamed
      <4> QED
        BY <3>1, <4>1, Writing DEF WriteNext
    <3> QED
      BY <3>2, <3>3
  <2>2. Files'
    BY <1>12, <2>0, Copied DEF ReadFails, RecordFailure, Delete, Files
  <2>3. Rest'
    <3>1. failures' \in [Session -> 0..MaxAttempts]
      <4>1. Failed(cur)
        BY <2>0 DEF RecordFailure
      <4> QED
        <5>1. \A k \in 0..MaxAttempts : (IF k < MaxAttempts THEN k + 1 ELSE k) \in 0..MaxAttempts
          OBVIOUS
        <5>2. failures' = [failures EXCEPT ![cur] = IF @ < MaxAttempts THEN @ + 1 ELSE @]
          BY <4>1 DEF Failed
        <5> QED
          BY <5>1, <5>2 DEF Rest, Local
    <3> QED
      BY <1>12, <3>1 DEF ReadFails, Rest
  <2> QED
    BY <2>1, <2>2, <2>3 DEF TypeOK, Local, Files, Rest
<1>13. CASE ReadTranscript
  <2>1. body' \in 0..MaxTurns /\ offset' \in 0..1
    BY <1>13 DEF ReadTranscript, Files, Local
  <2>2. Local'
    BY <1>13, <2>1 DEF ReadTranscript, Local, Stage
  <2>3. Files' /\ Rest'
    BY <1>13 DEF ReadTranscript, Files, Rest
  <2> QED
    BY <2>2, <2>3 DEF TypeOK, Local, Files, Rest
<1>14. CASE ChunkAcked
  <2>1. \A k \in 0..MaxTurns : [snap EXCEPT !.sent = k] \in Marker
    BY Copied DEF Local
  <2>2. Local'
    <3>1. CASE Unchanged(snap)
      BY <1>14, <2>1, <3>1, Writing DEF ChunkAcked, Local, After
    <3>2. CASE ~Unchanged(snap)
      BY <1>14, <3>2 DEF ChunkAcked, Local
    <3> QED
      BY <3>1, <3>2
  <2>3. Files' /\ Rest'
    BY <1>14 DEF ChunkAcked, Files, Rest, Local
  <2> QED
    BY <2>2, <2>3 DEF TypeOK, Local, Files, Rest
<1>15. CASE Accepted
  <2>1. Local'
    <3>1. CASE Exists(marker[cur]) /\ ~Unchanged(snap)
      BY <1>15, <3>1, Ended DEF Accepted, Local
    <3>2. CASE ~(Exists(marker[cur]) /\ ~Unchanged(snap))
      <4>1. \E n \in {NoMarker, Retained}, then \in After : WriteNext(n, then)
        BY <1>15, <3>2 DEF Accepted, After
      <4>2. {NoMarker, Retained} \subseteq Marker
        BY Copied DEF Local, Retained
      <4> QED
        BY <1>15, <4>1, <4>2, Writing DEF WriteNext, Accepted
    <3> QED
      BY <3>1, <3>2
  <2>2. Files' /\ Rest'
    BY <1>15 DEF Accepted, ServerStores, Files, Rest, Local
  <2> QED
    BY <2>1, <2>2 DEF TypeOK, Local, Files, Rest
<1>16. CASE Resync
  <2>1. \A k \in 0..MaxTurns : [snap EXCEPT !.sent = k] \in Marker
    BY Copied DEF Local
  <2>2. Local'
    <3>1. CASE Unchanged(snap)
      BY <1>16, <2>1, <3>1, Writing DEF Resync, Local, After
    <3>2. CASE ~Unchanged(snap)
      BY <1>16, <3>2 DEF Resync, Local
    <3> QED
      BY <3>1, <3>2
  <2>3. Files' /\ Rest'
    BY <1>16 DEF Resync, Files, Rest, Local
  <2> QED
    BY <2>2, <2>3 DEF TypeOK, Local, Files, Rest
<1>17. CASE NotReady
  <2>1. Local'
    <3>0. PICK t \in BOOLEAN : HoldAndDefer(t)
      BY <1>17 DEF NotReady
    <3>1. mode' = mode /\ rejected' = rejected /\ rejected \in BOOLEAN
      BY <1>17 DEF NotReady, Local
    <3>2. CASE NextMarker \/ OnTransport
      BY <3>1, <3>2, Ended
    <3>3. CASE ~(NextMarker \/ OnTransport)
      <4>1. \E n \in {NoMarker, [marker[cur] EXCEPT !.held = TRUE]}, then \in After : WriteNext(n, then)
        BY <3>0, <3>3 DEF HoldAndDefer, After
      <4>2. {NoMarker, [marker[cur] EXCEPT !.held = TRUE]} \subseteq Marker
        <5>1. marker[cur] \in Marker
          BY DEF Local, Files
        <5> QED
          BY <5>1, Copied
      <4> QED
        BY <3>1, <4>1, <4>2, Writing DEF WriteNext
    <3> QED
      BY <3>2, <3>3
  <2>2. Files'
    BY <1>17 DEF NotReady, Files
  <2>3. Rest'
    BY <1>17 DEF NotReady, ServerStores, Rest, Local
  <2> QED
    BY <2>1, <2>2, <2>3 DEF TypeOK, Local, Files, Rest
<1>18. CASE Unreachable
  <2>1. Local'
    <3>0. PICK t \in BOOLEAN : HoldAndDefer(t)
      BY <1>18 DEF Unreachable
    <3>1. mode' = mode /\ rejected' = rejected /\ rejected \in BOOLEAN
      BY <1>18 DEF Unreachable, Local
    <3>2. CASE NextMarker \/ OnTransport
      BY <3>1, <3>2, Ended
    <3>3. CASE ~(NextMarker \/ OnTransport)
      <4>1. \E n \in {NoMarker, [marker[cur] EXCEPT !.held = TRUE]}, then \in After : WriteNext(n, then)
        BY <3>0, <3>3 DEF HoldAndDefer, After
      <4>2. {NoMarker, [marker[cur] EXCEPT !.held = TRUE]} \subseteq Marker
        <5>1. marker[cur] \in Marker
          BY DEF Local, Files
        <5> QED
          BY <5>1, Copied
      <4> QED
        BY <3>1, <4>1, <4>2, Writing DEF WriteNext
    <3> QED
      BY <3>2, <3>3
  <2>2. Files'
    BY <1>18 DEF Unreachable, Files
  <2>3. Rest'
    BY <1>18 DEF Unreachable, ServerStores, Rest, Local
  <2> QED
    BY <2>1, <2>2, <2>3 DEF TypeOK, Local, Files, Rest
<1>19. CASE Unauthorized
  <2>1. Local'
    <3>1. rejected' \in BOOLEAN /\ mode' = mode
      BY <1>19 DEF Unauthorized
    <3>2. CASE cur \notin idle
      BY <1>19, <3>1, <3>2, Ended DEF Unauthorized
    <3>3. CASE cur \in idle
      BY <1>19, <3>1, <3>3, Writing, Copied DEF Unauthorized, WriteNext, Local, After
    <3> QED
      BY <3>2, <3>3
  <2>2. Files' /\ Rest'
    BY <1>19 DEF Unauthorized, Files, Rest
  <2> QED
    BY <2>1, <2>2 DEF TypeOK, Local, Files, Rest
<1>20. CASE ServerFails
  <2>0. PICK m \in Marker, t \in BOOLEAN : RecordFailure(m, t)
    BY <1>20 DEF ServerFails, Local
  <2>1. Local'
    <3>1. mode' = mode /\ rejected' = rejected /\ rejected \in BOOLEAN
      BY <1>20 DEF ServerFails, Local
    <3>2. CASE NextMarker \/ OnTransport
      BY <3>1, <3>2, Ended
    <3>3. CASE ~(NextMarker \/ OnTransport)
      <4> DEFINE n == [m EXCEPT !.attempts = @ + 1, !.held = TRUE]
      <4>1. n \in Marker /\ \E then \in After : WriteNext(n, then)
        <5>1. ~(m.attempts + 1 >= MaxAttempts) /\ \E then \in After : WriteNext(n, then)
          BY <2>0, <3>3 DEF RecordFailure, After
        <5> QED
          BY <2>0, <5>1, Blamed
      <4> QED
        BY <3>1, <4>1, Writing DEF WriteNext
    <3> QED
      BY <3>2, <3>3
  <2>2. Files'
    BY <1>20, <2>0, Copied DEF ServerFails, RecordFailure, Delete, Files
  <2>3. Rest'
    <3>1. failures' \in [Session -> 0..MaxAttempts]
      <4>1. Failed(cur)
        BY <2>0 DEF RecordFailure
      <4> QED
        <5>1. \A k \in 0..MaxAttempts : (IF k < MaxAttempts THEN k + 1 ELSE k) \in 0..MaxAttempts
          OBVIOUS
        <5>2. failures' = [failures EXCEPT ![cur] = IF @ < MaxAttempts THEN @ + 1 ELSE @]
          BY <4>1 DEF Failed
        <5> QED
          BY <5>1, <5>2 DEF Rest, Local
    <3> QED
      BY <1>20, <3>1 DEF ServerFails, Rest
  <2> QED
    BY <2>1, <2>2, <2>3 DEF TypeOK, Local, Files, Rest
<1>21. CASE Refused
  <2>1. Local'
    BY <1>21, Ended DEF Refused, Local
  <2>2. Files' /\ Rest'
    BY <1>21, Copied DEF Refused, Delete, Files, Rest, Local
  <2> QED
    BY <2>1, <2>2 DEF TypeOK, Local, Files, Rest
<1>22. CASE ShipperWrites
  <2>0. NoMarker \in Marker /\ 0 \in 0..MaxTurns /\ 0 \in 0..MaxWrites
    <3>1. 0 \in 0..MaxTurns /\ 0 \in 0..MaxWrites
      BY Bounds
    <3> QED
      BY <3>1, Copied
  <2>1. Files'
    BY <1>22, <2>0 DEF ShipperWrites, Files, Local
  <2>2. Local'
    <3>1. CASE after \in {"next", "stop"}
      BY <1>22, <3>1, Ended DEF ShipperWrites, Local
    <3>2. CASE after \in {"send", "lift"}
      <4>1. /\ pc' \in Stage /\ copy' = NoMarker /\ after' = "next" /\ seen' = 0
            /\ UNCHANGED <<todo, upload, listed, mode, rejected>>
        BY <1>22, <3>2 DEF ShipperWrites, Resumes, Stage
      <4> QED
        BY <2>0, <4>1 DEF Local, After
    <3>3. CASE after = "release"
      <4>1. BeginRelease /\ UNCHANGED <<mode, rejected>>
        BY <1>22, <3>3 DEF ShipperWrites
      <4>2. \A s \in Session : marker'[s].stamp \in 0..MaxWrites
        BY <2>1 DEF Files, Marker
      <4>3. listed' \in [Session -> 0..MaxWrites]
        BY <2>0, <4>1, <4>2 DEF BeginRelease
      <4>4. todo' \in [Session -> Marker]
        BY <2>0, <4>1 DEF BeginRelease, Processed, Local
      <4>5. /\ pc' = "releasing" /\ cur' = cur /\ snap' = NoMarker /\ body' = 0 /\ offset' = 0
            /\ retried' = FALSE /\ copy' = NoMarker /\ after' = "next" /\ seen' = 0
            /\ mode' = mode /\ rejected' = rejected
        BY <4>1 DEF BeginRelease, Forget
      <4>6. "releasing" \in Stage /\ "next" \in After /\ 0 \in 0..1
        BY DEF Stage, After
      <4> QED
        BY <2>0, <4>3, <4>4, <4>5, <4>6 DEF Local
    <3> QED
      BY <3>1, <3>2, <3>3 DEF Local, After
  <2>3. Rest'
    <3>1. raced' \in [Session -> SUBSET Racer]
      <4>1. raced' = raced \/ raced' = [raced EXCEPT ![cur] = @ \cup {"shipper"}]
        BY <1>22 DEF ShipperWrites, Rest
      <4> QED
        BY <4>1 DEF Rest, Racer
    <3>2. failures' \in [Session -> 0..MaxAttempts]
      <4>1. 0 \in 0..MaxAttempts
        OBVIOUS
      <4>2. failures' = failures \/ failures' = [failures EXCEPT ![cur] = 0]
        BY <1>22 DEF ShipperWrites, Rest
      <4> QED
        BY <4>1, <4>2 DEF Rest
    <3> QED
      BY <1>22, <3>1, <3>2 DEF ShipperWrites, Rest
  <2> QED
    BY <2>1, <2>2, <2>3 DEF TypeOK, Local, Files, Rest
<1>23. CASE Abort
  <2>1. Local'
    BY <1>23, Ended DEF Abort, Local
  <2>2. Files' /\ Rest'
    BY <1>23 DEF Abort, Files, Rest
  <2> QED
    BY <2>1, <2>2 DEF TypeOK, Local, Files, Rest
<1>24. CASE HoldsLapse
  <2>1. Local'
    BY <1>24, Copied DEF HoldsLapse, Everywhere, Local
  <2>2. Files'
    <3>1. \A r \in Session, g \in Slot :
            [hook[r][g] EXCEPT !.prior = [@ EXCEPT !.held = FALSE]] \in [kind : Hook, prior : Marker]
      <4>1. ASSUME NEW k \in [kind : Hook, prior : Marker]
            PROVE  [k EXCEPT !.prior = [@ EXCEPT !.held = FALSE]] \in [kind : Hook, prior : Marker]
        <5>1. [k.prior EXCEPT !.held = FALSE] \in Marker
          BY Copied
        <5> QED
          BY <5>1
      <4>2. \A r \in Session, g \in Slot : hook[r][g] \in [kind : Hook, prior : Marker]
        BY DEF Files
      <4> QED
        BY <4>1, <4>2
    <3> QED
      BY <1>24, <3>1, Copied DEF HoldsLapse, Everywhere, Files
  <2>3. Rest'
    BY <1>24 DEF HoldsLapse, Rest
  <2> QED
    BY <2>1, <2>2, <2>3 DEF TypeOK, Local, Files, Rest
<1>25. CASE CadencePasses
  <2>1. Local'
    BY <1>25, Copied DEF CadencePasses, Everywhere, Local
  <2>2. Files'
    <3>1. \A r \in Session, g \in Slot :
            [hook[r][g] EXCEPT !.prior = [@ EXCEPT !.recent = FALSE]] \in [kind : Hook, prior : Marker]
      <4>1. ASSUME NEW k \in [kind : Hook, prior : Marker]
            PROVE  [k EXCEPT !.prior = [@ EXCEPT !.recent = FALSE]] \in [kind : Hook, prior : Marker]
        <5>1. [k.prior EXCEPT !.recent = FALSE] \in Marker
          BY Copied
        <5> QED
          BY <5>1
      <4>2. \A r \in Session, g \in Slot : hook[r][g] \in [kind : Hook, prior : Marker]
        BY DEF Files
      <4> QED
        BY <4>1, <4>2
    <3> QED
      BY <1>25, <3>1, Copied DEF CadencePasses, Everywhere, Files
  <2>3. Rest'
    BY <1>25 DEF CadencePasses, Rest
  <2> QED
    BY <2>1, <2>2, <2>3 DEF TypeOK, Local, Files, Rest
<1>26. CASE Reprobe
  <2>1. Local'
    BY <1>26 DEF Reprobe, Local, Stage
  <2>2. Files'
    BY <1>26 DEF Reprobe, Files
  <2>3. Rest'
    BY <1>26 DEF Reprobe, Rest
  <2> QED
    BY <2>1, <2>2, <2>3 DEF TypeOK, Local, Files, Rest
<1>28. ASSUME NEW s \in Session, Release(s) PROVE TypeOK'
  <2>1. listed' \in [Session -> 0..MaxWrites]
    BY <1>28 DEF Release, Local
  <2>2. [marker[s] EXCEPT !.held = FALSE] \in Marker /\ marker[s].stamp \in 0..MaxWrites
    <3>1. marker[s] \in Marker
      BY DEF Files
    <3> QED
      BY <3>1, Copied DEF Marker
  <2>3. Local'
    BY <1>28, <2>1, <2>2 DEF Release, Local, Stage, After
  <2>4. Files' /\ Rest'
    BY <1>28 DEF Release, Files, Rest
  <2> QED
    BY <2>3, <2>4 DEF TypeOK, Local, Files, Rest
<1>29. CASE ReleaseEnds
  <2>1. Local'
    BY <1>29 DEF ReleaseEnds, Local, Stage
  <2>2. Files' /\ Rest'
    BY <1>29 DEF ReleaseEnds, Files, Rest
  <2> QED
    BY <2>1, <2>2 DEF TypeOK, Local, Files, Rest
<1>27. CASE UNCHANGED vars
  <2>1. Local'
    BY <1>27 DEF vars, Local, Stage
  <2>2. Files'
    BY <1>27 DEF vars, Files
  <2>3. Rest'
    BY <1>27 DEF vars, Rest
  <2> QED
    BY <2>1, <2>2, <2>3 DEF TypeOK, Local, Files, Rest
<1> QED
  BY <1>0, InSession, <1>1, <1>2, <1>3, <1>4, <1>5, <1>6, <1>7, <1>8, <1>9, <1>10, <1>11, <1>12, <1>13, <1>14, <1>15, <1>16, <1>17, <1>18, <1>19, <1>20, <1>21, <1>22, <1>23, <1>24, <1>25, <1>26, <1>27, <1>28, <1>29
  DEF Next, PassBegins, Answered

-----------------------------------------------------------------------------
(* What the steps of either writer come to.                                *)

\* What time leaves of a marker, but for holds and cadence.
Same(n, m) ==
  /\ n.stamp = m.stamp /\ n.final = m.final /\ n.dirty = m.dirty
  /\ n.sent = m.sent /\ n.attempts = m.attempts
  /\ m = NoMarker => n = NoMarker

\* A marker is made of another: it says as much, or less, but for the progress k.
From(n, m, k) ==
  \/ n = NoMarker
  \/ m.stamp # 0 /\ n.stamp = m.stamp /\ n.final = m.final /\ n.sent \in {0, k, m.sent}

HookReads ==
  /\ \A s \in Session, h \in Slot : hook'[s][h].prior \in {hook[s][h].prior, marker[s]}
  /\ \A s \in Session : turns'[s] >= turns[s]
  /\ UNCHANGED <<setting, writes, marker, idle, shipper, server, ghosts>>

\* Time passes, hooks die, files are swept.
Aside ==
  /\ \A s \in Session, h \in Slot : hook'[s][h].prior \in {hook[s][h].prior, NoMarker}
  /\ \A s \in Session : scratch'[s] \in {scratch[s], 0}
  /\ idle \subseteq idle'
  /\ UNCHANGED <<setting, turns, writes, marker, pc, mode, todo, upload, write, stored, mixed, ghosts>>

Lapses ==
  /\ \A s \in Session :
       /\ Same(marker'[s], marker[s]) /\ Same(todo'[s], todo[s])
       /\ \A h \in Slot : Same(hook'[s][h].prior, hook[s][h].prior)
  /\ Same(snap', snap) /\ Same(copy', copy)
  /\ UNCHANGED <<setting, turns, writes, idle, pc, mode, cur, body, offset, after, seen, listed,
                 server, ghosts>>

\* Held markers are gone through, to lift the hold of one.
Lifts(s) ==
  /\ pc = "releasing" /\ listed'[s] = 0 /\ \A r \in Session : listed'[r] \in {listed[r], 0}
  /\ \/ pc' = pc /\ UNCHANGED <<copy, after, seen, cur>>
     \/ /\ pc' = "writing" /\ after' = "lift" /\ cur' = s /\ seen' = marker[s].stamp
        /\ Same(copy', marker[s]) /\ listed[s] # 0 /\ marker[s].stamp = listed[s]
     \/ pc' = "select" /\ UNCHANGED <<upload, write>> /\ \A r \in Session : listed[r] = 0
  /\ UNCHANGED <<setting, hooks, marker, idle, mode, todo, snap, body, offset, server, ghosts>>

\* The shipper holds nothing any more.
Rests ==
  /\ pc' \in {"select", "idle"} /\ cur' = cur /\ snap' = NoMarker /\ copy' = NoMarker /\ seen' = 0
  /\ todo'[cur] = NoMarker /\ \A s \in Session : todo'[s] \in {todo[s], NoMarker}
  /\ pc' = "idle" => \A s \in Session : todo'[s] = NoMarker
  /\ \A s \in Session : listed'[s] = 0

Quits ==
  /\ Rests
  /\ UNCHANGED <<setting, hooks, marker, idle, mode, server, ghosts>>

\* A marker is removed before its transcript is looked at.
Removes(s) ==
  /\ pc = "select" /\ Exists(todo[s])
  /\ marker' = [marker EXCEPT ![s] = NoMarker] /\ todo' = [todo EXCEPT ![s] = NoMarker]
  /\ marker[s].dirty => "missing" \in setting.faults \/ "shipper" \in raced'[s]
  /\ idle' = idle \ {s} /\ \A t \in Session : raced[t] \subseteq raced'[t]
  /\ UNCHANGED <<setting, hooks, pc, mode, upload, write, rejected, server, reported, failures, refused>>

Snapshots(s) ==
  /\ pc = "select" /\ todo[s].dirty /\ Exists(marker[s])
  /\ cur' = s /\ snap' = marker[s] /\ pc' = "snapped"
  /\ UNCHANGED <<setting, hooks, marker, idle, mode, todo, body, offset, retried, write,
                 rejected, server, ghosts>>

Begins ==
  /\ pc = "idle" /\ pc' = "select"
  /\ \A s \in Session : todo'[s] \in {marker[s], NoMarker}
  /\ UNCHANGED <<setting, hooks, marker, idle, upload, write, rejected, server, ghosts>>

\* A chunk is acknowledged, or the upload starts over.
Sends(k) ==
  /\ pc = "sending"
  /\ \/ k = body /\ scratch' = [scratch EXCEPT ![cur] = body]
     \/ k = 0 /\ offset' = 0 /\ UNCHANGED scratch
  /\ \/ UNCHANGED <<pc, write>>
     \/ /\ pc' = "writing" /\ after' = "send" /\ seen' = marker[cur].stamp
        /\ seen' = snap.stamp /\ copy'.stamp = snap.stamp /\ copy'.final = snap.final
        /\ copy'.dirty = snap.dirty /\ copy'.attempts = snap.attempts /\ copy'.sent = k
  /\ UNCHANGED <<setting, hooks, marker, idle, mode, todo, cur, snap, body, listed, stored, mixed,
                 ghosts>>

\* What the shipper decides to write over a marker, for good.
Decides(n) ==
  /\ pc' = "writing" /\ copy' = n /\ after' \in {"next", "stop", "release"}
  /\ seen' = marker[cur].stamp
  /\ \/ n = NoMarker
     \/ /\ n.stamp = marker[cur].stamp /\ n.stamp # 0
        /\ \E m \in {todo[cur], snap, marker[cur]} : From(n, m, 0)
  /\ Unraced(cur) /\ ~n.dirty =>
       n.attempts = 0 /\ (stored'[cur] >= reported[cur] \/ cur \in idle)
  /\ raced[cur] = {} => n.attempts <= failures'[cur]
  /\ UNCHANGED <<marker, idle, todo, upload, listed>>

\* The marker goes at once: the server refused it, or it has had its attempts.
Drops ==
  /\ marker' = [marker EXCEPT ![cur] = NoMarker]
  /\ \/ cur \in refused'
     \/ failures'[cur] >= MaxAttempts
     \/ failures'[cur] > 0 /\ raced[cur] # {}

\* An upload comes to its end, or does not get to it.
Verdict ==
  /\ pc \in {"snapped", "sending"}
  /\ \A s \in Session :
       /\ scratch'[s] \in {scratch[s], 0} \/ (pc = "sending" /\ s = cur /\ scratch'[s] = body)
       /\ failures'[s] >= failures[s]
  /\ \/ Rests /\ (UNCHANGED marker \/ Drops)
     \/ \E n \in Marker : Decides(n)
  /\ UNCHANGED <<setting, hooks, mode, mixed, reported, raced>>

-----------------------------------------------------------------------------
(* The fields of what is made of a marker.                                 *)

\* The marker that is not there.
LEMMA Plain ==
  /\ NoMarker.stamp = 0 /\ NoMarker.attempts = 0 /\ NoMarker.sent = 0
  /\ NoMarker.final = FALSE /\ NoMarker.dirty = FALSE /\ NoMarker.held = FALSE
  /\ NoMarker.recent = FALSE
BY DEF NoMarker

\* The fields of a marker.
LEMMA Fields ==
  ASSUME NEW m \in Marker
  PROVE  /\ m.stamp \in 0..MaxWrites /\ m.attempts \in 0..MaxAttempts - 1
         /\ m.final \in BOOLEAN /\ m.dirty \in BOOLEAN /\ m.sent \in 0..MaxTurns
BY DEF Marker

\* A hold changes nothing else of a marker.
LEMMA HeldSame ==
  ASSUME NEW m \in Marker, NEW b \in BOOLEAN
  PROVE  LET n == [m EXCEPT !.held = b] IN
         /\ n.stamp = m.stamp /\ n.final = m.final /\ n.dirty = m.dirty
         /\ n.sent = m.sent /\ n.attempts = m.attempts
BY DEF Marker

\* Nor does the time of the last upload.
LEMMA RecentSame ==
  ASSUME NEW m \in Marker, NEW b \in BOOLEAN
  PROVE  LET n == [m EXCEPT !.recent = b] IN
         /\ n.stamp = m.stamp /\ n.final = m.final /\ n.dirty = m.dirty
         /\ n.sent = m.sent /\ n.attempts = m.attempts
BY DEF Marker

\* Nor does the progress.
LEMMA SentSame ==
  ASSUME NEW m \in Marker, NEW k \in 0..MaxTurns
  PROVE  LET n == [m EXCEPT !.sent = k] IN
         /\ n.stamp = m.stamp /\ n.final = m.final /\ n.dirty = m.dirty
         /\ n.sent = k /\ n.attempts = m.attempts
BY DEF Marker

\* A failure counts, and holds the marker back.
LEMMA BlamedFields ==
  ASSUME NEW m \in Marker
  PROVE  LET n == [m EXCEPT !.attempts = @ + 1, !.held = TRUE] IN
         /\ n.stamp = m.stamp /\ n.final = m.final /\ n.dirty = m.dirty
         /\ n.sent = m.sent /\ n.attempts = m.attempts + 1
BY DEF Marker

\* What is kept of a marker whose transcript is up.
LEMMA RetainedFields ==
  ASSUME snap \in Marker
  PROVE  /\ Retained.stamp = snap.stamp /\ Retained.final = FALSE /\ Retained.dirty = FALSE
         /\ Retained.sent = 0 /\ Retained.attempts = 0
BY Copied, Plain DEF Retained, Marker, NoMarker

\* Time makes no marker of none.
LEMMA Unmade ==
  /\ [NoMarker EXCEPT !.held = FALSE] = NoMarker
  /\ [NoMarker EXCEPT !.recent = FALSE] = NoMarker
<1>1. \A m \in Marker : /\ m.held = FALSE => [m EXCEPT !.held = FALSE] = m
                        /\ m.recent = FALSE => [m EXCEPT !.recent = FALSE] = m
  BY DEF Marker
<1> QED
  BY <1>1, Copied, Plain

\* What time does to a marker.
LEMMA LapsedSame ==
  ASSUME NEW m \in Marker
  PROVE  /\ Same([m EXCEPT !.held = FALSE], m) /\ Same([m EXCEPT !.recent = FALSE], m)
         /\ Same(m, m)
BY HeldSame, RecentSame, Unmade DEF Same

\* What a hook makes of the marker it read: nothing that is owed is dropped, and
\* a Stop owes one more.
LEMMA HookedFields ==
  ASSUME TypeOK, NEW s \in Session, NEW h \in Slot
  PROVE  LET n == HookMarker(s, h) IN
         /\ n.stamp = writes[s] + 1 /\ n.sent = 0 /\ n.attempts = hook[s][h].prior.attempts
         /\ hook[s][h].prior.final => n.final
         /\ hook[s][h].kind # "end" \/ hook[s][h].prior.dirty => n.dirty
<1>1. hook[s][h].prior \in Marker
  BY DEF TypeOK
<1> QED
  BY <1>1 DEF HookMarker, Marker

-----------------------------------------------------------------------------
(* Every step is of one of these kinds.                                    *)

\* What the shipper has in its hands is there, and owed.
LEMMA InHand ==
  ASSUME Inv, Busy
  PROVE  /\ cur \in Session /\ todo[cur] \in Marker /\ snap \in Marker /\ marker[cur] \in Marker
         /\ todo[cur].dirty /\ todo[cur].stamp # 0 /\ snap.stamp # 0 /\ marker[cur].stamp # 0
         /\ Unraced(cur) => snap.dirty /\ marker[cur].dirty
         /\ raced[cur] = {} =>
              /\ todo[cur].attempts <= failures[cur] /\ snap.attempts <= failures[cur]
              /\ marker[cur].attempts <= failures[cur]
<1>1. /\ cur \in Session /\ todo[cur] \in Marker /\ snap \in Marker /\ marker[cur] \in Marker
  BY DEF Inv, TypeOK
<1>2. todo[cur].dirty /\ snap.stamp # 0
  BY DEF Inv, Pass, Exists
<1>3. todo[cur].stamp # 0
  BY <1>1, <1>2, Plain DEF Inv, Stamps, Copies
<1>4. marker[cur].stamp # 0
  BY <1>1, <1>3 DEF Inv, Pass, Exists
<1>5. Unraced(cur) => snap.dirty /\ marker[cur].dirty
  BY <1>1, <1>2 DEF Inv, Kept
<1>6. raced[cur] = {} =>
        /\ todo[cur].attempts <= failures[cur] /\ snap.attempts <= failures[cur]
        /\ marker[cur].attempts <= failures[cur]
  BY <1>1 DEF Inv, Earned
<1> QED
  BY <1>1, <1>2, <1>3, <1>4, <1>5, <1>6

\* Going on to the next marker and stopping leave nothing in hand.
LEMMA Rested ==
  ASSUME TypeOK, NextMarker \/ StopPass \/ OnTransport
  PROVE  Rests
BY DEF TypeOK, NextMarker, StopPass, OnTransport, Processed, Forget, Unlisted, Rests

\* A failed attempt is a verdict, whichever marker is blamed.
LEMMA FailureDecides ==
  ASSUME Inv, pc \in {"snapped", "sending"}, NEW m \in {todo[cur], snap}, NEW t \in BOOLEAN,
         RecordFailure(m, t),
         UNCHANGED <<setting, hooks, mode, rejected, server, reported, refused, raced>>
  PROVE  Verdict
<1>1. Busy /\ TypeOK /\ failures \in [Session -> 0..MaxAttempts] /\ MaxAttempts \in Nat
  BY Bounds DEF Busy, Inv, TypeOK
<1>2. /\ m \in Marker /\ m.stamp # 0 /\ cur \in Session
      /\ Unraced(cur) => m.dirty
      /\ raced[cur] = {} => m.attempts <= failures[cur]
  BY <1>1, InHand
<1>3. /\ \A s \in Session : failures'[s] >= failures[s]
      /\ failures'[cur] = failures[cur] + 1 \/ failures'[cur] = MaxAttempts
  BY <1>1, <1>2 DEF RecordFailure, Failed
<1>4. m.attempts \in 0..MaxAttempts - 1 /\ failures[cur] \in 0..MaxAttempts
  BY <1>1, <1>2, Fields
<1>5. CASE m.attempts + 1 >= MaxAttempts
  <2>1. Rests
    BY <1>1, <1>5, Rested DEF RecordFailure
  <2>2. Drops
    <3>1. failures'[cur] >= MaxAttempts \/ (failures'[cur] > 0 /\ raced[cur] # {})
      BY <1>1, <1>2, <1>3, <1>4, <1>5
    <3> QED
      BY <1>5, <3>1 DEF RecordFailure, Delete, Drops
  <2> QED
    BY <1>3, <2>1, <2>2 DEF Verdict, server
<1>6. CASE ~(m.attempts + 1 >= MaxAttempts) /\ ~Unchanged(m)
  BY <1>1, <1>3, <1>6, Rested DEF RecordFailure, Verdict, server
<1>7. CASE ~(m.attempts + 1 >= MaxAttempts) /\ Unchanged(m)
  <2> DEFINE n == [m EXCEPT !.attempts = @ + 1, !.held = TRUE]
  <2>1. n \in Marker
    BY <1>2, <1>7, Blamed
  <2>2. /\ n.stamp = m.stamp /\ n.final = m.final /\ n.dirty = m.dirty
        /\ n.sent = m.sent /\ n.attempts = m.attempts + 1
    BY <1>2, BlamedFields
  <2>3. \E then \in {"next", "stop"} : WriteNext(n, then)
    BY <1>7 DEF RecordFailure
  <2>4. UNCHANGED <<marker, idle>> /\ m.stamp = marker[cur].stamp
    BY <1>7 DEF RecordFailure, Unchanged
  <2> HIDE DEF n
  <2>5. From(n, m, 0)
    BY <1>2, <2>2 DEF From
  <2>6. raced[cur] = {} => n.attempts <= failures'[cur]
    BY <1>1, <1>2, <1>3, <1>4, <1>7, <2>2
  <2>7. Decides(n)
    BY <1>2, <2>2, <2>3, <2>4, <2>5, <2>6 DEF Decides, WriteNext, Write
  <2> QED
    BY <1>3, <2>1, <2>7 DEF Verdict, server
<1> QED
  BY <1>5, <1>6, <1>7

\* So is an answer that holds the marker back.
LEMMA HoldDecides ==
  ASSUME Inv, pc = "sending", NEW t \in BOOLEAN, HoldAndDefer(t),
         \A s \in Session : scratch'[s] \in {scratch[s], 0} \/ (s = cur /\ scratch'[s] = body),
         UNCHANGED <<setting, hooks, marker, idle, mode, mixed, ghosts>>
  PROVE  Verdict
<1>1. Busy /\ TypeOK /\ \A s \in Session : failures'[s] >= failures[s]
  BY DEF Busy, Inv, TypeOK, ghosts
<1>2. CASE NextMarker \/ StopPass \/ OnTransport
  BY <1>1, <1>2, Rested DEF Verdict, ghosts
<1>3. CASE \E then \in {"next", "stop"} : WriteNext(NoMarker, then) /\ cur \in idle
  <2>1. failures[cur] >= 0
    BY <1>1, Bounds DEF TypeOK
  <2>2. Decides(NoMarker)
    BY <1>3, <2>1, Plain DEF Decides, WriteNext, Write, ghosts
  <2> QED
    BY <1>1, <2>2, Copied DEF Verdict, ghosts
<1>4. CASE \E then \in {"next", "stop"} : WriteNext([marker[cur] EXCEPT !.held = TRUE], then)
  <2> DEFINE n == [marker[cur] EXCEPT !.held = TRUE]
  <2>1. n \in Marker
    BY <1>1, InHand, Copied
  <2>2. /\ n.stamp = marker[cur].stamp /\ n.final = marker[cur].final
        /\ n.dirty = marker[cur].dirty /\ n.sent = marker[cur].sent
        /\ n.attempts = marker[cur].attempts
    BY <1>1, InHand, HeldSame
  <2>3. \E then \in {"next", "stop"} : WriteNext(n, then)
    BY <1>4
  <2> HIDE DEF n
  <2>4. From(n, marker[cur], 0)
    BY <1>1, <2>2, InHand DEF From
  <2>5. Decides(n)
    BY <1>1, <2>2, <2>3, <2>4, InHand DEF Decides, WriteNext, Write, ghosts
  <2> QED
    BY <1>1, <2>1, <2>5 DEF Verdict, ghosts
<1> QED
  BY <1>2, <1>3, <1>4 DEF HoldAndDefer

\* The server that stores a body has the whole of it.
LEMMA StoresWhole ==
  ASSUME Inv, ServerStores
  PROVE  UNCHANGED mixed
BY DEF Inv, Sizes, Uploading, ServerStores, LastChunk

\* So is an answer that accepts the transcript.
LEMMA AcceptedDecides ==
  ASSUME Inv, Accepted
  PROVE  Verdict
<1>1. /\ Busy /\ TypeOK /\ pc = "sending" /\ cur \in Session /\ ServerStores
      /\ failures \in [Session -> 0..MaxAttempts]
  BY DEF Accepted, ServerStores, LastChunk, Busy, Inv, TypeOK
<1>2. /\ \A s \in Session : failures'[s] >= failures[s]
      /\ UNCHANGED mixed /\ failures'[cur] >= 0
  BY <1>1, StoresWhole, Bounds DEF Accepted, ghosts
<1>3. \A s \in Session : scratch'[s] \in {scratch[s], 0}
  BY <1>1 DEF ServerStores, TypeOK
<1>4. UNCHANGED <<setting, hooks, mode, reported, raced, marker, idle>>
  BY DEF Accepted, ghosts
<1>5. CASE Exists(marker[cur]) /\ ~Unchanged(snap)
  BY <1>1, <1>2, <1>3, <1>4, <1>5, Rested DEF Accepted, Verdict
<1>6. CASE ~(Exists(marker[cur]) /\ ~Unchanged(snap))
  <2>1. marker[cur].stamp = snap.stamp /\ snap.stamp # 0 /\ snap \in Marker
    BY <1>1, <1>6, InHand DEF Exists, Unchanged
  <2>2. PICK n \in {NoMarker, Retained}, then \in {"next", "release"} : WriteNext(n, then)
    BY <1>6 DEF Accepted
  <2>3. n = Retained => ~snap.final
    BY <1>1, <1>6, <2>1, <2>2, Plain, RetainedFields DEF Accepted, WriteNext, Write
  <2>4. n.attempts = 0 /\ ~n.dirty /\ n \in Marker
    BY <2>1, <2>2, Plain, RetainedFields, Copied DEF Retained
  <2>5. n = NoMarker \/ (n.stamp = snap.stamp /\ From(n, snap, 0))
    BY <2>1, <2>2, <2>3, RetainedFields, Fields DEF From
  <2>6. Unraced(cur) => stored'[cur] >= reported[cur]
    <3>1. stored'[cur] = body
      BY <1>1 DEF ServerStores, TypeOK
    <3>2. Unraced(cur) => reported[cur] <= body
      BY <1>1, <2>1 DEF Inv, Covered, Uploading
    <3>3. reported[cur] \in Nat /\ body \in Nat
      BY <1>1, Bounds DEF TypeOK
    <3> QED
      BY <3>1, <3>2, <3>3
  <2>7. Decides(n)
    BY <1>2, <1>4, <2>1, <2>2, <2>4, <2>5, <2>6 DEF Decides, WriteNext, Write
  <2> QED
    BY <1>1, <1>2, <1>3, <1>4, <2>4, <2>7 DEF Verdict
<1> QED
  BY <1>5, <1>6

\* A step is one of these.
Kind ==
  \/ \E s \in Session : Removes(s) \/ Snapshots(s) \/ Lifts(s)
  \/ \E s \in Session, h \in Slot : HookWrites(s, h)
  \/ HookReads \/ Aside \/ Lapses \/ Quits \/ Begins \/ ReadTranscript
  \/ \E k \in {0, body} : Sends(k)
  \/ Verdict \/ ShipperWrites

\* Every step is of one of these kinds.
LEMMA Kinds == Inv /\ [Next]_vars => Kind
<1> SUFFICES ASSUME Inv, [Next]_vars PROVE Kind
  OBVIOUS
<1>0. TypeOK
  BY DEF Inv
<1> USE <1>0 DEF hooks, upload, write, shipper, server, ghosts
<1>h. \A s \in Session, k \in Hook : [kind |-> k, prior |-> marker[s]] \in [kind : Hook, prior : Marker]
  BY DEF TypeOK
<1>1. ASSUME NEW s \in Session, NEW h \in Slot, NEW kind \in {"stop", "finalStop"}, StopReads(s, h, kind)
      PROVE  Kind
  <2>1. kind \in Hook
    BY DEF Hook
  <2>2. \A r \in Session, g \in Slot : hook'[r][g].prior \in {hook[r][g].prior, marker[r]}
    BY <1>1, <1>h, <2>1, HookTypes DEF StopReads, Reads
  <2>3. \A r \in Session : turns[r] \in Nat /\ turns'[r] >= turns[r]
    BY <1>1, Bounds DEF StopReads, TypeOK
  <2>4. HookReads
    BY <1>1, <2>2, <2>3 DEF StopReads, HookReads
  <2> QED
    BY <2>4 DEF Kind
<1>2. ASSUME NEW s \in Session, NEW h \in Slot, EndReads(s, h) PROVE Kind
  <2>1. "end" \in Hook
    BY DEF Hook
  <2>2. \A r \in Session, g \in Slot : hook'[r][g].prior \in {hook[r][g].prior, marker[r]}
    BY <1>2, <1>h, <2>1, HookTypes DEF EndReads, Reads
  <2>3. \A r \in Session : turns[r] \in Nat /\ turns'[r] >= turns[r]
    BY <1>2, Bounds DEF EndReads, TypeOK
  <2>4. HookReads
    BY <1>2, <2>2, <2>3 DEF EndReads, HookReads
  <2> QED
    BY <2>4 DEF Kind
<1>3. ASSUME NEW s \in Session, NEW h \in Slot, HookWrites(s, h) PROVE Kind
  BY <1>3 DEF Kind
<1>4. ASSUME NEW s \in Session, NEW h \in Slot, HookDies(s, h) PROVE Kind
  <2>1. NoHook \in [kind : Hook, prior : Marker] /\ NoHook.prior = NoMarker
    BY Copied DEF NoHook, Hook
  <2>2. \A r \in Session, g \in Slot : hook'[r][g].prior \in {hook[r][g].prior, NoMarker}
    BY <1>4, <2>1, HookTypes DEF HookDies
  <2>3. Aside
    BY <1>4, <2>2 DEF HookDies, Aside, TypeOK
  <2> QED
    BY <2>3 DEF Kind
<1>5. ASSUME NEW s \in Session, Collect(s) PROVE Kind
  <2>1. todo[s].stamp # 0 /\ todo[s].dirty = FALSE
    BY <1>5 DEF Collect, Clean, Exists, TypeOK, Marker
  <2>2. marker[s].dirty => "shipper" \in raced'[s]
    BY <1>5, <2>1 DEF Collect, Race, TypeOK
  <2>3. \A t \in Session : raced[t] \subseteq raced'[t]
    BY <1>5 DEF Collect, Race, TypeOK
  <2>4. Removes(s)
    BY <1>5, <2>1, <2>2, <2>3 DEF Collect, Delete, Removes, Exists
  <2> QED
    BY <2>4 DEF Kind
<1>6. ASSUME NEW s \in Session, TranscriptMissing(s) PROVE Kind
  <2>1. todo[s].stamp # 0
    BY <1>6, Plain DEF TranscriptMissing, Inv, Stamps, Copies
  <2>2. Removes(s)
    BY <1>6, <2>1 DEF TranscriptMissing, Delete, Processed, Removes, Exists
  <2> QED
    BY <2>2 DEF Kind
<1>7. ASSUME NEW s \in Session, Snapshot(s) PROVE Kind
  <2>1. todo[s].stamp # 0
    BY <1>7, Plain DEF Snapshot, Inv, Stamps, Copies
  <2>2. Exists(marker[s])
    BY <2>1 DEF Inv, Pass, Exists
  <2>3. Snapshots(s)
    BY <1>7, <2>2 DEF Snapshot, Snapshots
  <2> QED
    BY <2>3 DEF Kind
<1>8. ASSUME NEW s \in Session, WeekPasses(s) PROVE Kind
  <2>1. Aside
    BY <1>8 DEF WeekPasses, Aside, TypeOK
  <2> QED
    BY <2>1 DEF Kind
<1>9. ASSUME NEW s \in Session, ScratchSwept(s) PROVE Kind
  <2>1. Aside
    BY <1>9 DEF ScratchSwept, Aside, TypeOK
  <2> QED
    BY <2>1 DEF Kind
<1>10. ASSUME NEW how \in Mode, NEW force \in BOOLEAN, Begin(how, force) PROVE Kind
  <2>1. Begins
    BY <1>10 DEF Begin, Begins
  <2> QED
    BY <2>1 DEF Kind
<1>11. CASE PassEnds
  <2>1. Quits
    BY <1>11, Rested DEF PassEnds, Quits
  <2> QED
    BY <2>1 DEF Kind
<1>12. CASE ReadFails
  <2>1. Verdict
    BY <1>12, FailureDecides DEF ReadFails
  <2> QED
    BY <2>1 DEF Kind
<1>13. CASE ReadTranscript
  BY <1>13 DEF Kind
<1>14. CASE ChunkAcked
  <2>1. body \in 0..MaxTurns /\ snap \in Marker
    BY DEF TypeOK
  <2>2. Sends(body)
    <3>1. CASE Unchanged(snap)
      <4> DEFINE n == [snap EXCEPT !.sent = body]
      <4>1. /\ n.stamp = snap.stamp /\ n.final = snap.final /\ n.dirty = snap.dirty
            /\ n.sent = body /\ n.attempts = snap.attempts
        BY <2>1, SentSame
      <4>2. Write(n, "send") /\ marker[cur].stamp = snap.stamp
        BY <1>14, <3>1 DEF ChunkAcked, Unchanged
      <4> HIDE DEF n
      <4> QED
        BY <1>14, <4>1, <4>2 DEF ChunkAcked, Sends, Write
    <3>2. CASE ~Unchanged(snap)
      BY <1>14, <3>2 DEF ChunkAcked, Sends
    <3> QED
      BY <3>1, <3>2
  <2> QED
    BY <2>2 DEF Kind
<1>15. CASE Accepted
  BY <1>15, AcceptedDecides DEF Kind
<1>16. CASE Resync
  <2>1. 0 \in 0..MaxTurns /\ snap \in Marker
    BY Bounds DEF TypeOK
  <2>2. Sends(0)
    <3>1. CASE Unchanged(snap)
      <4> DEFINE n == [snap EXCEPT !.sent = 0]
      <4>1. /\ n.stamp = snap.stamp /\ n.final = snap.final /\ n.dirty = snap.dirty
            /\ n.sent = 0 /\ n.attempts = snap.attempts
        BY <2>1, SentSame
      <4>2. Write(n, "send") /\ marker[cur].stamp = snap.stamp
        BY <1>16, <3>1 DEF Resync, Unchanged
      <4> HIDE DEF n
      <4> QED
        BY <1>16, <4>1, <4>2 DEF Resync, Sends, Write
    <3>2. CASE ~Unchanged(snap)
      BY <1>16, <3>2 DEF Resync, Sends
    <3> QED
      BY <3>1, <3>2
  <2> QED
    BY <2>2 DEF Kind
<1>17. CASE NotReady
  <2>1. Verdict
    BY <1>17, HoldDecides DEF NotReady, server
  <2> QED
    BY <2>1 DEF Kind
<1>18. CASE Unreachable
  <2>1. UNCHANGED mixed
    BY <1>18, StoresWhole DEF Unreachable, server
  <2>2. \A s \in Session : scratch'[s] \in {scratch[s], 0} \/ (s = cur /\ scratch'[s] = body)
    BY <1>18 DEF Unreachable, server, ServerStores, TypeOK
  <2>3. Verdict
    BY <1>18, <2>1, <2>2, HoldDecides DEF Unreachable
  <2> QED
    BY <2>3 DEF Kind
<1>19. CASE Unauthorized
  <2>1. failures[cur] >= 0 /\ \A s \in Session : failures'[s] >= failures[s]
    BY <1>19, Bounds DEF Unauthorized, ghosts, TypeOK
  <2>2. CASE cur \in idle
    <3>1. Decides(NoMarker)
      BY <1>19, <2>1, <2>2, Plain DEF Unauthorized, Decides, WriteNext, Write, ghosts
    <3> QED
      BY <1>19, <2>1, <3>1, Copied DEF Unauthorized, Verdict, server, ghosts, Kind
  <2>3. CASE cur \notin idle
    BY <1>19, <2>1, <2>3, Rested DEF Unauthorized, Verdict, server, ghosts, Kind
  <2> QED
    BY <2>2, <2>3
<1>20. CASE ServerFails
  <2>1. Verdict
    BY <1>20, FailureDecides DEF ServerFails
  <2> QED
    BY <2>1 DEF Kind
<1>21. CASE Refused
  <2>1. Drops
    BY <1>21 DEF Refused, Delete, Drops
  <2>2. \A s \in Session : failures'[s] >= failures[s]
    BY <1>21, Bounds DEF Refused, TypeOK
  <2>3. Verdict
    BY <1>21, <2>1, <2>2, Rested DEF Refused, Verdict, server
  <2> QED
    BY <2>3 DEF Kind
<1>22. CASE ShipperWrites
  BY <1>22 DEF Kind
<1>23. CASE Abort
  <2>1. Quits
    BY <1>23, Rested DEF Abort, Quits
  <2> QED
    BY <2>1 DEF Kind
<1>24. CASE HoldsLapse
  <2>1. /\ \A s \in Session : marker[s] \in Marker /\ todo[s] \in Marker
        /\ snap \in Marker /\ copy \in Marker
        /\ \A s \in Session, h \in Slot : hook[s][h] \in [kind : Hook, prior : Marker]
    BY DEF TypeOK
  <2>2. ASSUME NEW s \in Session, NEW h \in Slot PROVE Same(hook'[s][h].prior, hook[s][h].prior)
    <3>1. hook'[s][h] = [hook[s][h] EXCEPT !.prior = [@ EXCEPT !.held = FALSE]]
      BY <1>24 DEF HoldsLapse, Everywhere
    <3>2. hook'[s][h].prior = [hook[s][h].prior EXCEPT !.held = FALSE]
      BY <2>1, <3>1
    <3> QED
      BY <2>1, <3>2, LapsedSame
  <2>3. Lapses
    BY <1>24, <2>1, <2>2, LapsedSame DEF HoldsLapse, Everywhere, Lapses
  <2> QED
    BY <2>3 DEF Kind
<1>25. CASE CadencePasses
  <2>1. /\ \A s \in Session : marker[s] \in Marker /\ todo[s] \in Marker
        /\ snap \in Marker /\ copy \in Marker
        /\ \A s \in Session, h \in Slot : hook[s][h] \in [kind : Hook, prior : Marker]
    BY DEF TypeOK
  <2>2. ASSUME NEW s \in Session, NEW h \in Slot PROVE Same(hook'[s][h].prior, hook[s][h].prior)
    <3>1. hook'[s][h] = [hook[s][h] EXCEPT !.prior = [@ EXCEPT !.recent = FALSE]]
      BY <1>25 DEF CadencePasses, Everywhere
    <3>2. hook'[s][h].prior = [hook[s][h].prior EXCEPT !.recent = FALSE]
      BY <2>1, <3>1
    <3> QED
      BY <2>1, <3>2, LapsedSame
  <2>3. Lapses
    BY <1>25, <2>1, <2>2, LapsedSame DEF CadencePasses, Everywhere, Lapses
  <2> QED
    BY <2>3 DEF Kind
<1>26. CASE Reprobe
  <2>1. Aside
    BY <1>26 DEF Reprobe, Aside, TypeOK
  <2> QED
    BY <2>1 DEF Kind
<1>28. ASSUME NEW s \in Session, Release(s) PROVE Kind
  <2>1. marker[s] \in Marker /\ listed'[s] = 0 /\ \A r \in Session : listed'[r] \in {listed[r], 0}
    BY <1>28 DEF Release, TypeOK
  <2>2. Same([marker[s] EXCEPT !.held = FALSE], marker[s])
    BY <2>1, LapsedSame
  <2>3. Lifts(s)
    BY <1>28, <2>1, <2>2 DEF Release, Lifts
  <2> QED
    BY <2>3 DEF Kind
<1>29. CASE ReleaseEnds
  <2>1. Lifts(cur)
    BY <1>29 DEF ReleaseEnds, Lifts, TypeOK
  <2> QED
    BY <2>1 DEF Kind, TypeOK
<1>27. CASE UNCHANGED vars
  <2>1. Aside
    BY <1>27 DEF vars, Aside, TypeOK
  <2> QED
    BY <2>1 DEF Kind
<1> QED
  BY <1>0, InSession, <1>1, <1>2, <1>3, <1>4, <1>5, <1>6, <1>7, <1>8, <1>9, <1>10, <1>11, <1>12, <1>13, <1>14, <1>15, <1>16, <1>17, <1>18, <1>19, <1>20, <1>21, <1>22, <1>23, <1>24, <1>25, <1>26, <1>27, <1>28, <1>29
  DEF Next, PassBegins, Answered

-----------------------------------------------------------------------------
(* Where the copies of a marker come from.                                 *)

\* Every copy after the step is made of one before it.
Derived(k) == \A s \in Session : \A n \in Copies(s)' : \E m \in Copies(s) : From(n, m, k)

\* What has to be known of a step for it: a copy that stays is made of itself.
LEMMA SelfMade ==
  ASSUME Stamps, NEW s \in Session, NEW m \in Copies(s)
  PROVE  From(m, m, 0) /\ \A n : Same(n, m) => From(n, m, 0)
BY DEF Stamps, From, Same

\* No marker is made of any.
LEMMA NoneMade ==
  ASSUME NEW s \in Session, NEW k
  PROVE  \E m \in Copies(s) : From(NoMarker, m, k)
BY DEF From, Copies

\* What a write of the shipper leaves in its hands.
LEMMA Wrote ==
  ASSUME TypeOK, Stamps, ShipperWrites
  PROVE  /\ cur' = cur /\ copy' = NoMarker /\ seen' = 0 /\ snap' \in {snap, NoMarker}
         /\ \A s \in Session : todo'[s] \in {todo[s], NoMarker}
         /\ \/ /\ pc' = "sending" /\ after = "send" /\ UNCHANGED <<todo, upload, listed>>
            \/ /\ pc' = "releasing" /\ after = "lift" /\ UNCHANGED <<todo, upload, listed>>
            \/ /\ pc' = "releasing" /\ after = "release" /\ snap' = NoMarker
               /\ todo'[cur] = NoMarker
               /\ \A s \in Session : listed'[s] = 0 \/ (listed'[s] = marker'[s].stamp /\ marker'[s].dirty)
            \/ /\ pc' \in {"select", "idle"} /\ after \notin {"send", "lift"} /\ snap' = NoMarker
               /\ todo'[cur] = NoMarker
               /\ pc' = "idle" => \A s \in Session : todo'[s] = NoMarker
               /\ \A s \in Session : listed'[s] = 0
<1>1. cur \in Session /\ after \in After /\ todo \in [Session -> Marker]
  BY DEF TypeOK
<1>2. CASE after \in {"send", "lift"}
  BY <1>1, <1>2 DEF ShipperWrites, Resumes, upload
<1>3. CASE after = "release"
  BY <1>1, <1>3 DEF ShipperWrites, BeginRelease, Processed, Forget
<1>4. CASE after \in {"stop", "next"}
  BY <1>1, <1>4 DEF ShipperWrites, StopPass, NextMarker, Processed, Forget, Unlisted
<1> QED
  BY <1>1, <1>2, <1>3, <1>4 DEF After

\* All steps but the writes of a hook derive what they leave.
LEMMA DerivedNext ==
  ASSUME Inv, TypeOK',
         \/ \E s \in Session : Removes(s) \/ Snapshots(s) \/ Lifts(s)
         \/ HookReads \/ Aside \/ Lapses \/ Quits \/ Begins \/ ReadTranscript \/ Verdict \/ ShipperWrites
  PROVE  Derived(0)
<1>0. TypeOK /\ Stamps /\ Pass
  BY DEF Inv
<1> USE <1>0 DEF hooks, upload, write, shipper, server, ghosts
<1> SUFFICES ASSUME NEW r \in Session, NEW n \in Copies(r)'
             PROVE  \E m \in Copies(r) : From(n, m, 0)
  BY DEF Derived
<1>a. \A m \in Copies(r) : From(m, m, 0) /\ (Same(n, m) => From(n, m, 0))
  BY SelfMade
<1>b. n = NoMarker \/ n \in Copies(r) => \E m \in Copies(r) : From(n, m, 0)
  BY <1>a, NoneMade
<1>c. \/ n \in {marker'[r], todo'[r]} \/ (r = cur' /\ n \in {snap', copy'})
      \/ \E h \in Slot : n = hook'[r][h].prior
  BY DEF Copies
<1>1. CASE HookReads
  <2>1. n \in Copies(r)
    BY <1>1, <1>c DEF HookReads, Copies
  <2> QED
    BY <1>b, <2>1
<1>2. ASSUME NEW s \in Session, Removes(s) PROVE n = NoMarker \/ n \in Copies(r)
  BY <1>2, <1>c DEF Removes, Copies, TypeOK
<1>3. ASSUME NEW s \in Session, Snapshots(s) PROVE n = NoMarker \/ n \in Copies(r)
  BY <1>3, <1>c DEF Snapshots, Copies, Pass
<1>4. CASE Aside
  BY <1>4, <1>b, <1>c DEF Aside, Copies
<1>5. CASE Lapses
  <2>1. \E m \in Copies(r) : Same(n, m)
    BY <1>5, <1>c DEF Lapses, Copies
  <2> QED
    BY <2>1, <1>a
<1>6. CASE Quits
  BY <1>6, <1>b, <1>c DEF Quits, Rests, Copies
<1>7. CASE Begins
  BY <1>7, <1>b, <1>c DEF Begins, Copies
<1>8. CASE ReadTranscript
  BY <1>8, <1>b, <1>c DEF ReadTranscript, Copies
<1>9. CASE Verdict
  <2>1. CASE Rests /\ (UNCHANGED marker \/ Drops)
    BY <1>9, <2>1, <1>b, <1>c DEF Verdict, Rests, Drops, Copies, TypeOK
  <2>2. ASSUME NEW k \in Marker, Decides(k) PROVE \E m \in Copies(r) : From(n, m, 0)
    <3>1. n \in Copies(r) \/ (r = cur /\ n = k)
      BY <1>9, <2>2, <1>c DEF Verdict, Decides, Copies
    <3>2. k = NoMarker \/ \E m \in {todo[cur], snap, marker[cur]} : From(k, m, 0)
      BY <2>2 DEF Decides
    <3>3. r = cur => {todo[cur], snap, marker[cur]} \subseteq Copies(r)
      BY DEF Copies
    <3> QED
      BY <1>b, <3>1, <3>2, <3>3
  <2> QED
    BY <1>9, <2>1, <2>2 DEF Verdict
<1>10. CASE ShipperWrites
  <2>1. \/ n = NoMarker \/ n \in Copies(r)
    <3>1. marker'[r] = marker[r] \/ (r = cur /\ marker'[r] = copy)
      BY <1>10 DEF ShipperWrites, TypeOK
    <3>2. todo'[r] \in {todo[r], NoMarker} /\ hook' = hook /\ cur' = cur
          /\ snap' \in {snap, NoMarker} /\ copy' = NoMarker
      <4>1. hook' = hook
        BY <1>10 DEF ShipperWrites
      <4> QED
        BY <1>10, <4>1, Wrote
    <3> QED
      BY <1>c, <3>1, <3>2 DEF Copies
  <2> QED
    BY <1>b, <2>1
<1>11. ASSUME NEW s \in Session, Lifts(s) PROVE \E m \in Copies(r) : From(n, m, 0)
  <2>1. CASE UNCHANGED <<copy, cur>>
    BY <1>11, <2>1, <1>b, <1>c DEF Lifts, Copies
  <2>2. CASE cur' = s /\ Same(copy', marker[s]) /\ pc' = "writing"
    <3>1. marker[r] \in Copies(r) /\ snap = NoMarker
      BY <1>11 DEF Copies, Lifts, Pass, Busy
    <3>2. \/ n = NoMarker \/ n \in Copies(r)
          \/ Same(n, marker[r])
      BY <1>11, <2>2, <3>1, <1>c DEF Lifts, Copies
    <3> QED
      BY <1>a, <1>b, <3>1, <3>2
  <2> QED
    BY <1>11, <2>1, <2>2 DEF Lifts
<1> QED
  BY <1>b, <1>1, <1>11, <1>2, <1>3, <1>4, <1>5, <1>6, <1>7, <1>8, <1>9, <1>10

\* So do the writes of progress, up to that progress.
LEMMA SendsDerived ==
  ASSUME Inv, NEW k \in {0, body}, Sends(k)
  PROVE  Derived(k)
<1>0. TypeOK /\ Stamps /\ Pass /\ snap.stamp # 0
  BY DEF Inv, Sends, Busy, Pass, Exists
<1> SUFFICES ASSUME NEW r \in Session, NEW n \in Copies(r)'
             PROVE  \E m \in Copies(r) : From(n, m, k)
  BY DEF Derived
<1>1. \/ n \in Copies(r)
      \/ r = cur /\ n.stamp = snap.stamp /\ n.final = snap.final /\ n.sent = k
  BY DEF Sends, Copies, hooks, write
<1>2. n \in Copies(r) => From(n, n, k)
  BY <1>0, SelfMade DEF From
<1>3. r = cur => snap \in Copies(r)
  BY DEF Copies
<1> QED
  BY <1>0, <1>1, <1>2, <1>3 DEF From

\* Copies that are derived are as good as what they are derived from.
LEMMA StampsFrom ==
  ASSUME TypeOK, Stamps, NEW k, Derived(k), UNCHANGED writes
  PROVE  \A s \in Session :
           /\ \A m \in Copies(s)' : m.stamp <= writes'[s] /\ (m.stamp = 0 => m = NoMarker)
           /\ \A m, n \in Copies(s)' : m.stamp = n.stamp => m.final = n.final
<1> SUFFICES ASSUME NEW s \in Session
             PROVE  /\ \A m \in Copies(s)' : m.stamp <= writes[s] /\ (m.stamp = 0 => m = NoMarker)
                    /\ \A m, n \in Copies(s)' : m.stamp = n.stamp => m.final = n.final
  OBVIOUS
<1>1. \A n \in Copies(s)' : \E m \in Copies(s) : n = NoMarker \/ (m.stamp # 0 /\ n.stamp = m.stamp /\ n.final = m.final)
  BY DEF Derived, From
<1>3. ASSUME NEW n \in Copies(s)' PROVE n.stamp <= writes[s] /\ (n.stamp = 0 => n = NoMarker)
  <2>1. CASE n = NoMarker
    BY <2>1, Plain, Bounds DEF TypeOK
  <2>2. CASE n # NoMarker
    BY <1>1, <1>3, <2>2 DEF Stamps
  <2> QED
    BY <2>1, <2>2
<1>4. ASSUME NEW m \in Copies(s)', NEW n \in Copies(s)', m.stamp = n.stamp PROVE m.final = n.final
  BY <1>1, <1>3, <1>4, Plain DEF Stamps
<1> QED
  BY <1>3, <1>4

\* The stamps of copies, and what is known of the hooks that may still write.
LEMMA StampsNext == Inv /\ TypeOK' /\ Kind => Stamps'
<1> SUFFICES ASSUME Inv, TypeOK', Kind PROVE Stamps'
  OBVIOUS
<1>0. TypeOK /\ Stamps /\ Pass
  BY DEF Inv
<1> USE <1>0 DEF hooks, upload, write, shipper, server, ghosts
<1>1. ASSUME NEW s \in Session, NEW h \in Slot, HookWrites(s, h) PROVE Stamps'
  <2> DEFINE n == HookMarker(s, h)
  <2>1. n.stamp = writes[s] + 1 /\ writes' = [writes EXCEPT ![s] = @ + 1] /\ writes[s] \in Nat
    BY <1>1, HookedFields, Bounds DEF HookWrites, TypeOK
  <2>2. /\ marker' = [marker EXCEPT ![s] = n]
        /\ \A r \in Session, g \in Slot : hook'[r][g].prior \in {hook[r][g].prior, NoMarker}
        /\ UNCHANGED <<todo, snap, copy, cur, pc, seen, listed>>
    BY <1>1, HookWrote DEF HookWrites
  <2> HIDE DEF n
  <2>3. ASSUME NEW r \in Session
        PROVE  /\ \A m \in Copies(r)' : m.stamp <= writes'[r] /\ (m.stamp = 0 => m = NoMarker)
               /\ \A m, k \in Copies(r)' : m.stamp = k.stamp => m.final = k.final
    <3>1. \A m \in Copies(r)' : m \in Copies(r) \/ m = NoMarker \/ (r = s /\ m = n)
      BY <2>2 DEF Copies, TypeOK
    <3>2. writes'[r] = (IF r = s THEN writes[r] + 1 ELSE writes[r]) /\ writes[r] \in Nat
      BY <2>1, Bounds DEF TypeOK
    <3>3. \A m \in Copies(r) : m.stamp <= writes[r] /\ (m.stamp = 0 => m = NoMarker) /\ m.stamp \in Nat
      BY Bounds DEF Stamps, Copies, TypeOK, Marker
    <3>4. \A m \in Copies(r)' : m.stamp <= writes'[r] /\ (m.stamp = 0 => m = NoMarker)
      BY <2>1, <3>1, <3>2, <3>3, Plain
    <3>5. ASSUME NEW m \in Copies(r)', NEW k \in Copies(r)', m.stamp = k.stamp PROVE m.final = k.final
      <4>1. CASE m \in Copies(r) /\ k \in Copies(r)
        BY <3>5, <4>1 DEF Stamps
      <4>2. CASE m = NoMarker \/ k = NoMarker
        BY <3>4, <3>5, <4>2, Plain
      <4>3. CASE r = s /\ (m = n \/ k = n)
        BY <2>1, <3>1, <3>3, <3>5, <4>3, Plain
      <4> QED
        BY <3>1, <4>1, <4>2, <4>3
    <3> QED
      BY <3>4, <3>5
  <2>4. \A r \in Session : listed'[r] <= writes'[r]
    BY <2>1, <2>2, Bounds DEF Stamps, TypeOK
  <2>5. seen' <= writes'[cur']
    BY <2>1, <2>2, Bounds DEF Stamps, TypeOK
  <2> QED
    BY <2>3, <2>4, <2>5 DEF Stamps
<1>2. ASSUME ~ \E s \in Session, h \in Slot : HookWrites(s, h) PROVE Stamps'
  <2>1. \E k \in {0, body} : Derived(k)
    BY <1>2, DerivedNext, SendsDerived DEF Kind
  <2>2. UNCHANGED writes
    BY <1>2 DEF Kind, HookReads, Removes, Snapshots, Lifts, Aside, Lapses, Quits, Begins,
                ReadTranscript, Sends, Verdict, ShipperWrites
  <2>3. \A r \in Session : listed'[r] <= writes'[r]
    <3>1. ASSUME NEW r \in Session
          PROVE  listed'[r] \in {listed[r], 0, marker'[r].stamp}
      <4>1. CASE ShipperWrites
        BY <4>1, Wrote
      <4>2. CASE Quits \/ Verdict
        BY <4>2 DEF Quits, Verdict, Rests, Decides
      <4>3. CASE ~(ShipperWrites \/ Quits \/ Verdict)
        BY <1>2, <4>3 DEF Kind, HookReads, Removes, Snapshots, Lifts, Aside, Lapses, Begins,
                          ReadTranscript, Sends
      <4> QED
        BY <4>1, <4>2, <4>3
    <3>2. \A r \in Session : marker'[r].stamp <= writes'[r]
      <4>1. \A r \in Session : marker'[r] \in Copies(r)'
        BY DEF Copies
      <4> QED
        BY <2>1, <2>2, <4>1, StampsFrom
    <3>3. \A r \in Session : writes'[r] \in Nat
      BY Bounds DEF TypeOK
    <3> QED
      BY <2>2, <3>1, <3>2, <3>3 DEF Stamps
  <2>4. seen' <= writes'[cur']
    <3>1. \/ seen' = 0
          \/ seen' = marker[cur'].stamp
          \/ UNCHANGED <<seen, cur>>
      <4>1. CASE ShipperWrites
        BY <4>1, Wrote
      <4>2. CASE ~ShipperWrites
        BY <1>2, <4>2 DEF Kind, HookReads, Removes, Snapshots, Lifts, Aside, Lapses, Quits, Rests,
                          Begins, ReadTranscript, Sends, Verdict, Decides, Pass
      <4> QED
        BY <4>1, <4>2
    <3>2. marker[cur'].stamp <= writes[cur']
      BY DEF Stamps, Copies, TypeOK
    <3>3. 0 <= writes[cur']
      BY Bounds DEF TypeOK
    <3> QED
      BY <2>2, <3>1, <3>2, <3>3 DEF Stamps
  <2> QED
    BY <2>1, <2>2, <2>3, <2>4, StampsFrom DEF Stamps
<1> QED
  BY <1>1, <1>2

\* Bodies and progress.
LEMMA SizesFrom ==
  ASSUME Inv, TypeOK', Derived(0), UNCHANGED <<reported, mixed>>,
         \A s \in Session :
           /\ turns'[s] >= turns[s]
           /\ scratch'[s] \in {scratch[s], 0} \/ (s = cur /\ Uploading /\ scratch'[s] = body),
         Uploading' => /\ Uploading /\ UNCHANGED <<setting, cur, body, offset>>
                       /\ scratch'[cur] \in {scratch[cur], 0}
  PROVE  Sizes'
<1>0. TypeOK /\ Sizes
  BY DEF Inv
<1> USE <1>0
<1>1. ASSUME NEW s \in Session
      PROVE  /\ scratch'[s] <= turns'[s] /\ reported'[s] <= turns'[s]
             /\ \A n \in Copies(s)' :
                  /\ n.sent <= turns'[s]
                  /\ scratch'[s] # 0 => n.sent <= scratch'[s]
                  /\ s = cur' /\ Uploading' => n.sent <= body'
  <2>1. /\ turns[s] \in Nat /\ turns'[s] \in Nat /\ scratch[s] \in Nat /\ reported[s] \in Nat
        /\ body \in Nat /\ scratch'[s] \in Nat /\ body' \in Nat
    BY Bounds DEF TypeOK
  <2>2. scratch'[s] <= turns'[s] /\ reported'[s] <= turns'[s]
    BY <2>1 DEF Sizes
  <2>3. ASSUME NEW n \in Copies(s)'
        PROVE  /\ n.sent <= turns'[s]
               /\ scratch'[s] # 0 => n.sent <= scratch'[s]
               /\ s = cur' /\ Uploading' => n.sent <= body'
    <3>1. PICK m \in Copies(s) : n.sent = 0 \/ n.sent = m.sent
      BY Plain DEF Derived, From
    <3>2. /\ m.sent <= turns[s]
          /\ scratch[s] # 0 => m.sent <= scratch[s]
          /\ s = cur /\ Uploading => m.sent <= body
      BY DEF Sizes
    <3>3. m.sent \in Nat
      BY Bounds DEF Copies, TypeOK, Marker
    <3> QED
      BY <2>1, <3>1, <3>2, <3>3
  <2> QED
    BY <2>2, <2>3
<1>2. Uploading' =>
        /\ body' <= turns'[cur']
        /\ setting'.chunked /\ offset' = 1 => scratch'[cur'] \in {0, body'}
  <2>1. cur \in Session /\ turns[cur] \in Nat /\ turns'[cur] \in Nat /\ body \in Nat
    BY Bounds DEF TypeOK
  <2> QED
    BY <2>1 DEF Sizes
<1> QED
  BY <1>1, <1>2 DEF Sizes

\* No step breaks what is known of sizes.
LEMMA SizesNext == Inv /\ TypeOK' /\ Kind => Sizes'
<1> SUFFICES ASSUME Inv, TypeOK', Kind PROVE Sizes'
  OBVIOUS
<1>0. TypeOK /\ Sizes /\ Pass /\ Stamps
  BY DEF Inv
<1>n. \A s \in Session : turns[s] \in Nat /\ scratch[s] \in Nat /\ \A m \in Copies(s) : m.sent \in Nat
  BY <1>0, Bounds DEF TypeOK, Copies, Marker
<1> USE <1>0 DEF hooks, upload, write, shipper, server, ghosts
<1>1. CASE HookReads
  BY <1>1, <1>n, DerivedNext, SizesFrom DEF HookReads, Uploading
<1>2. ASSUME NEW s \in Session, NEW h \in Slot, HookWrites(s, h) PROVE Sizes'
  <2> DEFINE n == HookMarker(s, h)
  <2>1. n.sent = 0
    BY HookedFields
  <2>2. /\ marker' = [marker EXCEPT ![s] = n]
        /\ \A r \in Session, g \in Slot : hook'[r][g].prior \in {hook[r][g].prior, NoMarker}
        /\ UNCHANGED <<setting, turns, todo, snap, copy, cur, pc, after, body, offset, scratch, mixed>>
    BY <1>2, HookWrote DEF HookWrites
  <2>3. \A r \in Session : reported'[r] \in {reported[r], turns[r]}
    BY <1>2 DEF HookWrites, TypeOK
  <2>4. \A r \in Session : \A m \in Copies(r)' : m \in Copies(r) \/ m.sent = 0
    BY <2>1, <2>2, Plain DEF Copies, TypeOK
  <2>5. body \in Nat
    BY Bounds DEF TypeOK
  <2>6. \A r \in Session : \A m \in Copies(r)' :
          /\ m.sent <= turns[r]
          /\ scratch[r] # 0 => m.sent <= scratch[r]
          /\ r = cur /\ Uploading => m.sent <= body
    BY <1>n, <2>4, <2>5 DEF Sizes
  <2>7. \A r \in Session : scratch[r] <= turns[r] /\ reported'[r] <= turns[r]
    BY <1>n, <2>3 DEF Sizes
  <2> QED
    BY <2>2, <2>6, <2>7 DEF Sizes, Uploading
<1>3. ASSUME NEW s \in Session, Removes(s) PROVE Sizes'
  <2>1. Derived(0)
    BY <1>3, DerivedNext
  <2>2. /\ pc = "select" /\ UNCHANGED <<setting, pc, cur, body, offset, after, turns, scratch, reported, mixed>>
    BY <1>3 DEF Removes
  <2>3. ~Uploading'
    BY <2>2 DEF Uploading
  <2> QED
    BY <1>n, <2>1, <2>2, <2>3, SizesFrom
<1>4. ASSUME NEW s \in Session, Snapshots(s) PROVE Sizes'
  BY <1>4, <1>n, DerivedNext, SizesFrom DEF Snapshots, Uploading
<1>5. CASE Aside
  BY <1>5, <1>n, DerivedNext, SizesFrom DEF Aside, Uploading, TypeOK
<1>6. CASE Lapses
  BY <1>6, <1>n, DerivedNext, SizesFrom DEF Lapses, Uploading
<1>7. CASE Quits
  BY <1>7, <1>n, DerivedNext, SizesFrom DEF Quits, Rests, Uploading
<1>8. CASE Begins
  BY <1>8, <1>n, DerivedNext, SizesFrom DEF Begins, Uploading
<1>9. CASE ReadTranscript
  <2>1. /\ body' = turns[cur] /\ offset' = IF setting.chunked /\ snap.sent = turns[cur] THEN 1 ELSE 0
        /\ UNCHANGED <<setting, turns, marker, todo, hook, snap, copy, cur, scratch, mixed, reported>>
    BY <1>9 DEF ReadTranscript
  <2>2. Copies(cur)' = Copies(cur) /\ \A s \in Session : Copies(s)' = Copies(s)
    BY <2>1 DEF Copies
  <2>3. cur \in Session /\ snap \in Copies(cur)
    BY DEF TypeOK, Copies
  <2>4. offset' = 1 => scratch[cur] \in {0, turns[cur]}
    BY <2>1, <2>3, <1>n DEF Sizes
  <2> QED
    BY <2>1, <2>2, <2>3, <2>4, <1>n DEF Sizes
<1>10. ASSUME NEW k \in {0, body}, Sends(k) PROVE Sizes'
  <2>1. /\ pc = "sending" /\ Uploading /\ cur \in Session /\ body \in Nat
        /\ UNCHANGED <<setting, turns, cur, body, marker, todo, hook, snap, mixed, reported>>
        /\ copy' = copy \/ copy'.sent = k
    BY <1>10, Bounds DEF Sends, Uploading, TypeOK
  <2>2. \/ k = body /\ scratch' = [scratch EXCEPT ![cur] = body]
        \/ k = 0 /\ offset' = 0 /\ scratch' = scratch
    BY <1>10 DEF Sends
  <2>3. body <= turns[cur]
    BY <2>1 DEF Sizes
  <2>4. \A s \in Session : \/ scratch'[s] = scratch[s] /\ (s = cur => k = 0)
                           \/ s = cur /\ k = body /\ scratch'[s] = body
    <3>1. scratch \in [Session -> 0..MaxTurns]
      BY DEF TypeOK
    <3>2. CASE k = body /\ scratch' = [scratch EXCEPT ![cur] = body]
      <4>1. scratch'[cur] = body /\ \A s \in Session : s # cur => scratch'[s] = scratch[s]
        BY <2>1, <3>1, <3>2
      <4> QED
        BY <3>2, <4>1
    <3>3. CASE k = 0 /\ scratch' = scratch
      BY <3>3
    <3> QED
      BY <2>2, <3>2, <3>3
  <2>5. ASSUME NEW s \in Session, NEW m \in Copies(s)'
        PROVE  /\ m.sent <= turns[s]
               /\ scratch'[s] # 0 => m.sent <= scratch'[s]
               /\ s = cur => m.sent <= body
    <3>1. m \in Copies(s) \/ (s = cur /\ m.sent = k)
      BY <2>1 DEF Copies
    <3>2. CASE s = cur /\ m.sent = k
      BY <1>n, <2>1, <2>3, <2>4, <3>2
    <3>3. CASE m \in Copies(s)
      <4>1. m.sent <= turns[s] /\ (scratch[s] # 0 => m.sent <= scratch[s]) /\ (s = cur => m.sent <= body)
        BY <2>1, <3>3 DEF Sizes
      <4> QED
        BY <2>4, <4>1
    <3> QED
      BY <3>1, <3>2, <3>3
  <2>6. \A s \in Session : scratch'[s] <= turns[s] /\ reported[s] <= turns[s]
    BY <2>3, <2>4 DEF Sizes
  <2>7. setting.chunked /\ offset' = 1 => scratch'[cur] \in {0, body}
    BY <2>1, <2>2, <2>4 DEF Sizes, TypeOK
  <2> QED
    BY <2>1, <2>3, <2>5, <2>6, <2>7 DEF Sizes
<1>11. CASE Verdict
  <2>1. pc' \in {"select", "idle"} \/ (pc' = "writing" /\ after' \in {"next", "stop", "release"})
    BY <1>11 DEF Verdict, Rests, Decides
  <2>2. ~Uploading'
    BY <2>1 DEF Uploading
  <2>3. \A s \in Session : scratch'[s] \in {scratch[s], 0} \/ (s = cur /\ Uploading /\ scratch'[s] = body)
    BY <1>11 DEF Verdict, Uploading
  <2> QED
    BY <1>11, <1>n, <2>2, <2>3, DerivedNext, SizesFrom DEF Verdict
<1>12. CASE ShipperWrites
  <2>1. Uploading' => Uploading /\ UNCHANGED <<cur, body, offset>>
    BY <1>12, Wrote DEF ShipperWrites, Uploading
  <2>2. UNCHANGED <<setting, turns, reported, scratch, mixed>>
    BY <1>12 DEF ShipperWrites
  <2>3. turns \in [Session -> 0..MaxTurns]
    BY DEF TypeOK
  <2> QED
    BY <1>12, <2>1, <2>2, <2>3, DerivedNext, SizesFrom
<1>13. ASSUME NEW s \in Session, Lifts(s) PROVE Sizes'
  <2>1. ~Uploading'
    BY <1>13 DEF Lifts, Uploading
  <2> QED
    BY <1>13, <1>n, <2>1, DerivedNext, SizesFrom DEF Lifts
<1> QED
  BY <1>1, <1>2, <1>3, <1>4, <1>5, <1>6, <1>7, <1>8, <1>9, <1>10, <1>11, <1>12, <1>13 DEF Kind

\* What the shipper has in its hands.
LEMMA PassNext == Inv /\ TypeOK' /\ Kind => Pass'
<1> SUFFICES ASSUME Inv, TypeOK', Kind PROVE Pass'
  OBVIOUS
<1>0. TypeOK /\ Pass /\ Stamps
  BY DEF Inv
<1>n. NoMarker.stamp = 0 /\ NoMarker.dirty = FALSE
  BY Plain
<1> USE <1>0 DEF hooks, upload, write, shipper, server, ghosts, Busy
<1>1. CASE HookReads
  BY <1>1 DEF HookReads, Pass
<1>2. ASSUME NEW s \in Session, NEW h \in Slot, HookWrites(s, h) PROVE Pass'
  <2>1. Exists(HookMarker(s, h))
    BY HookedFields, Bounds DEF Exists, TypeOK
  <2> QED
    BY <1>2, <2>1 DEF HookWrites, Pass, TypeOK
<1>3. ASSUME NEW s \in Session, Removes(s) PROVE Pass'
  BY <1>3, <1>n DEF Removes, Pass, Exists, TypeOK
<1>4. ASSUME NEW s \in Session, Snapshots(s) PROVE Pass'
  BY <1>4 DEF Snapshots, Pass, TypeOK
<1>5. CASE Aside
  BY <1>5 DEF Aside, Pass
<1>6. CASE Lapses
  <2>1. /\ \A s \in Session :
             /\ marker'[s].stamp = marker[s].stamp /\ marker'[s].dirty = marker[s].dirty
             /\ todo'[s].stamp = todo[s].stamp /\ todo'[s].dirty = todo[s].dirty
             /\ todo[s] = NoMarker => todo'[s] = NoMarker
        /\ snap'.stamp = snap.stamp /\ snap'.dirty = snap.dirty
        /\ copy'.stamp = copy.stamp /\ copy'.dirty = copy.dirty
        /\ (snap = NoMarker => snap' = NoMarker) /\ (copy = NoMarker => copy' = NoMarker)
        /\ UNCHANGED <<pc, cur, seen, after, raced>>
    BY <1>6 DEF Lapses, Same
  <2>2. cur \in Session
    BY DEF TypeOK
  <2> QED
    BY <2>1, <2>2 DEF Pass, Exists
<1>7. CASE Quits
  BY <1>7, <1>n DEF Quits, Rests, Pass, Exists
<1>8. CASE Begins
  BY <1>8, <1>n DEF Begins, Pass, Exists
<1>9. CASE ReadTranscript
  BY <1>9 DEF ReadTranscript, Pass
<1>10. ASSUME NEW k \in {0, body}, Sends(k) PROVE Pass'
  BY <1>10 DEF Sends, Pass, Exists
<1>11. CASE Verdict
  <2>1. CASE Rests /\ (UNCHANGED marker \/ Drops)
    <3>1. \A s \in Session : marker'[s] = marker[s] \/ s = cur
      BY <2>1 DEF Drops, TypeOK
    <3>2. \A s \in Session : todo'[s] \in {todo[s], NoMarker} /\ todo'[cur] = NoMarker
      BY <2>1 DEF Rests
    <3>3. \A s \in Session : Exists(todo'[s]) => Exists(marker'[s])
      BY <1>n, <3>1, <3>2 DEF Pass, Exists
    <3> QED
      BY <2>1, <3>3 DEF Rests, Pass
  <2>2. ASSUME NEW n \in Marker, Decides(n) PROVE Pass'
    BY <1>11, <2>2 DEF Verdict, Decides, Pass, Exists
  <2> QED
    BY <1>11, <2>1, <2>2 DEF Verdict
<1>12. CASE ShipperWrites
  <2>1. \A s \in Session : marker'[s] = marker[s] \/ (s = cur /\ marker'[s] = copy)
    BY <1>12 DEF ShipperWrites, TypeOK
  <2>2. CASE after = "send"
    <3>1. /\ pc' = "sending" /\ copy' = NoMarker /\ seen' = 0 /\ UNCHANGED <<todo, upload>>
          /\ copy.stamp # 0 /\ pc = "writing"
      BY <1>12, <2>2, Wrote DEF ShipperWrites, Pass
    <3> QED
      BY <2>1, <2>2, <3>1 DEF Pass, Exists
  <2>3. CASE after = "lift"
    <3>1. /\ pc' = "releasing" /\ copy' = NoMarker /\ seen' = 0 /\ UNCHANGED <<todo, upload>>
          /\ copy.stamp # 0 /\ pc = "writing" /\ snap = NoMarker
      BY <1>12, <2>3, Wrote DEF ShipperWrites, Pass
    <3> QED
      BY <2>1, <2>3, <3>1 DEF Pass, Exists
  <2>4. CASE after \notin {"send", "lift"}
    <3>1. /\ pc' \in {"select", "idle", "releasing"} /\ snap' = NoMarker /\ copy' = NoMarker
          /\ seen' = 0 /\ \A s \in Session : todo'[s] \in {todo[s], NoMarker}
          /\ todo'[cur] = NoMarker
          /\ pc' = "idle" => \A s \in Session : todo'[s] = NoMarker
      BY <1>12, <2>4, Wrote
    <3> QED
      BY <1>n, <2>1, <3>1 DEF Pass, Exists
  <2> QED
    BY <2>2, <2>3, <2>4
<1>13. ASSUME NEW s \in Session, Lifts(s) PROVE Pass'
  <2>1. pc = "releasing" /\ UNCHANGED <<marker, todo, snap>> /\ snap = NoMarker /\ copy = NoMarker /\ seen = 0
    BY <1>13 DEF Lifts, Pass
  <2>2. \/ pc' \in {"releasing", "select"} /\ UNCHANGED <<copy, seen>>
        \/ pc' = "writing" /\ after' = "lift" /\ copy'.stamp = seen' /\ seen' # 0
    BY <1>13 DEF Lifts, Same
  <2> QED
    BY <2>1, <2>2 DEF Pass
<1> QED
  BY <1>1, <1>2, <1>3, <1>4, <1>5, <1>6, <1>7, <1>8, <1>9, <1>10, <1>11, <1>12, <1>13 DEF Kind

\* What is listed and what is lifted is owed.
LEMMA OwedNext == Inv /\ TypeOK' /\ Kind => Owed'
<1> SUFFICES ASSUME Inv, TypeOK', Kind PROVE Owed'
  OBVIOUS
<1>0. TypeOK /\ Pass /\ Stamps /\ Owed
  BY DEF Inv
<1>n. NoMarker.stamp = 0 /\ NoMarker.dirty = FALSE
  BY Plain
<1> USE <1>0 DEF hooks, upload, write, shipper, server, ghosts, Lifting
<1>1. CASE HookReads \/ Aside \/ Begins \/ ReadTranscript
  BY <1>1 DEF HookReads, Aside, Begins, ReadTranscript, Owed
<1>2. ASSUME NEW s \in Session, NEW h \in Slot, HookWrites(s, h) PROVE Owed'
  <2> DEFINE n == HookMarker(s, h)
  <2>1. n.stamp = writes[s] + 1 /\ writes[s] \in Nat
    BY HookedFields, Bounds DEF TypeOK
  <2>2. /\ marker' = [marker EXCEPT ![s] = n]
        /\ UNCHANGED <<todo, snap, copy, cur, pc, after, seen, listed>>
    BY <1>2 DEF HookWrites
  <2> HIDE DEF n
  <2>3. listed[s] <= writes[s] /\ listed[s] \in Nat /\ (s = cur => seen <= writes[s] /\ seen \in Nat)
    BY Bounds DEF Stamps, TypeOK
  <2>4. n.stamp # listed[s] /\ (s = cur => n.stamp # seen) /\ Exists(n)
    BY <2>1, <2>3 DEF Exists
  <2>5. marker'[s] = n /\ \A r \in Session : r # s => marker'[r] = marker[r]
    BY <2>2 DEF TypeOK
  <2>6. cur \in Session
    BY DEF TypeOK
  <2> QED
    BY <2>2, <2>4, <2>5, <2>6 DEF Owed
<1>3. ASSUME NEW s \in Session, Removes(s) PROVE Owed'
  <2>1. \A r \in Session : listed[r] = 0 /\ listed'[r] = 0
    BY <1>3 DEF Removes, Owed
  <2> QED
    BY <1>3, <2>1 DEF Removes, Owed
<1>4. ASSUME NEW s \in Session, Snapshots(s) PROVE Owed'
  BY <1>4 DEF Snapshots, Owed
<1>6. CASE Lapses
  <2>1. /\ \A s \in Session : marker'[s].stamp = marker[s].stamp /\ marker'[s].dirty = marker[s].dirty
        /\ copy'.dirty = copy.dirty /\ UNCHANGED <<pc, cur, seen, after, listed>> /\ cur \in Session
    BY <1>6 DEF Lapses, Same, TypeOK
  <2> QED
    BY <2>1 DEF Owed, Exists
<1>7. CASE Quits
  BY <1>7 DEF Quits, Rests, Owed
<1>10. ASSUME NEW k \in {0, body}, Sends(k) PROVE Owed'
  BY <1>10 DEF Sends, Owed
<1>11. CASE Verdict
  <2>1. \A s \in Session : listed[s] = 0
    BY <1>11 DEF Verdict, Owed
  <2> QED
    BY <1>11, <2>1 DEF Verdict, Rests, Decides, Owed
<1>12. CASE ShipperWrites
  <2>1. CASE after = "lift"
    <3>1. pc = "writing" /\ pc' = "releasing" /\ listed' = listed /\ copy.dirty
      BY <1>12, <2>1, Wrote DEF ShipperWrites, Owed
    <3>2. \A s \in Session : marker'[s] = IF s = cur THEN copy ELSE marker[s]
      BY <1>12 DEF ShipperWrites, TypeOK
    <3> QED
      BY <3>1, <3>2 DEF Owed
  <2>2. CASE after = "send"
    <3>1. pc = "writing" /\ pc' = "sending" /\ listed' = listed
      BY <1>12, <2>2, Wrote DEF ShipperWrites
    <3> QED
      BY <2>2, <3>1 DEF Owed
  <2>3. CASE after \notin {"send", "lift"}
    <3>1. /\ pc' \in {"releasing", "select", "idle"}
          /\ \A s \in Session : listed'[s] = 0 \/ (listed'[s] = marker'[s].stamp /\ marker'[s].dirty)
          /\ pc' # "releasing" => \A s \in Session : listed'[s] = 0
      BY <1>12, <2>3, Wrote
    <3> QED
      BY <3>1 DEF Owed
  <2> QED
    BY <2>1, <2>2, <2>3
<1>13. ASSUME NEW s \in Session, Lifts(s) PROVE Owed'
  <2>1. /\ pc = "releasing" /\ marker' = marker /\ \A r \in Session : listed'[r] \in {listed[r], 0}
    BY <1>13 DEF Lifts
  <2>2. CASE pc' = pc
    BY <2>1, <2>2 DEF Owed
  <2>3. CASE pc' = "select" /\ \A r \in Session : listed[r] = 0
    BY <2>1, <2>3 DEF Owed
  <2>4. CASE /\ pc' = "writing" /\ after' = "lift" /\ cur' = s /\ seen' = marker[s].stamp
             /\ Same(copy', marker[s]) /\ listed[s] # 0 /\ marker[s].stamp = listed[s]
    BY <2>1, <2>4 DEF Owed, Same, Exists
  <2> QED
    BY <1>13, <2>2, <2>3, <2>4 DEF Lifts
<1> QED
  BY <1>1, <1>2, <1>3, <1>4, <1>6, <1>7, <1>10, <1>11, <1>12, <1>13 DEF Kind

\* What is owed stays owed between the steps of a writer.
LEMMA KeptNext == Inv /\ TypeOK' /\ Kind => Kept'
<1> SUFFICES ASSUME Inv, TypeOK', Kind PROVE Kept'
  OBVIOUS
<1>0. TypeOK /\ Pass /\ Stamps /\ Owed /\ Kept
  BY DEF Inv
<1>n. NoMarker.stamp = 0 /\ NoMarker.dirty = FALSE
  BY Plain
<1>m. \A s \in Session : marker[s].dirty => marker[s].stamp # 0
  BY <1>0, <1>n DEF Stamps, Copies
<1> USE <1>0 DEF hooks, upload, write, shipper, server, ghosts, Busy, Unraced, Lifting
<1>1. CASE HookReads
  <2>1. /\ UNCHANGED <<marker, todo, snap, copy, pc, after, raced, cur>>
        /\ \A s \in Session, h \in Slot : hook'[s][h].prior \in {hook[s][h].prior, marker[s]}
    BY <1>1 DEF HookReads
  <2> QED
    BY <2>1 DEF Kept
<1>2. ASSUME NEW s \in Session, NEW h \in Slot, HookWrites(s, h) PROVE Kept'
  <2> DEFINE n == HookMarker(s, h)
  <2>1. /\ hook[s][h].kind # "end" \/ hook[s][h].prior.dirty => n.dirty
        /\ n.stamp = writes[s] + 1 /\ writes[s] \in Nat
    BY HookedFields, Bounds DEF TypeOK
  <2>2. /\ marker' = [marker EXCEPT ![s] = n]
        /\ \A r \in Session, g \in Slot : hook'[r][g].prior \in {hook[r][g].prior, NoMarker}
        /\ \A r \in Session : raced[r] \subseteq raced'[r]
        /\ UNCHANGED <<todo, snap, copy, cur, pc, after>>
    BY <1>2, HookWrote DEF HookWrites
  <2>3. Unraced(s)' /\ hook[s][h].kind = "end" /\ Exists(marker[s]) =>
          marker[s].stamp = hook[s][h].prior.stamp
    BY <1>2, HookWrote
  <2> HIDE DEF n
  <2>4. Unraced(s)' /\ todo[s].dirty => n.dirty
    <3>1. todo[s].dirty => todo[s].stamp # 0
      BY <1>n DEF Stamps, Copies
    <3> QED
      BY <2>1, <2>2, <2>3, <3>1 DEF Kept, Pass, Exists
  <2>5. \A g \in Slot : hook'[s][g].prior.stamp # n.stamp
    <3>1. \A g \in Slot : hook[s][g].prior.stamp \in Nat /\ hook[s][g].prior.stamp <= writes[s]
      BY Bounds DEF TypeOK, Marker, Stamps, Copies
    <3> QED
      BY <1>n, <2>1, <2>2, <3>1
  <2>6. marker'[s] = n /\ \A r \in Session : r # s => marker'[r] = marker[r]
    BY <2>2 DEF TypeOK
  <2>7. ASSUME NEW r \in Session, r # s, Unraced(r)'
        PROVE  /\ todo[r].dirty => marker'[r].dirty
               /\ \A g \in Slot : marker'[r].dirty /\ marker'[r].stamp = hook'[r][g].prior.stamp =>
                    hook'[r][g].prior.dirty
    BY <1>n, <1>m, <2>2, <2>6, <2>7 DEF Kept
  <2>8. \A r \in Session : Unraced(r)' => Unraced(r)
    BY <2>2
  <2>9. /\ Busy' /\ Unraced(cur)' => snap'.dirty
        /\ pc' = "writing" /\ after' = "send" /\ Unraced(cur)' => copy'.dirty
    BY <2>2, <2>8 DEF Kept, TypeOK
  <2>10. ASSUME NEW r \in Session, Unraced(r)'
         PROVE  /\ todo'[r].dirty => marker'[r].dirty
                /\ \A g \in Slot : marker'[r].dirty /\ marker'[r].stamp = hook'[r][g].prior.stamp =>
                     hook'[r][g].prior.dirty
    BY <2>2, <2>4, <2>5, <2>6, <2>7, <2>10
  <2> QED
    BY <2>9, <2>10 DEF Kept
<1>3. ASSUME NEW s \in Session, Removes(s) PROVE Kept'
  BY <1>3, <1>n DEF Removes, Kept, Exists, TypeOK
<1>4. ASSUME NEW s \in Session, Snapshots(s) PROVE Kept'
  BY <1>4 DEF Snapshots, Kept, TypeOK
<1>5. CASE Aside
  <2>1. /\ UNCHANGED <<marker, todo, snap, copy, pc, after, raced, cur>>
        /\ \A s \in Session, h \in Slot : hook'[s][h].prior \in {hook[s][h].prior, NoMarker}
    BY <1>5 DEF Aside
  <2> QED
    BY <1>n, <1>m, <2>1 DEF Kept
<1>6. CASE Lapses
  <2>1. /\ \A s \in Session :
             /\ marker'[s].stamp = marker[s].stamp /\ marker'[s].dirty = marker[s].dirty
             /\ todo'[s].stamp = todo[s].stamp /\ todo'[s].dirty = todo[s].dirty
             /\ \A h \in Slot : /\ hook'[s][h].prior.stamp = hook[s][h].prior.stamp
                               /\ hook'[s][h].prior.dirty = hook[s][h].prior.dirty
             /\ todo[s] = NoMarker => todo'[s] = NoMarker
        /\ snap'.stamp = snap.stamp /\ snap'.dirty = snap.dirty
        /\ copy'.stamp = copy.stamp /\ copy'.dirty = copy.dirty
        /\ (snap = NoMarker => snap' = NoMarker) /\ (copy = NoMarker => copy' = NoMarker)
        /\ UNCHANGED <<pc, cur, seen, after, raced>>
    BY <1>6 DEF Lapses, Same
  <2>2. cur \in Session
    BY DEF TypeOK
  <2> QED
    BY <2>1, <2>2 DEF Kept, Exists
<1>7. CASE Quits
  BY <1>7, <1>n DEF Quits, Rests, Kept
<1>8. CASE Begins
  BY <1>8, <1>n DEF Begins, Kept
<1>9. CASE ReadTranscript
  BY <1>9 DEF ReadTranscript, Kept
<1>10. ASSUME NEW k \in {0, body}, Sends(k) PROVE Kept'
  BY <1>10 DEF Sends, Kept
<1>11. CASE Verdict
  <2>1. CASE Rests /\ (UNCHANGED marker \/ Drops)
    <3>1. \A s \in Session : marker'[s] = marker[s] \/ (s = cur /\ marker'[s] = NoMarker)
      BY <2>1 DEF Drops, TypeOK
    <3>2. \A s \in Session : todo'[s] \in {todo[s], NoMarker} /\ todo'[cur] = NoMarker
      BY <2>1 DEF Rests
    <3>3. pc' \in {"select", "idle"} /\ UNCHANGED <<hook, raced>>
      BY <1>11, <2>1 DEF Rests, Verdict
    <3> QED
      BY <1>n, <3>1, <3>2, <3>3 DEF Kept, Exists
  <2>2. ASSUME NEW n \in Marker, Decides(n) PROVE Kept'
    BY <1>11, <2>2 DEF Verdict, Decides, Kept
  <2> QED
    BY <1>11, <2>1, <2>2 DEF Verdict
<1>12. CASE ShipperWrites
  <2>1. /\ marker'[cur] = copy /\ hook' = hook /\ cur' = cur /\ cur \in Session /\ pc = "writing"
        /\ \A s \in Session : s # cur => marker'[s] = marker[s]
        /\ \A s \in Session : raced[s] \subseteq raced'[s]
        /\ Unraced(cur)' => marker[cur].stamp = seen
    <3>1. /\ raced' = [raced EXCEPT ![cur] =
                          IF marker[cur].stamp # seen THEN @ \cup {"shipper"} ELSE @]
          /\ raced \in [Session -> SUBSET Racer] /\ cur \in Session
          /\ cur' = cur
      BY <1>12, Wrote DEF ShipperWrites, TypeOK
    <3>2. raced'[cur] = IF marker[cur].stamp # seen THEN raced[cur] \cup {"shipper"} ELSE raced[cur]
      BY <3>1
    <3>3. \A s \in Session : raced[s] \subseteq raced'[s]
      BY <3>1, <3>2
    <3>4. "shipper" \notin raced'[cur] => marker[cur].stamp = seen
      BY <3>2
    <3>5. marker' = [marker EXCEPT ![cur] = copy] /\ hook' = hook /\ pc = "writing"
      BY <1>12 DEF ShipperWrites
    <3> QED
      BY <3>1, <3>3, <3>4, <3>5 DEF TypeOK
  <2>2. /\ \/ pc' \in {"select", "idle", "releasing"} /\ todo'[cur] = NoMarker
           \/ pc' = "sending" /\ after = "send" /\ UNCHANGED <<snap, todo>>
           \/ pc' = "releasing" /\ after = "lift" /\ UNCHANGED todo
        /\ \A s \in Session : todo'[s] \in {todo[s], NoMarker}
    BY <1>12, Wrote
  <2>3. /\ Unraced(cur)' => Unraced(cur) /\ marker[cur].dirty
        /\ copy = NoMarker \/ (copy.stamp = seen /\ seen # 0)
    BY <2>1 DEF Pass, Kept, Owed
  <2>4. after \in {"send", "lift"} /\ Unraced(cur)' => copy.dirty
    BY <2>1, <2>3 DEF Kept, Owed
  <2>5. ASSUME NEW s \in Session, Unraced(s)'
        PROVE  /\ todo'[s].dirty => marker'[s].dirty
               /\ \A h \in Slot : marker'[s].dirty /\ marker'[s].stamp = hook'[s][h].prior.stamp =>
                    hook'[s][h].prior.dirty
    <3>1. Unraced(s)
      BY <2>1, <2>5
    <3>2. CASE s # cur
      BY <1>n, <2>1, <2>2, <3>1, <3>2 DEF Kept
    <3>3. CASE s = cur
      <4>1. todo'[s].dirty => marker'[s].dirty
        BY <1>n, <2>1, <2>2, <2>4, <2>5, <3>3
      <4>2. marker'[s].dirty => marker'[s].stamp = marker[s].stamp /\ marker[s].dirty
        BY <1>n, <2>1, <2>3, <2>5, <3>3
      <4> QED
        BY <2>1, <3>1, <4>1, <4>2 DEF Kept
    <3> QED
      BY <3>2, <3>3
  <2>6. (Busy /\ Unraced(cur))' => snap'.dirty
    BY <2>1, <2>2 DEF Kept
  <2> QED
    BY <2>1, <2>2, <2>5, <2>6 DEF Kept
<1>13. ASSUME NEW s \in Session, Lifts(s) PROVE Kept'
  <2>1. /\ UNCHANGED <<marker, todo, hook, raced>>
        /\ pc' \in {"releasing", "select"} \/ (pc' = "writing" /\ after' = "lift")
    BY <1>13 DEF Lifts
  <2> QED
    BY <2>1 DEF Kept
<1> QED
  BY <1>1, <1>2, <1>3, <1>4, <1>5, <1>6, <1>7, <1>8, <1>9, <1>10, <1>11, <1>12, <1>13 DEF Kind

\* Attempts are charged for failures only.
LEMMA EarnedNext == Inv /\ TypeOK' /\ Kind => Earned'
<1> SUFFICES ASSUME Inv, TypeOK', Kind PROVE Earned'
  OBVIOUS
<1>0. TypeOK /\ Pass /\ Stamps /\ Owed /\ Kept /\ Earned /\ Covered
  BY DEF Inv
<1>n. NoMarker.stamp = 0 /\ NoMarker.attempts = 0
  BY Plain
<1>f. \A s \in Session : failures[s] \in Nat /\ failures'[s] \in Nat
  BY <1>0, Bounds DEF TypeOK
<1> USE <1>0 DEF hooks, upload, write, shipper, server, ghosts, Busy, Lifting
<1>1. CASE HookReads
  BY <1>1 DEF HookReads, Earned
<1>2. ASSUME NEW s \in Session, NEW h \in Slot, HookWrites(s, h) PROVE Earned'
  <2> DEFINE n == HookMarker(s, h)
             p == hook[s][h].prior
  <2>1. n.attempts = p.attempts
    BY HookedFields
  <2>2. /\ marker' = [marker EXCEPT ![s] = n] /\ UNCHANGED <<todo, snap, copy, cur, pc>>
        /\ \A r \in Session \ {s} : failures'[r] = failures[r] /\ raced'[r] = raced[r]
        /\ raced'[s] = {} => raced[s] = {} /\ marker[s] = p
        /\ failures'[s] = IF Exists(p) THEN failures[s] ELSE 0
    <3>1. failures' = [failures EXCEPT ![s] = IF Exists(p) THEN @ ELSE 0]
      BY <1>2 DEF HookWrites
    <3>2. UNCHANGED <<todo, snap, copy, cur, pc>>
      BY <1>2 DEF HookWrites
    <3> QED
      BY <1>2, <3>1, <3>2, HookWrote DEF TypeOK
  <2> HIDE DEF n
  <2>3. ASSUME raced'[s] = {}
        PROVE  /\ n.attempts <= failures'[s] /\ todo[s].attempts <= failures'[s]
               /\ s = cur => snap.attempts <= failures'[s] /\ copy.attempts <= failures'[s]
    <3>1. CASE Exists(p)
      BY <2>1, <2>2, <2>3, <3>1 DEF Earned
    <3>2. CASE ~Exists(p)
      <4>1. ~Exists(marker[s]) /\ p = NoMarker /\ todo[s] = NoMarker
        <5>1. p \in Copies(s) /\ todo[s] \in Copies(s)
          BY DEF Copies
        <5> QED
          BY <2>2, <2>3, <3>2, <5>1 DEF Pass, Exists, Stamps
      <4>2. s = cur => ~Busy /\ ~Lifting
        BY <4>1, Plain DEF Pass, Owed
      <4> QED
        BY <1>n, <1>f, <2>1, <2>2, <4>1, <4>2 DEF Pass
    <3> QED
      BY <3>1, <3>2
  <2> QED
    BY <2>2, <2>3 DEF Earned, TypeOK
<1>3. ASSUME NEW s \in Session, Removes(s) PROVE Earned'
  BY <1>3, <1>n, <1>f DEF Removes, Earned, TypeOK
<1>4. ASSUME NEW s \in Session, Snapshots(s) PROVE Earned'
  BY <1>4, <1>n, <1>f DEF Snapshots, Earned, Pass
<1>5. CASE Aside
  BY <1>5 DEF Aside, Earned
<1>6. CASE Lapses
  <2>1. /\ \A s \in Session :
             /\ marker'[s].attempts = marker[s].attempts /\ todo'[s].attempts = todo[s].attempts
        /\ snap'.attempts = snap.attempts /\ copy'.attempts = copy.attempts
        /\ UNCHANGED <<cur, raced, failures>>
    BY <1>6 DEF Lapses, Same
  <2> QED
    BY <2>1 DEF Earned
<1>7. CASE Quits
  BY <1>7, <1>n, <1>f DEF Quits, Rests, Earned
<1>8. CASE Begins
  BY <1>8, <1>n, <1>f DEF Begins, Earned
<1>9. CASE ReadTranscript
  BY <1>9 DEF ReadTranscript, Earned
<1>10. ASSUME NEW k \in {0, body}, Sends(k) PROVE Earned'
  BY <1>10 DEF Sends, Earned
<1>11. CASE Verdict
  <2>0. /\ \A s \in Session : failures'[s] >= failures[s] /\ raced' = raced
        /\ \A s \in Session : /\ marker[s].attempts \in Nat /\ todo[s].attempts \in Nat
        /\ snap.attempts \in Nat
    BY <1>11, Bounds DEF Verdict, TypeOK, Marker
  <2>1. CASE Rests /\ (UNCHANGED marker \/ Drops)
    <3>1. \A s \in Session : marker'[s] \in {marker[s], NoMarker}
      BY <2>1 DEF Drops, TypeOK
    <3>2. \A s \in Session : todo'[s] \in {todo[s], NoMarker}
      BY <2>1 DEF Rests
    <3>3. snap' = NoMarker /\ copy' = NoMarker
      BY <2>1 DEF Rests
    <3> QED
      BY <1>n, <1>f, <2>0, <3>1, <3>2, <3>3 DEF Earned
  <2>2. ASSUME NEW n \in Marker, Decides(n) PROVE Earned'
    <3>1. /\ UNCHANGED <<marker, todo, snap, cur>> /\ copy' = n
          /\ raced[cur] = {} => n.attempts <= failures'[cur]
      BY <2>2 DEF Decides
    <3> QED
      BY <1>f, <2>0, <3>1 DEF Earned
  <2> QED
    BY <1>11, <2>1, <2>2 DEF Verdict
<1>12. CASE ShipperWrites
  <2>1. /\ \A s \in Session : /\ raced'[s] = {} => raced[s] = {}
                              /\ todo'[s] \in {todo[s], NoMarker}
                              /\ s # cur => failures'[s] = failures[s]
        /\ failures'[cur] = IF copy.dirty THEN failures[cur] ELSE 0
        /\ cur' = cur /\ copy' = NoMarker /\ snap' \in {snap, NoMarker}
    BY <1>12, Wrote DEF ShipperWrites, TypeOK
  <2>2. raced'[cur] = {} => raced[cur] = {} /\ marker[cur].stamp = seen
    BY <1>12 DEF ShipperWrites, TypeOK
  <2>3. \A s \in Session : marker'[s] = IF s = cur THEN copy ELSE marker[s]
    BY <1>12 DEF ShipperWrites, TypeOK
  <2>5. marker'[cur] = copy
    BY <1>12 DEF ShipperWrites, TypeOK
  <2>6. ASSUME raced'[cur] = {}
        PROVE  /\ copy.attempts <= failures'[cur] /\ todo'[cur].attempts <= failures'[cur]
               /\ snap'.attempts <= failures'[cur]
    <3>1. CASE copy.dirty
      <4>1. cur \in Session /\ raced[cur] = {} /\ failures'[cur] = failures[cur]
        BY <2>1, <2>2, <2>6, <3>1 DEF TypeOK
      <4>2. /\ copy.attempts <= failures[cur] /\ todo[cur].attempts <= failures[cur]
            /\ snap.attempts <= failures[cur]
        BY <4>1 DEF Earned
      <4> QED
        BY <1>n, <1>f, <2>1, <4>1, <4>2
    <3>2. CASE ~copy.dirty
      <4>1. Unraced(cur) /\ pc = "writing"
        BY <1>12, <2>2, <2>6 DEF Unraced, ShipperWrites
      <4>2. after \notin {"send", "lift"} /\ copy.attempts = 0
        BY <3>2, <4>1 DEF Kept, Owed, Covered
      <4>3. todo'[cur] = NoMarker /\ snap' = NoMarker
        BY <1>12, <4>2, Wrote
      <4> QED
        BY <1>n, <1>f, <2>1, <4>2, <4>3 DEF TypeOK
    <3> QED
      BY <3>1, <3>2
  <2>7. ASSUME NEW s \in Session, raced'[s] = {}
        PROVE  /\ marker'[s].attempts <= failures'[s] /\ todo'[s].attempts <= failures'[s]
    <3>1. CASE s = cur
      BY <2>5, <2>6, <2>7, <3>1
    <3>2. CASE s # cur
      BY <1>n, <1>f, <2>1, <2>3, <2>7, <3>2 DEF Earned
    <3> QED
      BY <3>1, <3>2
  <2> QED
    BY <1>n, <1>f, <2>1, <2>6, <2>7 DEF Earned
<1>13. ASSUME NEW s \in Session, Lifts(s) PROVE Earned'
  <2>1. /\ UNCHANGED <<marker, todo, snap, failures, raced>>
        /\ \/ cur' = cur /\ copy' = copy
           \/ cur' = s /\ copy'.attempts = marker[s].attempts
    BY <1>13, <1>n DEF Lifts, Same, Pass
  <2>2. snap.attempts = 0
    BY <1>13, <1>n DEF Lifts, Pass
  <2> QED
    BY <1>f, <2>1, <2>2 DEF Earned
<1> QED
  BY <1>1, <1>2, <1>3, <1>4, <1>5, <1>6, <1>7, <1>8, <1>9, <1>10, <1>11, <1>12, <1>13 DEF Kind

\* What a write is about to clean is covered.
LEMMA CoveredNext == Inv /\ TypeOK' /\ Kind => Covered'
<1> SUFFICES ASSUME Inv, TypeOK', Kind PROVE Covered'
  OBVIOUS
<1>0. TypeOK /\ Pass /\ Stamps /\ Owed /\ Kept /\ Covered /\ Sizes
  BY DEF Inv
<1> USE <1>0 DEF hooks, upload, write, shipper, server, ghosts, Busy, Unraced, Uploading, Lifting
<1>1. CASE HookReads
  BY <1>1 DEF HookReads, Covered
<1>2. ASSUME NEW s \in Session, NEW h \in Slot, HookWrites(s, h) PROVE Covered'
  <2> DEFINE n == HookMarker(s, h)
  <2>1. n.stamp = writes[s] + 1 /\ writes[s] \in Nat
    BY HookedFields, Bounds DEF TypeOK
  <2>2. /\ marker' = [marker EXCEPT ![s] = n]
        /\ UNCHANGED <<todo, snap, copy, cur, pc, after, seen, body, stored>>
        /\ \A r \in Session : raced[r] \subseteq raced'[r]
        /\ \A r \in Session \ {s} : reported'[r] = reported[r]
        /\ idle' = idle \ {s}
    BY <1>2, HookWrote DEF HookWrites, TypeOK
  <2> HIDE DEF n
  <2>3. CASE s = cur
    <3>1. snap.stamp <= writes[s] /\ seen <= writes[s] /\ snap.stamp \in Nat /\ seen \in Nat
      BY <2>3, Bounds DEF Stamps, Copies, TypeOK, Marker
    <3>2. marker'[cur] = n
      BY <2>2, <2>3 DEF TypeOK
    <3>3. marker'[cur].stamp # snap.stamp /\ marker'[cur].stamp # seen
      BY <2>1, <3>1, <3>2
    <3>4. Unraced(cur)' => Unraced(cur)
      BY <2>2, <2>3
    <3> QED
      BY <2>2, <3>3, <3>4 DEF Covered
  <2>4. CASE s # cur
    <3>1. /\ marker'[cur] = marker[cur] /\ reported'[cur] = reported[cur] /\ (cur \in idle => cur \in idle')
          /\ raced[cur] \subseteq raced'[cur]
      BY <2>2, <2>4 DEF TypeOK
    <3> QED
      BY <2>2, <3>1 DEF Covered
  <2> QED
    BY <2>3, <2>4
<1>3. ASSUME NEW s \in Session, Removes(s) PROVE Covered'
  BY <1>3 DEF Removes, Covered
<1>4. ASSUME NEW s \in Session, Snapshots(s) PROVE Covered'
  BY <1>4 DEF Snapshots, Covered
<1>5. CASE Aside
  BY <1>5 DEF Aside, Covered
<1>6. CASE Lapses
  <2>1. /\ marker'[cur].stamp = marker[cur].stamp /\ snap'.stamp = snap.stamp
        /\ copy'.dirty = copy.dirty /\ copy'.attempts = copy.attempts
        /\ UNCHANGED <<cur, pc, after, seen, body, stored, reported, raced, idle>>
    BY <1>6 DEF Lapses, Same, TypeOK
  <2> QED
    BY <2>1 DEF Covered
<1>7. CASE Quits
  BY <1>7 DEF Quits, Rests, Covered
<1>8. CASE Begins
  BY <1>8 DEF Begins, Covered
<1>9. CASE ReadTranscript
  <2>1. reported[cur] <= turns[cur]
    BY DEF Sizes, TypeOK
  <2> QED
    BY <1>9, <2>1 DEF ReadTranscript, Covered
<1>10. ASSUME NEW k \in {0, body}, Sends(k) PROVE Covered'
  <2>1. Unraced(cur) => snap.dirty /\ (marker[cur].stamp = snap.stamp => reported[cur] <= body)
    BY <1>10 DEF Sends, Kept, Covered
  <2>2. UNCHANGED <<marker, snap, body, cur, reported, raced>> /\ (UNCHANGED <<pc, after>> \/ copy'.dirty = snap.dirty)
    BY <1>10 DEF Sends
  <2>3. pc' = "sending" \/ (pc' = "writing" /\ copy'.dirty = snap.dirty)
    BY <1>10 DEF Sends
  <2> QED
    BY <2>1, <2>2, <2>3 DEF Covered
<1>11. CASE Verdict
  <2>1. CASE Rests
    BY <2>1 DEF Rests, Covered
  <2>2. ASSUME NEW n \in Marker, Decides(n) PROVE Covered'
    BY <1>11, <2>2 DEF Verdict, Decides, Covered
  <2> QED
    BY <1>11, <2>1, <2>2 DEF Verdict
<1>12. CASE ShipperWrites
  <2>1. CASE after = "send"
    <3>1. /\ pc' = "sending" /\ UNCHANGED <<cur, snap, body, reported>> /\ pc = "writing"
          /\ marker'[cur] = copy
          /\ Unraced(cur)' => Unraced(cur) /\ marker[cur].stamp = seen
      BY <1>12, <2>1, Wrote DEF ShipperWrites, TypeOK
    <3>2. seen = snap.stamp
      BY <2>1, <3>1 DEF Pass
    <3>3. Unraced(cur)' => reported[cur] <= body
      BY <2>1, <3>1, <3>2 DEF Covered
    <3> QED
      BY <3>1, <3>3 DEF Covered
  <2>2. CASE after # "send"
    <3>1. pc' \in {"select", "idle", "releasing"}
      BY <1>12, <2>2, Wrote
    <3> QED
      BY <3>1 DEF Covered
  <2> QED
    BY <2>1, <2>2
<1>13. ASSUME NEW s \in Session, Lifts(s) PROVE Covered'
  <2>1. \/ pc' \in {"releasing", "select"}
        \/ pc' = "writing" /\ after' = "lift" /\ copy'.dirty = marker[s].dirty /\ listed[s] # 0
           /\ marker[s].stamp = listed[s]
    BY <1>13 DEF Lifts, Same
  <2> QED
    BY <2>1 DEF Covered, Owed
<1> QED
  BY <1>1, <1>2, <1>3, <1>4, <1>5, <1>6, <1>7, <1>8, <1>9, <1>10, <1>11, <1>12, <1>13 DEF Kind

-----------------------------------------------------------------------------
(* The theorems.                                                           *)

\* The invariant holds before the first turn.
LEMMA InvInit == Init => Inv
<1> SUFFICES ASSUME Init PROVE Inv
  OBVIOUS
<1>1. TypeOK
  <2>1. NoMarker \in Marker /\ NoHook \in [kind : Hook, prior : Marker]
    BY Copied DEF NoHook, Hook
  <2>2. 0 \in 0..MaxTurns /\ 0 \in 0..MaxWrites /\ 0 \in 0..MaxAttempts
    BY Bounds
  <2>3. setting.sessions \subseteq Session /\ setting.modes \subseteq Mode
    BY ScenarioOk DEF Init, Setting
  <2>4. Files
    BY <2>1, <2>2 DEF Init, Files
  <2>5. Rest
    BY <2>2 DEF Init, Rest
  <2>6. Local
    <3>1. mode \in Mode /\ cur \in Session
      BY <2>3 DEF Init
    <3>2. /\ pc = "idle" /\ todo = [s \in Session |-> NoMarker] /\ snap = NoMarker /\ body = 0
          /\ offset = 0 /\ listed = [s \in Session |-> 0] /\ retried = FALSE /\ copy = NoMarker /\ after = "next" /\ seen = 0
          /\ rejected = FALSE
      BY DEF Init
    <3>3. todo \in [Session -> Marker] /\ snap \in Marker /\ copy \in Marker
      BY <2>1, <3>2
    <3>4. body \in 0..MaxTurns /\ seen \in 0..MaxWrites /\ offset \in 0..1
          /\ listed \in [Session -> 0..MaxWrites]
      BY <2>2, <3>2
    <3>5. pc \in Stage /\ after \in After /\ retried \in BOOLEAN /\ rejected \in BOOLEAN
      BY <3>2 DEF Stage, After
    <3> QED
      BY <3>1, <3>3, <3>4, <3>5 DEF Local
  <2> QED
    BY <2>4, <2>5, <2>6, TypeParts
<1>2. \A s \in Session : \A m \in Copies(s) : m = NoMarker
  BY DEF Init, Copies, NoHook
<1>3. Sizes
  BY <1>2, Plain DEF Init, Sizes, Uploading
<1>4. Stamps
  <2>1. cur \in Session /\ seen = 0 /\ \A s \in Session : writes[s] = 0 /\ listed[s] = 0
    BY <1>1 DEF Init, TypeOK
  <2> QED
    BY <1>2, <2>1, Plain DEF Stamps
<1>5. Pass /\ Owed /\ Kept /\ Earned /\ Covered
  BY Plain DEF Init, Pass, Owed, Kept, Earned, Covered, Busy, Exists, Uploading, Lifting
<1> QED
  BY <1>1, <1>3, <1>4, <1>5 DEF Inv

\* No step breaks the invariant.
LEMMA InvNext == Inv /\ [Next]_vars => Inv'
BY TypesNext, Kinds, SizesNext, StampsNext, PassNext, OwedNext, KeptNext, EarnedNext, CoveredNext DEF Inv

\* The invariant holds in every behaviour.
LEMMA InvAlways == Spec => []Inv
BY InvInit, InvNext, PTL DEF Spec

\* Every variable keeps its type: no count of attempts passes the cap.
THEOREM TypeCorrect == Spec => []TypeOK
<1>1. Inv => TypeOK
  BY DEF Inv
<1> QED
  BY <1>1, InvAlways, PTL

\* No transcript is assembled from the chunks of two (uploadWithResume): what
\* the server keeps is what the progress in the marker is about.
THEOREM WholeTranscriptAlways == Spec => []WholeTranscript
<1>1. Inv => WholeTranscript
  BY DEF Inv, Sizes, WholeTranscript
<1> QED
  BY <1>1, InvAlways, PTL

\* A marker charges no attempt that did not fail, but for writes over markers
\* the writer had not read: being offline, throttled, too early or logged out
\* is free (holdAndDefer, recordRetryableFailure).
AttemptsEarned == \A s \in Session : raced[s] = {} => marker[s].attempts <= failures[s]

\* AttemptsEarned holds in every behaviour.
THEOREM AttemptsAlwaysEarned == Spec => []AttemptsEarned
<1>1. Inv => AttemptsEarned
  BY DEF Inv, Earned, AttemptsEarned
<1> QED
  BY <1>1, InvAlways, PTL

\* The end of a session survives every rewrite of its marker up to the last
\* upload, however hooks and shipper interleave, unless a writer replaces a
\* marker that it had looked at before a hook rewrote it (markShipFinal,
\* writeShipMarker, retainShipped).
THEOREM FinalAlwaysSurvives == Spec => FinalSurvives
<1> DEFINE Survives == \A s \in Session : marker[s].final /\ Exists(marker'[s]) =>
                          marker'[s].final \/ Overtaken(s)
<1>1. Inv /\ Inv' /\ [Next]_vars => Survives
  <2> SUFFICES ASSUME Inv, Inv', Kind, NEW s \in Session, marker[s].final, Exists(marker'[s]),
                      ~Overtaken(s)
               PROVE  marker'[s].final
    BY Kinds
  <2>0. TypeOK /\ Stamps /\ Pass /\ marker[s] \in Marker
    BY DEF Inv, TypeOK
  <2>a. NoMarker.stamp = 0 /\ NoMarker.final = FALSE
    BY Plain
  <2>b. Exists(marker[s])
    BY <2>0, <2>a DEF Stamps, Copies, Exists
  <2> USE <2>0 DEF hooks, upload, write, shipper, server, ghosts
  <2>1. ASSUME NEW r \in Session, NEW h \in Slot, HookWrites(r, h) PROVE marker'[s].final
    <3>1. marker' = [marker EXCEPT ![r] = HookMarker(r, h)]
      BY <2>1 DEF HookWrites
    <3>2. CASE r = s
      <4>1. hook[s][h] # NoHook /\ hook'[s][h] = NoHook
        BY <2>1, <3>2 DEF HookWrites, TypeOK
      <4>2. marker[s].stamp = hook[s][h].prior.stamp
        BY <2>b, <4>1 DEF Overtaken, Behind
      <4>3. hook[s][h].prior.final
        BY <4>2 DEF Stamps, Copies
      <4>4. HookMarker(s, h).final
        BY <4>3, HookedFields
      <4> QED
        BY <3>1, <3>2, <4>4 DEF TypeOK
    <3>3. CASE r # s
      BY <3>1, <3>3 DEF TypeOK
    <3> QED
      BY <3>2, <3>3
  <2>2. CASE ShipperWrites
    <3>1. marker'[s] = IF s = cur THEN copy ELSE marker[s]
      BY <2>2 DEF ShipperWrites, TypeOK
    <3>2. CASE s = cur
      <4>1. marker[s].stamp = seen /\ pc = "writing"
        BY <2>2, <3>2 DEF ShipperWrites, Overtaken
      <4>2. copy.stamp = seen
        BY <2>a, <3>1, <3>2, <4>1 DEF Pass, Exists
      <4> QED
        BY <3>1, <3>2, <4>1, <4>2 DEF Stamps, Copies
    <3> QED
      BY <3>1, <3>2
  <2>3. CASE Lapses
    BY <2>3 DEF Lapses, Same
  <2>4. ASSUME NEW r \in Session, Removes(r) PROVE marker'[s].final
    BY <2>4, <2>a DEF Removes, Exists, TypeOK
  <2>5. CASE Verdict
    <3>1. marker' = marker \/ marker' = [marker EXCEPT ![cur] = NoMarker]
      BY <2>5 DEF Verdict, Drops, Decides
    <3> QED
      BY <2>a, <3>1 DEF Exists, TypeOK
  <2>6. CASE UNCHANGED marker
    BY <2>6
  <2> QED
    BY <2>1, <2>2, <2>3, <2>4, <2>5, <2>6
    DEF Kind, HookReads, Snapshots, Lifts, Aside, Quits, Begins, ReadTranscript, Sends
<1> QED
  BY <1>1, InvAlways, PTL DEF Spec, FinalSurvives

\* No transcript is given up without a cause, whatever hooks and shippers do to
\* the marker in between (processMarker).
THEOREM LostOnlyForCause == Spec => LostForCause
<1> DEFINE Caused == \A s \in Session : marker[s].dirty /\ ~marker'[s].dirty =>
       \/ stored[s] >= reported[s]
       \/ s \in refused' \cup idle
       \/ failures'[s] >= MaxAttempts
       \/ failures'[s] > 0 /\ "hook" \in raced[s]
       \/ pc = "select" /\ "missing" \in setting.faults
       \/ raced'[s] \cap {"shipper", "end"} # {}
<1>1. Inv /\ Inv' /\ [Next]_vars => Caused
  <2> SUFFICES ASSUME Inv, Inv', Kind, NEW s \in Session, marker[s].dirty, ~marker'[s].dirty,
                      raced'[s] \cap {"shipper", "end"} = {}
               PROVE  \/ stored[s] >= reported[s]
                      \/ s \in refused' \cup idle
                      \/ failures'[s] >= MaxAttempts
                      \/ failures'[s] > 0 /\ "hook" \in raced[s]
                      \/ pc = "select" /\ "missing" \in setting.faults
    BY Kinds
  <2> DEFINE Cause == \/ stored[s] >= reported[s]
                      \/ s \in refused' \cup idle
                      \/ failures'[s] >= MaxAttempts
                      \/ failures'[s] > 0 /\ "hook" \in raced[s]
                      \/ pc = "select" /\ "missing" \in setting.faults
  <2>0. TypeOK /\ Stamps /\ Pass /\ Kept /\ Covered /\ marker[s] \in Marker
    BY DEF Inv, TypeOK
  <2>a. NoMarker.stamp = 0 /\ NoMarker.dirty = FALSE
    BY Plain
  <2>b. Exists(marker[s])
    BY <2>0, <2>a DEF Stamps, Copies, Exists
  <2> USE <2>0 DEF hooks, upload, write, shipper, server, ghosts
  <2>u. "shipper" \notin raced'[s] /\ "end" \notin raced'[s]
    OBVIOUS
  <2>1. ASSUME NEW r \in Session, NEW h \in Slot, HookWrites(r, h) PROVE Cause
    <3>1. marker' = [marker EXCEPT ![r] = HookMarker(r, h)] /\ raced[s] \subseteq raced'[s]
      BY <2>1, HookWrote
    <3>2. r = s
      BY <3>1 DEF TypeOK
    <3>3. hook[s][h].kind = "end" => marker[s].stamp = hook[s][h].prior.stamp
      BY <2>1, <2>b, <2>u, <3>2, HookWrote DEF Unraced
    <3>4. hook[s][h].kind = "end" => hook[s][h].prior.dirty
      BY <2>u, <3>1, <3>3 DEF Kept, Unraced
    <3>5. HookMarker(s, h).dirty
      BY <3>4, HookedFields
    <3> QED
      BY <3>1, <3>2, <3>5 DEF TypeOK
  <2>2. CASE ShipperWrites
    <3>1. marker'[s] = IF s = cur THEN copy ELSE marker[s]
      BY <2>2 DEF ShipperWrites, TypeOK
    <3>3. s = cur /\ marker'[s] = copy
      BY <3>1
    <3>4. marker[s].stamp = seen /\ pc = "writing" /\ raced[s] \subseteq raced'[s]
      BY <2>2, <2>u, <3>3 DEF ShipperWrites, TypeOK
    <3> QED
      BY <2>u, <3>3, <3>4 DEF Covered, Unraced
  <2>3. CASE Lapses
    BY <2>3 DEF Lapses, Same
  <2>4. ASSUME NEW r \in Session, Removes(r) PROVE Cause
    BY <2>4 DEF Removes, TypeOK
  <2>5. CASE Verdict
    <3>1. marker' # marker => Drops
      BY <2>5 DEF Verdict, Decides
    <3>2. s = cur /\ Drops /\ raced' = raced
      BY <2>5, <3>1 DEF Verdict, Drops, TypeOK
    <3>3. raced[s] \subseteq {"hook"}
      BY <2>u, <3>2 DEF TypeOK, Racer
    <3> QED
      BY <3>2, <3>3 DEF Drops
  <2>6. marker' # marker
    OBVIOUS
  <2> QED
    BY <2>1, <2>2, <2>3, <2>4, <2>5, <2>6
    DEF Kind, HookReads, Snapshots, Lifts, Aside, Quits, Begins, ReadTranscript, Sends
<1> QED
  BY <1>1, InvAlways, PTL DEF Spec, LostForCause

-----------------------------------------------------------------------------
(* What is stored.                                                         *)

\* The transcript has all that is stored, and so has the body being uploaded.
Newer ==
  /\ \A s \in Session : stored[s] <= turns[s]
  /\ Uploading => stored[cur] <= body

\* Only the end of an upload stores anything: the body uploaded.
LEMMA Stores ==
  [Next]_vars => \/ stored' = stored
                 \/ pc = "sending" /\ stored' = [stored EXCEPT ![cur] = body]
<1> SUFFICES ASSUME [Next]_vars
             PROVE  \/ stored' = stored
                    \/ pc = "sending" /\ stored' = [stored EXCEPT ![cur] = body]
  OBVIOUS
<1> USE DEF server
<1>1. ASSUME NEW s \in setting.sessions,
             \/ \E h \in Slot : \/ \E kind \in {"stop", "finalStop"} : StopReads(s, h, kind)
                              \/ EndReads(s, h) \/ HookWrites(s, h) \/ HookDies(s, h)
             \/ Collect(s) \/ TranscriptMissing(s) \/ Snapshot(s) \/ Release(s)
             \/ WeekPasses(s) \/ ScratchSwept(s)
      PROVE  stored' = stored
  BY <1>1 DEF StopReads, EndReads, HookWrites, HookDies, Collect, TranscriptMissing, Snapshot,
              WeekPasses, ScratchSwept, Release
<1>2. PassBegins \/ PassEnds \/ ReadFails \/ ReadTranscript => stored' = stored
  BY DEF PassBegins, Begin, PassEnds, ReadFails, ReadTranscript
<1>3. ServerStores => pc = "sending" /\ stored' = [stored EXCEPT ![cur] = body]
  BY DEF ServerStores, LastChunk
<1>4. Accepted \/ Unreachable => \/ stored' = stored
                                 \/ pc = "sending" /\ stored' = [stored EXCEPT ![cur] = body]
  BY <1>3 DEF Accepted, Unreachable
<1>5. ChunkAcked \/ Resync \/ NotReady \/ Unauthorized \/ ServerFails \/ Refused => stored' = stored
  BY DEF ChunkAcked, Resync, NotReady, Unauthorized, ServerFails, Refused
<1>6. ShipperWrites \/ ReleaseEnds \/ Abort \/ HoldsLapse \/ CadencePasses \/ Reprobe \/ UNCHANGED vars => stored' = stored
  BY DEF ShipperWrites, ReleaseEnds, Abort, HoldsLapse, CadencePasses, Reprobe, vars
<1> QED
  BY <1>1, <1>2, <1>4, <1>5, <1>6 DEF Next, Answered

\* The turns of a transcript only grow.
LEMMA TurnsGrow == Inv /\ Kind => \A s \in Session : turns'[s] >= turns[s]
<1> SUFFICES ASSUME Inv, Kind PROVE \A s \in Session : turns'[s] >= turns[s]
  OBVIOUS
<1>1. \A s \in Session : turns[s] \in Nat
  BY Bounds DEF Inv, TypeOK
<1>2. HookReads \/ turns' = turns
  BY DEF Kind, HookWrites, Removes, Snapshots, Lifts, Aside, Lapses, Quits, Begins, ReadTranscript,
         Sends, Verdict, ShipperWrites, hooks
<1> QED
  BY <1>1, <1>2 DEF HookReads

\* A body is no older than what was stored when it was read.
LEMMA NewerNext == Inv /\ Inv' /\ Newer /\ [Next]_vars => Newer'
<1> SUFFICES ASSUME Inv, Inv', Newer, [Next]_vars PROVE Newer'
  OBVIOUS
<1>0. TypeOK /\ TypeOK' /\ Sizes /\ Kind
  BY Kinds DEF Inv
<1>n. /\ \A s \in Session : turns[s] \in Nat /\ turns'[s] \in Nat /\ stored[s] \in Nat
      /\ body \in Nat /\ cur \in Session /\ stored \in [Session -> 0..MaxTurns]
  BY <1>0, Bounds DEF TypeOK
<1>1. \A s \in Session : turns'[s] >= turns[s]
  BY <1>0, TurnsGrow
<1>2. \/ stored' = stored
      \/ pc = "sending" /\ stored' = [stored EXCEPT ![cur] = body]
  BY Stores
<1>3. pc = "sending" => body <= turns[cur]
  BY <1>0 DEF Sizes, Uploading
<1>4. \A s \in Session : stored'[s] <= turns'[s]
  <2>1. CASE stored' = stored
    BY <1>n, <1>1, <2>1 DEF Newer
  <2>2. CASE pc = "sending" /\ stored' = [stored EXCEPT ![cur] = body]
    <3>1. \A s \in Session : stored'[s] = IF s = cur THEN body ELSE stored[s]
      BY <1>n, <2>2
    <3> QED
      BY <1>n, <1>1, <1>3, <2>2, <3>1 DEF Newer
  <2> QED
    BY <1>2, <2>1, <2>2
<1>5. ASSUME Uploading' PROVE stored'[cur'] <= body'
  <2>1. CASE ReadTranscript
    <3>1. body' = turns[cur] /\ cur' = cur /\ stored' = stored
      BY <2>1 DEF ReadTranscript, server
    <3> QED
      BY <1>n, <3>1 DEF Newer
  <2>2. CASE ~ReadTranscript
    <3>1. Uploading /\ cur' = cur /\ body' = body
      <4>1. CASE ShipperWrites
        BY <1>0, <1>5, <4>1, Wrote DEF ShipperWrites, Uploading, upload, Inv
      <4>2. CASE ~ShipperWrites
        BY <1>0, <1>5, <2>2, <4>2
        DEF Kind, HookReads, HookWrites, Removes, Snapshots, Lifts, Aside, Lapses, Quits, Begins,
            Sends, Verdict, Rests, Decides, Uploading, shipper, upload, write
      <4> QED
        BY <4>1, <4>2
    <3>2. stored'[cur] \in {stored[cur], body}
      BY <1>n, <1>2
    <3>3. stored[cur] <= body /\ stored[cur] \in Nat
      BY <1>n, <3>1 DEF Newer
    <3> QED
      BY <1>n, <3>1, <3>2, <3>3
  <2> QED
    BY <2>1, <2>2
<1> QED
  BY <1>4, <1>5 DEF Newer, Uploading

\* So it is in every behaviour.
LEMMA NewerAlways == Spec => []Newer
<1>1. Init => Newer
  <2>1. ASSUME Init PROVE Newer
    <3>1. \A s \in Session : stored[s] = 0 /\ turns[s] = 0
      BY <2>1 DEF Init
    <3> QED
      BY <2>1, <3>1 DEF Init, Newer, Uploading
  <2> QED
    BY <2>1
<1> QED
  BY <1>1, NewerNext, InvAlways, PTL DEF Spec

\* What the server keeps of a session is never replaced by an older transcript,
\* however often an upload is broken off, resumed, retried or begun anew
\* (uploadWithResume): what LostForCause finds stored stays stored.
StoredGrows == [][\A s \in Session : stored'[s] >= stored[s]]_vars

\* StoredGrows holds of every behaviour.
THEOREM NewestWins == Spec => StoredGrows
<1>1. ASSUME Inv, Newer, [Next]_vars PROVE \A s \in Session : stored'[s] >= stored[s]
  <2>1. \/ stored' = stored
        \/ pc = "sending" /\ stored' = [stored EXCEPT ![cur] = body]
    BY <1>1, Stores
  <2>2. /\ \A s \in Session : stored[s] \in Nat
        /\ body \in Nat /\ cur \in Session /\ stored \in [Session -> 0..MaxTurns]
    BY <1>1, Bounds DEF Inv, TypeOK
  <2>3. pc = "sending" => stored[cur] <= body
    BY <1>1 DEF Newer, Uploading
  <2>4. CASE stored' = stored
    BY <2>2, <2>4
  <2>5. CASE pc = "sending" /\ stored' = [stored EXCEPT ![cur] = body]
    <3>1. \A s \in Session : stored'[s] = IF s = cur THEN body ELSE stored[s]
      BY <2>2, <2>5
    <3> QED
      BY <2>2, <2>3, <2>5, <3>1
  <2> QED
    BY <2>1, <2>4, <2>5
<1> QED
  BY <1>1, InvAlways, NewerAlways, PTL DEF Spec, StoredGrows
=============================================================================
