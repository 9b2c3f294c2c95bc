----------------------------- MODULE ShipMarker -----------------------------
(***************************************************************************)
(* The ship markers of the hook CLI (shipper.ts): one small file per       *)
(* session that says its transcript has yet to be uploaded.  Hooks rewrite *)
(* it when a turn or the session ends; a shipper, resident or on demand,   *)
(* snapshots it, uploads the transcript in chunks and deletes, retains or  *)
(* rewrites it according to the answer.                                    *)
(*                                                                         *)
(* Nothing locks a marker.  A writer reads the file, decides, and renames  *)
(* a new file over it: these are two steps here, so that another writer    *)
(* comes in between.  The hooks of a session overlap where they are        *)
(* spawned detached (pi-family.ts) or not awaited (opencode.ts).           *)
(* Two writers share one temporary name, but whichever renames first       *)
(* installs what was written last, which is what writing one after the     *)
(* other does: a write is one step.                                        *)
(*                                                                         *)
(* A transcript is the number of turns it holds, a body the number it held *)
(* when it was read, and updated_at is the number of the hook write that   *)
(* set it.  One shipper runs at a time: DeliveryLease is about that.       *)
(***************************************************************************)
EXTENDS Integers

CONSTANTS
  Session,
  Scenario,     \* the settings to look at: see Setting
  MaxTurns,     \* bound on the turns of a session
  MaxWrites,    \* bound on the hook writes of a session
  MaxHooks,     \* bound on the hooks of a session at a time
  MaxAttempts   \* MAX_SHIP_ATTEMPTS

Fault == {"crash",       \* a shipper or a hook is killed, or a lease is lost
          "network",     \* 429, or no answer: the pass ends if it is a drain
          "conflict",    \* 404 or 409, and scratch files that are swept
          "unauthorized",
          "error",       \* 5xx although nothing is wrong with the transcript
          "reject",      \* 4xx that says the transcript is bad
          "unreadable",  \* the transcript cannot be read, or nothing collated
          "missing",     \* the transcript is gone
          "idle",        \* a week or a day goes by
          "end"}         \* sessions end

Mode == {"resident", "drain"}

Slot == 1..MaxHooks

Setting == [modes    : SUBSET Mode,
            sessions : SUBSET Session,
            chunked  : BOOLEAN,         \* a body takes two chunks, not one
            overlap  : BOOLEAN,         \* hooks of a session may overlap
            poison   : SUBSET Session,  \* the server fails on their transcripts
            faults   : SUBSET Fault]

ASSUME ScenarioOk == Scenario \subseteq Setting
ASSUME BoundsOk == {MaxTurns, MaxWrites, MaxHooks, MaxAttempts} \subseteq Nat \ {0}

VARIABLES
  setting,   \* what this behaviour is set in
  turns,     \* turns[s]: turns in the transcript on disk
  marker,    \* marker[s]: the marker file, NoMarker if there is none
  idle,      \* sessions whose marker file was last modified a week ago
  hook,      \* hook[s][h]: a hook that is rewriting the marker
  writes,    \* writes[s]: hook writes so far
  pc,        \* what the shipper is at
  mode,      \* ... in which mode
  todo,      \* todo[s]: the marker read for this pass, if not yet processed
  cur,       \* the session being processed
  snap,      \* currentMarker
  body,      \* the turns in the body being uploaded
  offset,    \* chunks of it the server has acknowledged
  retried,   \* retried409
  copy,      \* the marker it is about to write
  after,     \* ... and where it goes from there
  listed,    \* listed[s]: updated_at of a held marker listed for release, or 0
  rejected,  \* the resident shipper's token was rejected and not re-probed
  scratch,   \* scratch[s]: the body of the first chunk the server keeps
  stored,    \* stored[s]: the turns in the stored transcript
  reported,  \* reported[s]: the newest turn a hook has written a marker for (ghost)
  failures,  \* failures[s]: failed attempts since the marker was new (ghost)
  refused,   \* sessions of which the server has refused a body (ghost)
  mixed,     \* sessions with a body assembled from two transcripts (ghost)
  seen,      \* updated_at when the write under way was decided on (ghost)
  raced      \* raced[s]: who has written over a marker it had not read: see Racer (ghost)

hooks == <<turns, hook, writes>>
upload == <<cur, snap, body, offset, retried>>
write == <<copy, after, seen, listed>>
shipper == <<pc, mode, todo, upload, write, rejected>>
server == <<scratch, stored, mixed>>
ghosts == <<reported, failures, refused, raced>>
vars == <<setting, hooks, marker, idle, shipper, server, ghosts>>

-----------------------------------------------------------------------------
Marker == [stamp    : 0..MaxWrites,       \* updated_at
           attempts : 0..MaxAttempts - 1,
           final    : BOOLEAN,
           dirty    : BOOLEAN,
           held     : BOOLEAN,            \* next_attempt_at lies ahead
           recent   : BOOLEAN,            \* shipped within SHIP_INTERVAL_MS
           sent     : 0..MaxTurns]        \* the body bytes_uploaded is about

NoMarker == [stamp |-> 0, attempts |-> 0, final |-> FALSE, dirty |-> FALSE,
             held |-> FALSE, recent |-> FALSE, sent |-> 0]

Exists(m) == m.stamp # 0

Clean(m) == Exists(m) /\ ~m.dirty

Hook == {"none", "stop", "finalStop", "end"}

Stage == {"idle", "select", "snapped", "sending", "writing", "releasing"}

\* What follows a write: the next chunk, the next marker, the end of the pass,
\* or, the server having accepted a transcript, the holds of all others, and
\* after the hold of one ("lift") that of another.
After == {"send", "next", "stop", "release", "lift"}

\* "end" is a SessionEnd that has written over what a hook wrote meanwhile.
Racer == {"hook", "end", "shipper"}

TypeOK ==
  /\ setting \in Scenario
  /\ turns \in [Session -> 0..MaxTurns] /\ writes \in [Session -> 0..MaxWrites]
  /\ marker \in [Session -> Marker] /\ idle \subseteq Session
  /\ hook \in [Session -> [Slot -> [kind : Hook, prior : Marker]]]
  /\ pc \in Stage /\ mode \in Mode /\ todo \in [Session -> Marker]
  /\ cur \in Session /\ snap \in Marker /\ body \in 0..MaxTurns
  /\ offset \in 0..1 /\ retried \in BOOLEAN
  /\ copy \in Marker /\ after \in After /\ seen \in 0..MaxWrites
  /\ listed \in [Session -> 0..MaxWrites]
  /\ rejected \in BOOLEAN
  /\ scratch \in [Session -> 0..MaxTurns] /\ stored \in [Session -> 0..MaxTurns]
  /\ reported \in [Session -> 0..MaxTurns]
  /\ failures \in [Session -> 0..MaxAttempts]
  /\ refused \subseteq Session /\ mixed \subseteq Session
  /\ raced \in [Session -> SUBSET Racer]

NoHook == [kind |-> "none", prior |-> NoMarker]

Init ==
  /\ setting \in Scenario
  /\ turns = [s \in Session |-> 0] /\ writes = [s \in Session |-> 0]
  /\ marker = [s \in Session |-> NoMarker] /\ idle = {}
  /\ hook = [s \in Session |-> [h \in Slot |-> NoHook]]
  /\ pc = "idle" /\ mode \in setting.modes /\ todo = [s \in Session |-> NoMarker]
  /\ cur \in setting.sessions /\ snap = NoMarker /\ body = 0 /\ offset = 0 /\ retried = FALSE
  /\ copy = NoMarker /\ after = "next" /\ seen = 0 /\ listed = [s \in Session |-> 0]
  /\ rejected = FALSE
  /\ scratch = [s \in Session |-> 0] /\ stored = [s \in Session |-> 0] /\ mixed = {}
  /\ reported = [s \in Session |-> 0] /\ failures = [s \in Session |-> 0]
  /\ refused = {} /\ raced = [s \in Session |-> {}]

-----------------------------------------------------------------------------
(* Hooks.                                                                  *)

\* A hook starts while others of its session are under way only if it may.
Starts(s, h) ==
  /\ hook[s][h] = NoHook /\ writes[s] < MaxWrites
  /\ \A g \in Slot : g < h => hook[s][g] # NoHook
  /\ setting.overlap \/ \A g \in Slot : hook[s][g] = NoHook

Reads(s, h, kind) == hook' = [hook EXCEPT ![s][h] = [kind |-> kind, prior |-> marker[s]]]

\* A turn ends, and its hook reads the marker there is.
StopReads(s, h, kind) ==
  /\ Starts(s, h) /\ turns[s] < MaxTurns
  /\ turns' = [turns EXCEPT ![s] = @ + 1]
  /\ Reads(s, h, kind)
  /\ UNCHANGED <<setting, writes, marker, idle, shipper, server, ghosts>>

\* markShipFinal: nothing is done without a marker, or with a final one.
EndReads(s, h) ==
  /\ "end" \in setting.faults
  /\ Starts(s, h) /\ turns[s] > 0
  /\ Exists(marker[s]) /\ ~marker[s].final
  /\ Reads(s, h, "end")
  /\ UNCHANGED <<setting, turns, writes, marker, idle, shipper, server, ghosts>>

\* Slip: SessionEnd leaves updated_at alone.
HookMarkerUnstamped(s, h) ==
  LET prior == hook[s][h].prior IN
  IF hook[s][h].kind = "end"
  THEN [prior EXCEPT !.final = TRUE, !.sent = 0]
  ELSE [prior EXCEPT !.stamp = writes[s] + 1, !.dirty = TRUE, !.sent = 0,
                     !.final = @ \/ hook[s][h].kind = "finalStop"]

\* What the hook makes of the marker it read: attempts, the hold and the time
\* of the last upload are carried over, the progress of the upload is not.
HookMarker(s, h) ==
  LET prior == hook[s][h].prior
      touch == [prior EXCEPT !.stamp = writes[s] + 1, !.sent = 0]
  IN  IF hook[s][h].kind = "end"
      THEN [touch EXCEPT !.final = TRUE]
      ELSE [touch EXCEPT !.dirty = TRUE, !.final = @ \/ hook[s][h].kind = "finalStop"]

\* The marker has been rewritten by a hook since this one read it.
Behind(s, h) == Exists(marker[s]) /\ marker[s].stamp # hook[s][h].prior.stamp

\* What a hook that writes now has not read.
HookRaces(s, h) ==
  (IF marker[s] = hook[s][h].prior THEN {} ELSE {"hook"})
  \cup (IF Behind(s, h) /\ hook[s][h].kind = "end" THEN {"end"} ELSE {})

HookWrites(s, h) ==
  /\ hook[s][h] # NoHook /\ writes[s] < MaxWrites
  /\ marker' = [marker EXCEPT ![s] = HookMarker(s, h)]
  /\ writes' = [writes EXCEPT ![s] = @ + 1]
  /\ idle' = idle \ {s}
  /\ reported' = [reported EXCEPT ![s] = IF hook[s][h].kind = "end" THEN @ ELSE turns[s]]
  /\ raced' = [raced EXCEPT ![s] = @ \cup HookRaces(s, h)]
  /\ failures' = [failures EXCEPT ![s] = IF Exists(hook[s][h].prior) THEN @ ELSE 0]
  /\ refused' = refused \ {s}
  /\ hook' = [hook EXCEPT ![s][h] = NoHook]
  /\ UNCHANGED <<setting, turns, shipper, server>>

HookDies(s, h) ==
  /\ "crash" \in setting.faults /\ hook[s][h] # NoHook
  /\ hook' = [hook EXCEPT ![s][h] = NoHook]
  /\ UNCHANGED <<setting, turns, writes, marker, idle, shipper, server, ghosts>>

-----------------------------------------------------------------------------
(* The shipper: a pass.                                                    *)

\* Cadence and holds bind the drain only; `force` lifts the cadence.
Selected(m, how, force) ==
  m.dirty /\ (how = "drain" => ~m.held /\ (force \/ m.final \/ ~m.recent))

\* selectMarkers reads every marker; Expired are the retained ones past
\* SHIPPED_MARKER_TTL_MS.
Begin(how, force) ==
  /\ pc = "idle" /\ how \in setting.modes
  /\ how = "resident" => ~rejected
  /\ \E expired \in SUBSET {s \in setting.sessions : Clean(marker[s]) /\ ~marker[s].recent} :
       /\ "idle" \in setting.faults \/ expired = {}
       /\ todo' = [s \in Session |-> IF s \in expired \/ Selected(marker[s], how, force)
                                     THEN marker[s] ELSE NoMarker]
  /\ \E s \in Session : Exists(todo'[s])
  /\ pc' = "select" /\ mode' = how
  /\ UNCHANGED <<setting, hooks, marker, idle, upload, write, rejected, server, ghosts>>

Delete(s) == marker' = [marker EXCEPT ![s] = NoMarker] /\ idle' = idle \ {s}

Race(s, read) == raced' = [raced EXCEPT ![s] = IF marker[s] = read THEN @ ELSE @ \cup {"shipper"}]

\* A retained marker past its time is deleted as it was read.
Collect(s) ==
  /\ pc = "select" /\ Clean(todo[s])
  /\ Delete(s)
  /\ Race(s, todo[s])
  /\ todo' = [todo EXCEPT ![s] = NoMarker]
  /\ UNCHANGED <<setting, hooks, pc, mode, upload, write, rejected, server,
                 reported, failures, refused>>

Processed(s) == todo' = [todo EXCEPT ![s] = NoMarker]

\* processMarker: the transcript is gone.
TranscriptMissing(s) ==
  /\ pc = "select" /\ todo[s].dirty /\ "missing" \in setting.faults
  /\ \A t \in Session : ~Clean(todo[t])
  /\ Delete(s)
  /\ Processed(s)
  /\ UNCHANGED <<setting, hooks, pc, mode, upload, write, rejected, server, ghosts>>

\* processMarker: the marker is read again, before the transcript is.
Snapshot(s) ==
  /\ pc = "select" /\ todo[s].dirty
  /\ \A t \in Session : ~Clean(todo[t])
  /\ cur' = s /\ snap' = IF Exists(marker[s]) THEN marker[s] ELSE todo[s]
  /\ pc' = "snapped"
  /\ UNCHANGED <<setting, hooks, marker, idle, mode, todo, body, offset, retried, write,
                 rejected, server, ghosts>>

\* The locals of the pass mean nothing between two markers, or two passes.
Forget ==
  /\ snap' = NoMarker /\ body' = 0 /\ offset' = 0 /\ retried' = FALSE
  /\ copy' = NoMarker /\ after' = "next" /\ seen' = 0 /\ UNCHANGED cur

Unlisted == listed' = [s \in Session |-> 0]

NextMarker == pc' = "select" /\ Processed(cur) /\ Forget /\ Unlisted

StopPass == pc' = "idle" /\ todo' = [s \in Session |-> NoMarker] /\ Forget /\ Unlisted

\* In a drain, a transport failure ends the pass.
OnTransport == IF mode = "drain" THEN StopPass ELSE NextMarker

PassEnds ==
  /\ pc = "select" /\ \A s \in Session : ~Exists(todo[s])
  /\ StopPass
  /\ UNCHANGED <<setting, hooks, marker, idle, mode, rejected, server, ghosts>>

\* The marker is as it was in the snapshot `m`, so far as updated_at tells.
Unchanged(m) == marker[cur].stamp = m.stamp

\* The next step of the shipper writes `m`.
Write(m, then) ==
  /\ pc' = "writing" /\ copy' = m /\ after' = then /\ seen' = marker[cur].stamp
  /\ UNCHANGED listed

WriteNext(m, then) == Write(m, then) /\ UNCHANGED <<todo, upload>>

Failed(s) == failures' = [failures EXCEPT ![s] = IF @ < MaxAttempts THEN @ + 1 ELSE @]

\* Slip: the count of attempts is not kept.
RecordFailureUncounted(m, transport) ==
  /\ Failed(cur)
  /\ UNCHANGED <<marker, idle>>
  /\ IF Unchanged(m)
     THEN WriteNext([m EXCEPT !.held = TRUE], IF transport /\ mode = "drain" THEN "stop" ELSE "next")
     ELSE IF transport THEN OnTransport ELSE NextMarker

\* Slip: one attempt too many.
RecordFailureLate(m, transport) ==
  /\ Failed(cur)
  /\ IF m.attempts >= MaxAttempts
     THEN Delete(cur) /\ IF transport THEN OnTransport ELSE NextMarker
     ELSE UNCHANGED <<marker, idle>> /\ WriteNext([m EXCEPT !.attempts = @ + 1], "next")

\* recordRetryableFailure(m): at the cap the marker goes, whatever is in it.
RecordFailure(m, transport) ==
  /\ Failed(cur)
  /\ IF m.attempts + 1 >= MaxAttempts
     THEN /\ Delete(cur)
          /\ IF transport THEN OnTransport ELSE NextMarker
     ELSE /\ UNCHANGED <<marker, idle>>
          /\ IF Unchanged(m)
             THEN WriteNext([m EXCEPT !.attempts = @ + 1, !.held = TRUE],
                            IF transport /\ mode = "drain" THEN "stop" ELSE "next")
             ELSE IF transport THEN OnTransport ELSE NextMarker

\* Reading, collating or compressing the transcript fails.  The marker that
\* is blamed is the one read when the pass began.
ReadFails ==
  /\ pc = "snapped" /\ "unreadable" \in setting.faults
  /\ RecordFailure(todo[cur], FALSE)
  /\ UNCHANGED <<setting, hooks, mode, rejected, server, reported, refused, raced>>

\* Slip: an upload resumes whatever the body the progress is about.
ReadTranscriptUnhashed ==
  /\ pc = "snapped"
  /\ pc' = "sending"
  /\ body' = turns[cur]
  /\ offset' = IF setting.chunked /\ snap.sent # 0 THEN 1 ELSE 0
  /\ UNCHANGED <<setting, hooks, marker, idle, mode, todo, cur, snap, retried, write, rejected,
                 server, ghosts>>

\* The body is built.  The upload resumes if the progress is about this body.
ReadTranscript ==
  /\ pc = "snapped"
  /\ pc' = "sending"
  /\ body' = turns[cur]
  /\ offset' = IF setting.chunked /\ snap.sent = turns[cur] THEN 1 ELSE 0
  /\ UNCHANGED <<setting, hooks, marker, idle, mode, todo, cur, snap, retried, write, rejected,
                 server, ghosts>>

-----------------------------------------------------------------------------
(* The answers, and what the shipper makes of them.  Each checks the       *)
(* marker as the answer arrives; the write it may lead to is ShipperWrites.*)

LastChunk == pc = "sending" /\ (setting.chunked => offset = 1)

\* Slip: the snapshot goes over whatever marker there is.
ChunkAckedUnchecked ==
  /\ pc = "sending" /\ setting.chunked /\ offset = 0
  /\ scratch' = [scratch EXCEPT ![cur] = body]
  /\ offset' = 1
  /\ Write([snap EXCEPT !.sent = body], "send")
  /\ UNCHANGED <<setting, hooks, marker, idle, mode, todo, cur, snap, body, retried, rejected,
                 stored, mixed, ghosts>>

\* 202.  The progress is written into the snapshot.
ChunkAcked ==
  /\ pc = "sending" /\ setting.chunked /\ offset = 0
  /\ scratch' = [scratch EXCEPT ![cur] = body]
  /\ offset' = 1
  /\ IF Unchanged(snap)
     THEN Write([snap EXCEPT !.sent = body], "send")
     ELSE UNCHANGED <<pc, write>>
  /\ UNCHANGED <<setting, hooks, marker, idle, mode, todo, cur, snap, body, retried, rejected,
                 stored, mixed, ghosts>>

\* The server has the whole body, or what it takes for it.
ServerStores ==
  /\ LastChunk /\ cur \notin setting.poison
  /\ setting.chunked => scratch[cur] # 0
  /\ mixed' = IF setting.chunked /\ scratch[cur] # body THEN mixed \cup {cur} ELSE mixed
  /\ stored' = [stored EXCEPT ![cur] = body]
  /\ scratch' = [scratch EXCEPT ![cur] = 0]

Retained == [NoMarker EXCEPT !.stamp = snap.stamp, !.recent = TRUE]

\* 2xx.  A marker that was rewritten meanwhile is left for the next pass.
Accepted ==
  /\ ServerStores
  /\ IF Exists(marker[cur]) /\ ~Unchanged(snap) THEN NextMarker
     ELSE IF mode = "resident" THEN WriteNext(NoMarker, "next")
     ELSE WriteNext(IF snap.final THEN NoMarker ELSE Retained, "release")
  /\ UNCHANGED <<setting, hooks, marker, idle, mode, rejected, ghosts>>

\* 409 to a chunk that is not the first: the scratch file is gone.
Resync ==
  /\ pc = "sending" /\ offset = 1 /\ scratch[cur] = 0 /\ ~retried
  /\ offset' = 0 /\ retried' = TRUE
  /\ IF Unchanged(snap)
     THEN Write([snap EXCEPT !.sent = 0], "send")
     ELSE UNCHANGED <<pc, write>>
  /\ UNCHANGED <<setting, hooks, marker, idle, mode, todo, cur, snap, body, rejected, server, ghosts>>

\* holdAndDefer: a marker nobody touched for a week goes, any other is held
\* back, and no attempt counts.
HoldAndDefer(transport) ==
  LET then == IF transport /\ mode = "drain" THEN "stop" ELSE "next" IN
  IF cur \in idle THEN WriteNext(NoMarker, then)
  ELSE IF Exists(marker[cur]) /\ Unchanged(snap)
       THEN WriteNext([marker[cur] EXCEPT !.held = TRUE], then)
       ELSE IF transport THEN OnTransport ELSE NextMarker

\* 404, and 409 to a first chunk or once more.
NotReady ==
  /\ pc = "sending" /\ "conflict" \in setting.faults
  /\ offset = 1 /\ scratch[cur] = 0 => retried
  /\ HoldAndDefer(FALSE)
  /\ UNCHANGED <<setting, hooks, marker, idle, mode, rejected, server, ghosts>>

\* 429, and requests or answers that get lost.
Unreachable ==
  /\ pc = "sending" /\ "network" \in setting.faults
  /\ \/ UNCHANGED server
     \/ /\ setting.chunked /\ offset = 0
        /\ scratch' = [scratch EXCEPT ![cur] = body] /\ UNCHANGED <<stored, mixed>>
     \/ ServerStores
  /\ HoldAndDefer(TRUE)
  /\ UNCHANGED <<setting, hooks, marker, idle, mode, rejected, ghosts>>

\* 401: the marker stays as it is, unless nobody touched it for a week.
Unauthorized ==
  /\ pc = "sending" /\ "unauthorized" \in setting.faults
  /\ IF cur \in idle THEN WriteNext(NoMarker, "stop") ELSE StopPass
  /\ rejected' = (mode = "resident")
  /\ UNCHANGED <<setting, hooks, marker, idle, mode, server, ghosts>>

\* 5xx.
ServerFails ==
  /\ pc = "sending" /\ ("error" \in setting.faults \/ cur \in setting.poison)
  /\ RecordFailure(snap, TRUE)
  /\ UNCHANGED <<setting, hooks, mode, rejected, server, reported, refused, raced>>

\* 413 and the other 4xx: the marker goes, rewritten or not.
Refused ==
  /\ pc = "sending" /\ "reject" \in setting.faults
  /\ Delete(cur)
  /\ refused' = refused \cup {cur}
  /\ NextMarker
  /\ UNCHANGED <<setting, hooks, mode, rejected, server, reported, failures, raced>>

\* clearMarkerDeferrals: the held markers are listed.
BeginRelease ==
  /\ pc' = "releasing" /\ Processed(cur) /\ Forget
  /\ listed' = [s \in Session |-> IF marker'[s].dirty /\ marker'[s].held
                                  THEN marker'[s].stamp ELSE 0]

\* One of them is read again, and left alone if a hook has rewritten it.
Release(s) ==
  /\ pc = "releasing" /\ listed[s] # 0
  /\ listed' = [listed EXCEPT ![s] = 0]
  /\ IF marker[s].stamp = listed[s] /\ marker[s].held
     THEN /\ pc' = "writing" /\ copy' = [marker[s] EXCEPT !.held = FALSE] /\ after' = "lift"
          /\ seen' = marker[s].stamp /\ cur' = s
     ELSE UNCHANGED <<pc, copy, after, seen, cur>>
  /\ UNCHANGED <<setting, hooks, marker, idle, mode, todo, snap, body, offset, retried, rejected,
                 server, ghosts>>

ReleaseEnds ==
  /\ pc = "releasing" /\ \A s \in Session : listed[s] = 0
  /\ pc' = "select"
  /\ UNCHANGED <<setting, hooks, marker, idle, mode, todo, upload, write, rejected, server, ghosts>>

\* After a write that does not end the work on a marker.
Resumes(stage) ==
  /\ pc' = stage /\ copy' = NoMarker /\ after' = "next" /\ seen' = 0
  /\ UNCHANGED <<todo, upload, listed>>

\* The rename, or the rm.  To set a hold or lift it leaves the time of the file.
ShipperWrites ==
  /\ pc = "writing"
  /\ marker' = [marker EXCEPT ![cur] = copy]
  /\ raced' = [raced EXCEPT ![cur] =
                 IF marker[cur].stamp # seen THEN @ \cup {"shipper"} ELSE @]
  /\ failures' = [failures EXCEPT ![cur] = IF copy.dirty THEN @ ELSE 0]
  /\ idle' = IF after = "lift" \/ copy = [marker[cur] EXCEPT !.held = TRUE]
             THEN idle ELSE idle \ {cur}
  /\ CASE after = "send" -> Resumes("sending")
       [] after = "lift" -> Resumes("releasing")
       [] after = "release" -> BeginRelease
       [] after = "stop" -> StopPass
       [] after = "next" -> NextMarker
  /\ UNCHANGED <<setting, hooks, mode, rejected, server, reported, refused>>

\* The shipper is killed, its lease is lost, or the pass runs into its cap.
Abort ==
  /\ "crash" \in setting.faults /\ pc # "idle"
  /\ StopPass
  /\ rejected' = FALSE
  /\ UNCHANGED <<setting, hooks, marker, idle, mode, server, ghosts>>

-----------------------------------------------------------------------------
(* Time.                                                                   *)

\* Time does to a copy of a marker what it does to the marker.
Everywhere(Op(_)) ==
  /\ marker' = [s \in Session |-> Op(marker[s])]
  /\ todo' = [s \in Session |-> Op(todo[s])]
  /\ hook' = [s \in Session |-> [h \in Slot |-> [hook[s][h] EXCEPT !.prior = Op(@)]]]
  /\ snap' = Op(snap) /\ copy' = Op(copy)

HoldsLapse ==
  /\ \E s \in Session : marker[s].held
  /\ LET Lapse(m) == [m EXCEPT !.held = FALSE] IN Everywhere(Lapse)
  /\ UNCHANGED <<setting, turns, writes, idle, pc, mode, cur, body, offset, retried, after,
                 seen, listed, rejected, server, ghosts>>

\* SHIP_INTERVAL_MS since the last upload, or IDLE_AFTER_MS since the last hook.
CadencePasses ==
  /\ \E s \in Session : marker[s].recent
  /\ LET Lapse(m) == [m EXCEPT !.recent = FALSE] IN Everywhere(Lapse)
  /\ UNCHANGED <<setting, turns, writes, idle, pc, mode, cur, body, offset, retried, after,
                 seen, listed, rejected, server, ghosts>>

WeekPasses(s) ==
  /\ "idle" \in setting.faults /\ Exists(marker[s]) /\ s \notin idle
  /\ pc = "idle" /\ \A h \in Slot : hook[s][h] = NoHook
  /\ idle' = idle \cup {s}
  /\ UNCHANGED <<setting, hooks, marker, shipper, server, ghosts>>

Reprobe ==
  /\ rejected
  /\ rejected' = FALSE
  /\ UNCHANGED <<setting, hooks, marker, idle, pc, mode, todo, upload, write, server, ghosts>>

\* Hours after the last chunk; at any time if the server is restarted.
ScratchSwept(s) ==
  /\ "conflict" \in setting.faults /\ scratch[s] # 0
  /\ pc = "idle" \/ "crash" \in setting.faults
  /\ scratch' = [scratch EXCEPT ![s] = 0]
  /\ UNCHANGED <<setting, hooks, marker, idle, shipper, stored, mixed, ghosts>>

-----------------------------------------------------------------------------
PassBegins == \E how \in Mode, force \in BOOLEAN : Begin(how, force)

Answered == ChunkAcked \/ Accepted \/ Resync \/ NotReady \/ Unreachable \/ Unauthorized
            \/ ServerFails \/ Refused

Next ==
  \/ \E s \in setting.sessions :
       \/ \E h \in Slot :
            \/ \E kind \in {"stop", "finalStop"} : StopReads(s, h, kind)
            \/ EndReads(s, h) \/ HookWrites(s, h) \/ HookDies(s, h)
       \/ Collect(s) \/ TranscriptMissing(s) \/ Snapshot(s) \/ Release(s)
       \/ WeekPasses(s) \/ ScratchSwept(s)
  \/ PassBegins \/ PassEnds \/ ReadFails \/ ReadTranscript
  \/ Answered \/ ShipperWrites \/ ReleaseEnds \/ Abort
  \/ HoldsLapse \/ CadencePasses \/ Reprobe

Spec == Init /\ [][Next]_vars

(***************************************************************************)
(* Fairness.  The resident shipper loops for ever and hooks keep starting  *)
(* drains; timers run out; the server does not put off its verdict for     *)
(* ever (a verdict is any answer but 404, 409, 429 and 401).               *)
(***************************************************************************)
FairSpec ==
  /\ Spec
  /\ WF_vars(PassBegins) /\ WF_vars(PassEnds)
  /\ \A s \in Session :
       WF_vars(s \in setting.sessions /\ (Collect(s) \/ Snapshot(s) \/ Release(s)))
  /\ WF_vars(ReadTranscript) /\ WF_vars(ShipperWrites) /\ WF_vars(ReleaseEnds)
  /\ WF_vars(Answered) /\ SF_vars(ChunkAcked) /\ SF_vars(Resync)
  /\ SF_vars(Accepted \/ ServerFails \/ Refused)
  /\ WF_vars(HoldsLapse) /\ WF_vars(CadencePasses) /\ WF_vars(Reprobe)

-----------------------------------------------------------------------------
(* Properties.                                                             *)

\* The server never assembles a body from the chunks of two transcripts: an
\* upload resumes only where the same body stopped (uploadWithResume,
\* withoutResumeState).
WholeTranscript == mixed = {}

\* A session stops being owed an upload only when the newest turn a hook
\* reported is stored, or for a cause: a verdict of the server, the last
\* attempt, a week without activity, a transcript that is gone, a hook that
\* wrote between the shipper's last look at the marker and its write
\* (processMarker), or a SessionEnd that writes the uploaded marker it had read
\* over the one of a Stop that came in between (markShipFinal).
LostForCause ==
  [][\A s \in Session : marker[s].dirty /\ ~marker'[s].dirty =>
       \/ stored[s] >= reported[s]
       \/ s \in refused' \cup idle
       \/ failures'[s] >= MaxAttempts
       \/ failures'[s] > 0 /\ "hook" \in raced[s]
       \/ pc = "select" /\ "missing" \in setting.faults
       \/ raced'[s] \cap {"shipper", "end"} # {}]_vars

\* The marker of this session is replaced by a writer that had last looked at
\* it before a hook wrote the one that is replaced.
Overtaken(s) ==
  \/ \E h \in Slot : hook[s][h] # NoHook /\ hook'[s][h] = NoHook /\ Behind(s, h)
  \/ pc = "writing" /\ s = cur /\ marker[s].stamp # seen

\* The end of a session is not forgotten before its last upload, so that the
\* cadence does not hold that one back, neither by an upload that was under way
\* when it ended nor by a later hook (markShipFinal, retainShipped).  Nothing
\* protects it from a writer that had read the marker before: the Stop hook of
\* an agent that does not wait for its hooks, or the shipper in its last step.
FinalSurvives ==
  [][\A s \in Session : marker[s].final /\ Exists(marker'[s]) =>
       marker'[s].final \/ Overtaken(s)]_vars

\* A transcript that is owed is uploaded or given up in the end: no hold, no
\* cadence and no other session's failures stand in its way for ever, and
\* hooks that rewrite the marker do not either (shipPass, selectMarkers).
OwedIsSettled ==
  "crash" \in setting.faults
  \/ \A s \in Session : marker[s].dirty ~> ~marker[s].dirty
=============================================================================
