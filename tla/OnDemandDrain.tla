---------------------------- MODULE OnDemandDrain ----------------------------
(***************************************************************************)
(* Delivery on an on-demand install of the hook CLI: no daemon runs, a     *)
(* terminal hook (Stop, SessionEnd, ...) starts a short-lived `aiot drain` *)
(* unless somebody is already draining.  Modelled: the hook's last steps   *)
(* (hook-entry.ts), the spawn decision (lease.ts, claimDrainerSpawn), the  *)
(* drain pass (commands/drain.ts) with the flush and ship it makes, and an *)
(* `aiot import` that holds the transcripts lease meanwhile.               *)
(*                                                                         *)
(* A hook h puts one row in the queue and touches one ship marker, both    *)
(* called h.  A row or marker with a retry time in the future is "held     *)
(* back".  The delivery leases are used through what ExclusiveLease        *)
(* promises (see LeasesAsPromised): a row has an owner, it may lapse, and  *)
(* a free or lapsed row can be taken.                                      *)
(***************************************************************************)
EXTENDS Naturals, FiniteSets

CONSTANTS
  Hook,             \* terminal hooks
  Final,            \* those of a SessionEnd: they bypass the spawn hold
  Drainer,          \* drain passes that may run at the same time
  Command,          \* commands a user types: `aiot import`, `aiot drain`
  BatchSize,        \* BATCH_SIZE of the flusher
  MaxRounds,        \* MAX_ROUNDS_PER_LEASE
  MaxAcquisitions,  \* MAX_LEASE_ACQUISITIONS
  MaxStreak,        \* bound on the failure streak
  Scenario,         \* who takes part, and what may go wrong: see Fault
  None

Fault == {"suspend",    \* a live holder stops renewing for a while
          "crash",      \* a process is killed, a release fails
          "spawn",      \* the drainer cannot be started
          "transport",  \* the server is unreachable or failing
          "token",      \* no token, or a rejected one
          "cap",        \* a pass runs into its wall-clock cap
          "slow"}       \* a spawned drainer starts after its claim ran out

ASSUME HooksOk == Final \subseteq Hook
ASSUME ProcsOk == Drainer \cap Command = {} /\ None \notin Drainer \cup Command
ASSUME BoundsOk == /\ {BatchSize, MaxRounds, MaxAcquisitions} \subseteq Nat \ {0}
                   /\ MaxStreak \in Nat
ASSUME ScenariosOk ==
  Scenario \subseteq [hooks : SUBSET Hook, commands : SUBSET Command, faults : SUBSET Fault]

VARIABLES
  faults,       \* what may go wrong in this behaviour
  hook,         \* hook[h]: how far the hook has come
  queue,        \* rows of events_queue
  rowsHeld,     \* rows held back (next_attempt_at)
  markers,      \* dirty ship markers
  markersHeld,  \* markers held back (next_attempt_at)
  known,        \* sessions the server has, from their events
  claim,        \* spawn_claimed_until is in the future
  hold,         \* spawn_hold_until is in the future
  streak,       \* failure_streak
  rejected,     \* the token in use is the one recorded as rejected
  owner,        \* owner[k]: who wrote the delivery_lease row of kind k last
  lapsed,       \* kinds whose row has an owner but has run out
  pc,           \* pc[p]: where a pass or an import is
  batch,        \* batch[p]: rows or markers the pass is working on
  run,          \* run[p]: the local variables of the pass
  setback       \* a failure may have left work to a later hook (ghost)

data == <<queue, rowsHeld, markers, markersHeld, known>>
state == <<claim, hold, streak, rejected>>
lease == <<owner, lapsed>>
vars == <<faults, hook, data, state, lease, pc, batch, run, setback>>

-----------------------------------------------------------------------------
Kind == {"events", "transcripts"}

Proc == Drainer \cup Command

\* Where a pass is while it holds its lease.
Leased == {"begin", "flush", "post", "answer", "ship",
           "upload", "uploading", "again", "release"}

Stage == Leased \cup {"off", "start", "acquire", "look", "report", "exit",
                      "wait", "import", "after", "over"}

Stop == {"done", "no_token", "unauthorized", "transport", "cap", "lease_lost", "busy"}

\* The locals of drainPass at its start.
Fresh == [round |-> 0, acquisition |-> 0, took |-> FALSE, covers |-> FALSE,
          added |-> FALSE, stop |-> "busy", flushed |-> FALSE, seen |-> 0]

TypeOK ==
  /\ faults \subseteq Fault
  /\ hook \in [Hook -> {"idle", "queued", "marked", "claimed", "over"}]
  /\ rowsHeld \subseteq queue /\ queue \subseteq Hook
  /\ markersHeld \subseteq markers /\ markers \subseteq Hook
  /\ known \subseteq Hook
  /\ {claim, hold, rejected, setback} \subseteq BOOLEAN
  /\ streak \in 0..MaxStreak
  /\ owner \in [Kind -> Proc \cup {None}]
  /\ lapsed \subseteq {k \in Kind : owner[k] # None}
  /\ pc \in [Proc -> Stage]
  /\ batch \in [Proc -> SUBSET Hook]
  /\ run \in [Proc -> [round : 0..MaxRounds, acquisition : 0..MaxAcquisitions,
                       took : BOOLEAN, covers : BOOLEAN, added : BOOLEAN,
                       stop : Stop, flushed : BOOLEAN, seen : 0..MaxStreak]]

Init ==
  /\ \E s \in Scenario :
       /\ faults = s.faults
       /\ hook = [h \in Hook |-> IF h \in s.hooks THEN "idle" ELSE "over"]
       /\ pc = [p \in Proc |-> IF p \in Command \ s.commands THEN "over" ELSE "off"]
  /\ queue = {} /\ rowsHeld = {} /\ markers = {} /\ markersHeld = {} /\ known = {}
  /\ claim = FALSE /\ hold = FALSE /\ streak = 0 /\ rejected = FALSE
  /\ owner = [k \in Kind |-> None] /\ lapsed = {}
  /\ batch = [p \in Proc |-> {}]
  /\ run = [p \in Proc |-> Fresh]
  /\ setback = FALSE

GoTo(p, s) == pc' = [pc EXCEPT ![p] = s]

HookGoesTo(h, s) == hook' = [hook EXCEPT ![h] = s]

-----------------------------------------------------------------------------
(* The leases, as ExclusiveLease describes them.                           *)

Held(k) == owner[k] # None /\ k \notin lapsed

\* The kinds in p's heldKinds, whether or not it still owns their rows.
Kinds(p) == CASE pc[p] \in Leased -> {"events"} \cup (IF run[p].covers THEN {"transcripts"} ELSE {})
              [] pc[p] = "import" -> {"transcripts"}
              [] OTHER -> {}

\* lease.check(): every kind is still ours.
Intact(p) == \A k \in Kinds(p) : owner[k] = p

\* Slip: the acquiring UPDATE forgets its WHERE clause.
TakeableAlways(k) == TRUE

Takeable(k) == ~Held(k)

Take(p, ks) == /\ \A k \in ks : Takeable(k)
               /\ owner' = [k \in Kind |-> IF k \in ks THEN p ELSE owner[k]]
               /\ lapsed' = lapsed \ ks

\* One UPDATE renews every kind, so that they run out together; a kind added
\* since then runs out later.
Renew(p) == /\ Intact(p)
            /\ lapsed' = lapsed \ Kinds(p)
            /\ run' = [run EXCEPT ![p].added = FALSE]
            /\ UNCHANGED owner

Free(ks) == /\ owner' = [k \in Kind |-> IF k \in ks THEN None ELSE owner[k]]
            /\ lapsed' = lapsed \ ks

\* release() in the finally block; if it fails, the rows stay until they lapse.
LetGo(p) ==
  LET mine == {k \in Kinds(p) : owner[k] = p}
  IN  \/ Free(mine) /\ UNCHANGED setback
      \/ "crash" \in faults /\ mine # {} /\ setback' = TRUE /\ UNCHANGED lease

\* The row of a process that is gone, or could not release it, runs out.
LapseAbandoned(k) ==
  /\ Held(k) /\ k \notin Kinds(owner[k])
  /\ Free({k})
  /\ UNCHANGED <<faults, hook, data, state, pc, batch, run, setback>>

\* A process sleeps past the TTL of its lease.
LapseAsleep(p) ==
  /\ "suspend" \in faults
  /\ LET mine == {k \in Kinds(p) : Held(k) /\ owner[k] = p}
     IN \E ks \in {mine} \cup (IF run[p].added THEN {mine \cap {"events"}} ELSE {}) :
          ks # {} /\ lapsed' = lapsed \cup ks
  /\ UNCHANGED <<faults, hook, data, state, owner, pc, batch, run, setback>>

-----------------------------------------------------------------------------
(* A terminal hook: queue the event, touch the marker, maybe spawn.        *)

Enqueue(h) ==
  /\ hook[h] = "idle"
  /\ HookGoesTo(h, "queued")
  /\ queue' = queue \cup {h}
  /\ UNCHANGED <<faults, rowsHeld, markers, markersHeld, known, state, lease, pc, batch, run, setback>>

Mark(h) ==
  /\ hook[h] = "queued"
  /\ HookGoesTo(h, "marked")
  /\ markers' = markers \cup {h}
  /\ UNCHANGED <<faults, queue, rowsHeld, markersHeld, known, state, lease, pc, batch, run, setback>>

\* NO_LEASE_HELD: an import that holds the transcripts does not make a drainer
\* pointless.
NoLeaseHeld == ~Held("events") /\ ~(Held("transcripts") /\ owner["transcripts"] \in Drainer)

HoldOk(h) == h \in Final \/ ~hold

\* claimDrainerSpawn wins: this hook starts a drainer.
Claim(h) ==
  /\ hook[h] = "marked"
  /\ ~claim /\ HoldOk(h) /\ NoLeaseHeld
  /\ claim' = TRUE
  /\ HookGoesTo(h, "claimed")
  /\ UNCHANGED <<faults, data, hold, streak, rejected, lease, pc, batch, run, setback>>

\* It loses: somebody else's drainer will come, or the failure hold is on and
\* the work is left to a later hook.
LeaveIt(h) ==
  /\ hook[h] = "marked"
  /\ claim \/ ~HoldOk(h) \/ ~NoLeaseHeld
  /\ setback' = (setback \/ (~claim /\ NoLeaseHeld))
  /\ HookGoesTo(h, "over")
  /\ UNCHANGED <<faults, data, state, lease, pc, batch, run>>

\* A pass of p may begin: no earlier process of that name runs or owns a row.
Idle(p) == pc[p] = "off" /\ \A k \in Kind : owner[k] # p

Spawn(h, p) ==
  /\ hook[h] = "claimed"
  /\ p \in Drainer /\ Idle(p)
  /\ HookGoesTo(h, "over")
  /\ GoTo(p, "start")
  /\ UNCHANGED <<faults, data, state, lease, batch, run, setback>>

\* No launcher, no process slot: the claim stays until it runs out.
SpawnFails(h) ==
  /\ "spawn" \in faults
  /\ hook[h] = "claimed"
  /\ HookGoesTo(h, "over")
  /\ setback' = TRUE
  /\ UNCHANGED <<faults, data, state, lease, pc, batch, run>>

\* The agent kills the hook at its deadline.
HookKilled(h) ==
  /\ "crash" \in faults
  /\ hook[h] \in {"queued", "marked", "claimed"}
  /\ HookGoesTo(h, "over")
  /\ setback' = TRUE
  /\ UNCHANGED <<faults, data, state, lease, pc, batch, run>>

-----------------------------------------------------------------------------
(* A drain pass: taking the lease.                                         *)

\* A token the server rejected is not tried again, and no lease is taken.
Start(p) ==
  /\ pc[p] = "start"
  /\ IF rejected
     THEN GoTo(p, "report") /\ run' = [run EXCEPT ![p].stop = "unauthorized"]
     ELSE GoTo(p, "acquire") /\ run' = [run EXCEPT ![p].acquisition = 1]
  /\ setback' = (setback \/ rejected)
  /\ UNCHANGED <<faults, hook, data, state, lease, batch>>

\* The events, and the transcripts if they are free.  Both UPDATEs compare with
\* one clock reading, so what happens between them changes nothing for the
\* second: they are one step.
Acquire(p) ==
  /\ pc[p] = "acquire"
  /\ Takeable("events")
  /\ LET got == {"events"} \cup {k \in {"transcripts"} : Takeable(k)}
     IN  /\ Take(p, got)
         /\ run' = [run EXCEPT ![p].covers = "transcripts" \in got, ![p].added = FALSE]
  /\ GoTo(p, "begin")
  /\ UNCHANGED <<faults, hook, data, state, batch, setback>>

\* Busy on the first try is the answer; busy later means another drainer took
\* over after we let go.  (With --wait the first try is repeated for a while.)
AcquireBusy(p) ==
  /\ pc[p] = "acquire"
  /\ ~Takeable("events")
  /\ GoTo(p, "report")
  /\ UNCHANGED <<faults, hook, data, state, lease, batch, run, setback>>

\* The pass may do all the work there is.
CleanSlate(p) == Intact(p) /\ run[p].covers /\ rowsHeld = {} /\ markersHeld = {}

\* Slip: the claim is left to run out.
BeginKeepsClaim(p) ==
  /\ pc[p] = "begin"
  /\ run' = [run EXCEPT ![p].took = TRUE, ![p].seen = streak, ![p].round = 1]
  /\ setback' = (setback /\ ~CleanSlate(p))
  /\ GoTo(p, "flush")
  /\ UNCHANGED <<faults, hook, data, state, lease, batch>>

\* The start of passBody.  A pass that may do all the work, none of which is
\* held back, makes good whatever went wrong before.
Begin(p) ==
  /\ pc[p] = "begin"
  /\ run' = [run EXCEPT ![p].took = TRUE, ![p].seen = streak, ![p].round = 1]
  /\ claim' = FALSE
  /\ setback' = (setback /\ ~CleanSlate(p))
  /\ GoTo(p, "flush")
  /\ UNCHANGED <<faults, hook, data, hold, streak, rejected, lease, batch>>

\* passBody returns s.
Return(p, s) ==
  /\ run' = [run EXCEPT ![p].stop = s]
  /\ batch' = [batch EXCEPT ![p] = {}]
  /\ GoTo(p, "release")

\* Where stopNow() is asked, or a request hangs on its signal.
AsksStopNow(p) == \/ pc[p] \in {"flush", "post", "answer", "uploading"}
                  \/ pc[p] = "upload" /\ batch[p] # {}

\* stopNow() finds the lease lost; the same for a request aborted by its loss.
LeaseLost(p) ==
  /\ AsksStopNow(p)
  /\ ~Intact(p)
  /\ Return(p, "lease_lost")
  /\ UNCHANGED <<faults, hook, data, state, lease, setback>>

Capped(p) ==
  /\ "cap" \in faults
  /\ AsksStopNow(p)
  /\ Return(p, "cap")
  /\ setback' = TRUE
  /\ UNCHANGED <<faults, hook, data, state, lease>>

-----------------------------------------------------------------------------
(* A drain pass: the events (flushOnce).                                   *)

Due == queue \ rowsHeld

Shippable == markers \ markersHeld

\* stopNow(), then the next due batch, in no particular order of hooks.
Flush(p) ==
  /\ pc[p] = "flush"
  /\ Renew(p)
  /\ IF Due = {}
     THEN GoTo(p, "ship") /\ UNCHANGED batch
     ELSE /\ \E b \in SUBSET Due :
               /\ Cardinality(b) <= BatchSize
               /\ Cardinality(b) = BatchSize \/ b = Due
               /\ batch' = [batch EXCEPT ![p] = b]
          /\ GoTo(p, "post")
  /\ UNCHANGED <<faults, hook, data, state, setback>>

\* Enrichment took its time: shouldStop is asked again before the request.
Post(p) ==
  /\ pc[p] = "post"
  /\ Renew(p)
  /\ GoTo(p, "answer")
  /\ UNCHANGED <<faults, hook, data, state, batch, setback>>

\* 2xx: the rows go, and whatever was held back while the server did not
\* answer is due again.
Sent(p) ==
  /\ pc[p] = "answer"
  /\ known' = known \cup batch[p]
  /\ queue' = queue \ batch[p]
  /\ rowsHeld' = {} /\ markersHeld' = {}
  /\ rejected' = FALSE
  /\ run' = [run EXCEPT ![p].flushed = TRUE]
  /\ batch' = [batch EXCEPT ![p] = {}]
  /\ GoTo(p, "flush")
  /\ UNCHANGED <<faults, hook, markers, claim, hold, streak, lease, setback>>

\* No connection, a timeout, 429, 5xx, another 4xx: the rows are held back.
PostFails(p) ==
  /\ "transport" \in faults
  /\ pc[p] = "answer"
  /\ rowsHeld' = rowsHeld \cup (batch[p] \cap queue)
  /\ Return(p, "transport")
  /\ setback' = TRUE
  /\ UNCHANGED <<faults, hook, queue, markers, markersHeld, known, state, lease>>

\* 401 to a request of the pass: nothing is held back, the token is remembered.
Unauthorized(p) ==
  /\ "token" \in faults
  /\ pc[p] \in {"answer", "uploading"}
  /\ rejected' = TRUE
  /\ Return(p, "unauthorized")
  /\ setback' = TRUE
  /\ UNCHANGED <<faults, hook, data, claim, hold, streak, lease>>

\* Nobody is logged in, which flushOnce and shipPass notice with work in hand.
NoToken(p) ==
  /\ "token" \in faults
  /\ pc[p] \in {"post", "upload"} /\ batch[p] # {}
  /\ Return(p, "no_token")
  /\ setback' = TRUE
  /\ UNCHANGED <<faults, hook, data, state, lease>>

-----------------------------------------------------------------------------
(* A drain pass: the transcripts (tryAdd, shipPass).                       *)

\* The transcripts lease is held or can be added; the markers are read.
Ship(p) ==
  /\ pc[p] = "ship"
  /\ IF run[p].covers
     THEN UNCHANGED <<lease, run>>
     ELSE Take(p, {"transcripts"}) /\ run' = [run EXCEPT ![p].covers = TRUE, ![p].added = TRUE]
  /\ batch' = [batch EXCEPT ![p] = Shippable]
  /\ GoTo(p, "upload")
  /\ UNCHANGED <<faults, hook, data, state, setback>>

\* Somebody else is on the transcripts, or the loss of the lease was noticed.
LeaveTranscripts(p) ==
  /\ pc[p] = "ship" /\ ~run[p].covers
  /\ ~Takeable("transcripts") \/ ~Intact(p)
  /\ Return(p, "done")
  /\ UNCHANGED <<faults, hook, data, state, lease, setback>>

Upload(p) ==
  /\ pc[p] = "upload" /\ batch[p] # {}
  /\ Renew(p)
  /\ GoTo(p, "uploading")
  /\ UNCHANGED <<faults, hook, data, state, batch, setback>>

\* A successful upload also clears the retry times of the other markers.
Uploaded(p, m) ==
  /\ pc[p] = "uploading"
  /\ m \in batch[p] \cap known
  /\ markers' = markers \ {m}
  /\ markersHeld' = {}
  /\ batch' = [batch EXCEPT ![p] = @ \ {m}]
  /\ GoTo(p, "upload")
  /\ UNCHANGED <<faults, hook, queue, rowsHeld, known, state, lease, run, setback>>

\* 404: the events of the session have not arrived; the sweep goes on.
SessionNotReady(p, m) ==
  /\ pc[p] = "uploading"
  /\ m \in batch[p] \ known
  /\ markersHeld' = markersHeld \cup ({m} \cap markers)
  /\ batch' = [batch EXCEPT ![p] = @ \ {m}]
  /\ GoTo(p, "upload")
  /\ UNCHANGED <<faults, hook, queue, rowsHeld, markers, known, state, lease, run, setback>>

UploadFails(p, m) ==
  /\ "transport" \in faults
  /\ pc[p] = "uploading"
  /\ m \in batch[p]
  /\ markersHeld' = markersHeld \cup ({m} \cap markers)
  /\ Return(p, "transport")
  /\ setback' = TRUE
  /\ UNCHANGED <<faults, hook, queue, rowsHeld, markers, known, state, lease>>

-----------------------------------------------------------------------------
(* A drain pass: looking again, letting go, reporting.                     *)

\* A marker is work of this process if it holds the transcripts, or held them
\* last, or nobody does.
MoreWork(p) ==
  \/ Due # {}
  \/ (run[p].covers \/ ~Held("transcripts")) /\ Shippable # {}

ShipDone(p) ==
  /\ pc[p] = "upload" /\ batch[p] = {}
  /\ GoTo(p, "again")
  /\ UNCHANGED <<faults, hook, data, state, lease, batch, run, setback>>

\* Slip: one round too many.
NextRoundOneMore(p) ==
  /\ pc[p] = "again"
  /\ MoreWork(p) /\ run[p].round <= MaxRounds
  /\ run' = [run EXCEPT ![p].round = @ + 1]
  /\ GoTo(p, "flush")
  /\ UNCHANGED <<faults, hook, data, state, lease, batch, setback>>

\* Something landed while we were shipping.
NextRound(p) ==
  /\ pc[p] = "again"
  /\ MoreWork(p) /\ run[p].round < MaxRounds
  /\ run' = [run EXCEPT ![p].round = @ + 1]
  /\ GoTo(p, "flush")
  /\ UNCHANGED <<faults, hook, data, state, lease, batch, setback>>

PassDone(p) ==
  /\ pc[p] = "again"
  /\ ~MoreWork(p) \/ run[p].round = MaxRounds
  /\ Return(p, "done")
  /\ UNCHANGED <<faults, hook, data, state, lease, setback>>

Release(p) ==
  /\ pc[p] = "release"
  /\ LetGo(p)
  /\ GoTo(p, IF run[p].stop = "done" THEN "look" ELSE "report")
  /\ UNCHANGED <<faults, hook, data, state, batch, run>>

\* Slip: the check after the release is "simplified" away.
LookAgainNever(p) ==
  /\ pc[p] = "look"
  /\ GoTo(p, "report")
  /\ UNCHANGED <<faults, hook, data, state, lease, batch, run, setback>>

\* The check after the release: whoever comes later finds the lease free.
LookAgain(p) ==
  /\ pc[p] = "look"
  /\ IF MoreWork(p) /\ run[p].acquisition < MaxAcquisitions
     THEN /\ run' = [run EXCEPT ![p].acquisition = @ + 1]
          /\ GoTo(p, "acquire")
          /\ UNCHANGED setback
     ELSE /\ GoTo(p, "report")
          /\ setback' = (setback \/ MoreWork(p))
          /\ UNCHANGED run
  /\ UNCHANGED <<faults, hook, data, state, lease, batch>>

\* The cap may also strike here.
CappedLook(p) ==
  /\ "cap" \in faults
  /\ pc[p] = "look"
  /\ GoTo(p, "report")
  /\ setback' = TRUE
  /\ UNCHANGED <<faults, hook, data, state, lease, batch, run>>

Failing == {"transport", "no_token", "unauthorized"}

\* The failure streak and the hold on spawns, set after the lease is let go.
Report(p) ==
  /\ pc[p] = "report"
  /\ LET s == run[p].stop
     IN CASE s \in Failing ->
               /\ hold' = TRUE
               /\ streak' = IF s # "transport" THEN streak
                            ELSE IF run[p].seen < MaxStreak THEN run[p].seen + 1
                            ELSE MaxStreak
          [] s \notin Failing /\ (run[p].flushed \/ (s = "done" /\ queue = {})) ->
               hold' = FALSE /\ streak' = 0
          [] OTHER -> UNCHANGED <<hold, streak>>
  /\ GoTo(p, "exit")
  /\ UNCHANGED <<faults, hook, data, claim, rejected, lease, batch, run, setback>>

\* Slip: only a pass that did something touches the claim.
ExitKeepsClaim(p) ==
  /\ pc[p] = "exit"
  /\ run' = [run EXCEPT ![p] = Fresh]
  /\ GoTo(p, "off")
  /\ UNCHANGED <<faults, hook, data, state, lease, batch, setback>>

\* A pass that never took the lease hands back the claim set for it.
Exit(p) ==
  /\ pc[p] = "exit"
  /\ claim' = (claim /\ run[p].took)
  /\ run' = [run EXCEPT ![p] = Fresh]
  /\ GoTo(p, "off")
  /\ UNCHANGED <<faults, hook, data, hold, streak, rejected, lease, batch, setback>>

-----------------------------------------------------------------------------
(* What a user types, once each: `aiot drain`, or `aiot import`, which     *)
(* holds the transcripts and ends with a drain pass.                       *)

\* One more drain pass, for which no hook claimed anything.
DrainByHand(c, p) ==
  /\ c \in Command /\ pc[c] = "off"
  /\ p \in Drainer /\ Idle(p)
  /\ pc' = [pc EXCEPT ![c] = "over", ![p] = "start"]
  /\ UNCHANGED <<faults, hook, data, state, lease, batch, run, setback>>

Import(c) ==
  /\ c \in Command /\ pc[c] = "off"
  /\ GoTo(c, "wait")
  /\ UNCHANGED <<faults, hook, data, state, lease, batch, run, setback>>

ImportStarts(c) ==
  /\ pc[c] = "wait"
  /\ Take(c, {"transcripts"})
  /\ GoTo(c, "import")
  /\ UNCHANGED <<faults, hook, data, state, batch, run, setback>>

ImportGivesUp(c) ==
  /\ pc[c] = "wait" /\ ~Takeable("transcripts")
  /\ GoTo(c, "over")
  /\ UNCHANGED <<faults, hook, data, state, lease, batch, run, setback>>

\* The import returns: it is done, or it lost the lease.
ImportEnds(c) ==
  /\ pc[c] = "import"
  /\ LetGo(c)
  /\ GoTo(c, "after")
  /\ UNCHANGED <<faults, hook, data, state, batch, run>>

\* It throws: the lease is freed, the pass after it is skipped.
ImportThrows(c) ==
  /\ "crash" \in faults
  /\ pc[c] = "import"
  /\ Free({k \in Kinds(c) : owner[k] = c})
  /\ GoTo(c, "over")
  /\ setback' = TRUE
  /\ UNCHANGED <<faults, hook, data, state, batch, run>>

PostDrain(c, p) ==
  /\ pc[c] = "after"
  /\ p \in Drainer /\ Idle(p)
  /\ pc' = [pc EXCEPT ![c] = "over", ![p] = "start"]
  /\ UNCHANGED <<faults, hook, data, state, lease, batch, run, setback>>

-----------------------------------------------------------------------------
(* Crashes and the passing of time.                                        *)

\* The process is gone; what it wrote stays.
Crash(p) ==
  /\ "crash" \in faults
  /\ pc[p] \notin {"off", "over"}
  /\ GoTo(p, IF p \in Command THEN "over" ELSE "off")
  /\ batch' = [batch EXCEPT ![p] = {}]
  /\ run' = [run EXCEPT ![p] = Fresh]
  /\ setback' = TRUE
  /\ UNCHANGED <<faults, hook, data, state, lease>>

\* Passes on their way to their first lease.
Starting == {p \in Drainer : pc[p] \in {"start", "acquire"} /\ ~run[p].took}

Claiming == {h \in Hook : hook[h] = "claimed"}

\* Ten seconds are enough for the drainer to take its lease, or they are not.
ClaimExpires ==
  /\ claim
  /\ Starting \cup Claiming = {} \/ "slow" \in faults
  /\ claim' = FALSE
  /\ UNCHANGED <<faults, hook, data, hold, streak, rejected, lease, pc, batch, run, setback>>

HoldExpires ==
  /\ hold
  /\ hold' = FALSE
  /\ UNCHANGED <<faults, hook, data, claim, streak, rejected, lease, pc, batch, run, setback>>

\* A later re-probe, or another token after `aiot login`.
TokenTriedAgain ==
  /\ rejected
  /\ rejected' = FALSE
  /\ UNCHANGED <<faults, hook, data, claim, hold, streak, lease, pc, batch, run, setback>>

RetryTimeComes ==
  \/ /\ rowsHeld # {}
     /\ \E h \in rowsHeld : rowsHeld' = rowsHeld \ {h}
     /\ UNCHANGED <<faults, hook, queue, markers, markersHeld, known, state, lease, pc, batch, run, setback>>
  \/ /\ markersHeld # {}
     /\ \E m \in markersHeld : markersHeld' = markersHeld \ {m}
     /\ UNCHANGED <<faults, hook, queue, markers, rowsHeld, known, state, lease, pc, batch, run, setback>>

\* What p does next, left alone.
Proceed(p) ==
  \/ Start(p) \/ Acquire(p) \/ AcquireBusy(p) \/ Begin(p)
  \/ LeaseLost(p) \/ Capped(p) \/ Flush(p) \/ Post(p) \/ Sent(p) \/ PostFails(p)
  \/ Unauthorized(p) \/ NoToken(p) \/ Ship(p) \/ LeaveTranscripts(p) \/ Upload(p)
  \/ \E m \in Hook : Uploaded(p, m) \/ SessionNotReady(p, m) \/ UploadFails(p, m)
  \/ ShipDone(p) \/ NextRound(p) \/ PassDone(p) \/ Release(p)
  \/ LookAgain(p) \/ CappedLook(p) \/ Report(p) \/ Exit(p)
  \/ ImportStarts(p) \/ ImportGivesUp(p) \/ ImportEnds(p) \/ ImportThrows(p)
  \/ \E d \in Drainer : PostDrain(p, d)

HookProceeds(h) ==
  \/ Mark(h) \/ Claim(h) \/ LeaveIt(h) \/ SpawnFails(h)
  \/ \E p \in Drainer : Spawn(h, p)

Next ==
  \/ \E h \in Hook : Enqueue(h) \/ HookProceeds(h) \/ HookKilled(h)
  \/ \E p \in Proc : Proceed(p) \/ Crash(p)
  \/ \E c \in Command : Import(c) \/ \E p \in Drainer : DrainByHand(c, p)
  \/ \E k \in Kind : LapseAbandoned(k)
  \/ \E p \in Proc : LapseAsleep(p)
  \/ ClaimExpires \/ HoldExpires \/ TokenTriedAgain \/ RetryTimeComes

Spec == Init /\ [][Next]_vars

(* Fairness: a process that is not killed goes on (its requests have time- *)
(* outs), and so does a hook; nobody has to type a command, and no failure *)
(* has to happen or to end.                                                *)
FairSpec == /\ Spec
            /\ \A p \in Proc : WF_vars(Proceed(p))
            /\ \A h \in Hook : WF_vars(HookProceeds(h))
            /\ \A k \in Kind : WF_vars(LapseAbandoned(k))

-----------------------------------------------------------------------------
(* Properties.                                                             *)

Quiet == /\ \A h \in Hook : hook[h] \in {"idle", "over"}
         /\ \A p \in Proc : pc[p] \in {"off", "over"}

\* When every process is gone and nothing failed since the last pass that
\* could do all the work, nothing is left behind: a hook that spawned nothing
\* because somebody was already draining had its row and marker delivered
\* (drain.ts, the two re-checks of drainPass: "by then a hook arriving later
\* finds the lease free and spawns its own drainer").  It does not hold when a
\* process sleeps past the TTL of its lease and wakes up still owning it.
NoStrandedWork ==
  "suspend" \notin faults /\ Quiet /\ ~setback => queue = {} /\ markers = {}

\* Nor is anything left that would keep the next hook from spawning, neither
\* the claim nor a lease, whoever crashed or failed before that pass.
NothingBlocksNextHook ==
  Quiet /\ ~setback => ~claim /\ \A k \in Kind : ~Held(k)

\* If processes do get started and run to their end, a claim stands only while
\* some process has yet to take the lease or hand the claim back: drain.ts, "or
\* every hook inside the 10 s window is stranded".
ClaimIsAnswered ==
  {"crash", "spawn"} \cap faults = {} /\ claim =>
    Claiming # {} \/ \E p \in Drainer : pc[p] # "off" /\ ~run[p].took

Abstract == INSTANCE ExclusiveLease
  WITH owner <- [k \in Kind |-> IF Held(k) THEN {owner[k]} ELSE {}]

\* The leases are used as ExclusiveLease promises and no more is asked of it,
\* so what holds here holds with the rows and renewals of DeliveryLease.
LeasesAsPromised == Abstract!Spec

\* A queued row leaves the queue without the help of a later hook, unless
\* something failed; whoever looked last before a spawn was declined.
RowsLeave == \A h \in Hook : h \in queue ~> h \notin queue \/ setback
=============================================================================
