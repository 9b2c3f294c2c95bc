----------------------------- MODULE EventQueue -----------------------------
(***************************************************************************)
(* The event queue of the hook CLI and what may happen to a row of it:     *)
(* hooks insert rows (lib/queue.ts), the resident flusher and on-demand    *)
(* drainers take the oldest batch, post it and account for the answer      *)
(* (flusher.ts, lib/queue-reader.ts, commands/drain.ts).                   *)
(*                                                                         *)
(* An event is the number of its timestamp, so the order of the numbers is *)
(* ORDER BY ts, and the events older than MAX_AGE_MS are those up to       *)
(* `horizon`.  A token is the number of the login that created it, 0 for   *)
(* none.  One flush runs at a time: DeliveryLease is about that.  The      *)
(* statements of a flush are separate steps, so that hooks, logins, the    *)
(* server and crashes come in between.                                     *)
(***************************************************************************)
EXTENDS Integers, FiniteSets

CONSTANTS
  MaxTs,        \* events are 1..MaxTs
  Scenario,     \* the settings to look at: see Setting
  BatchSize,    \* BATCH_SIZE
  MaxAttempts,  \* MAX_ATTEMPTS
  MaxEvents,    \* queueMaxEvents()
  FreeThrows,   \* THROW_COUNT_BEFORE_ATTEMPTS
  MaxLogins     \* bound on the number of logins

Fault == {"crash",    \* a worker is killed, runs into its cap or loses its lease
          "throw",    \* a statement of a flush throws now and then
          "network",  \* requests and answers get lost, or are never given
          "throttle", \* 429
          "revoke",   \* the server stops accepting a token
          "login",    \* the user logs in, again or at last
          "logout",   \* ... or out
          "reject",   \* 4xx and 5xx although no poison is in the batch
          "again",    \* a hook queues an event it had queued before
          "bytes"}    \* the queue file exceeds its byte cap

Worker == {"resident", "drainer"}

Event == 1..MaxTs

Setting == [workers  : SUBSET Worker, \* those of the install
            corrupt  : SUBSET Event,  \* stored payload is not JSON
            poison   : SUBSET Event,  \* the server rejects the batch they are in
            throwers : SUBSET Event,  \* enrichment or serialisation throws
            faults   : SUBSET Fault]

ASSUME EventsOk == MaxTs \in Nat
ASSUME ScenarioOk == Scenario \subseteq Setting
ASSUME BoundsOk == /\ {BatchSize, MaxAttempts, MaxEvents} \subseteq Nat \ {0}
                   /\ FreeThrows \in Nat /\ MaxLogins \in Nat \ {0}

VARIABLES
  setting,       \* what this behaviour is set in
  written,       \* events a hook has queued so far
  queued,        \* events with a row in events_queue
  attempts,      \* attempts[e]: the attempts column of a queued row
  heldBack,      \* rows whose next_attempt_at lies in the future
  horizon,       \* the newest event that is older than MAX_AGE_MS
  token,         \* what loadHookToken() returns
  logins,        \* tokens handed out so far
  revoked,       \* tokens the server answers 401 to
  delivered,     \* events the server has stored
  pc,            \* stage of the flush under way
  by,            \* who holds the lease, while a flush or pass is under way
  head,          \* the oldest row it read
  batch,         \* the rows it posts
  jwt,           \* the token it posts with
  rejected,      \* rejected[w]: token w was answered 401 to, not yet re-probed
  expiredLately, \* the resident flusher expired rows within the minute
  throwingHead,  \* the resident flusher's local of that name, 0 for null
  throwCount,    \* ... and the count
  refused        \* refused[e]: times a batch with e was refused, or threw (ghost)

rows == <<queued, attempts, heldBack, refused>>
auth == <<token, logins, revoked>>
throws == <<throwingHead, throwCount>>
flush == <<pc, by, head, batch, jwt>>
memory == <<rejected, expiredLately, throws>>
vars == <<setting, written, rows, horizon, auth, delivered, flush, memory>>

-----------------------------------------------------------------------------
Token == 0..MaxLogins

\* Where a flush is: between batches of a drain pass, a batch read, and the
\* answers to it; "charged" is after markAttempt and before dropAbandoned.
Stage == {"idle", "pass", "taken", "accepted", "refused", "deferred",
          "unauthorized", "charged"}

TypeOK ==
  /\ setting \in Scenario
  /\ written \subseteq Event /\ queued \subseteq written /\ heldBack \subseteq queued /\ delivered \subseteq Event
  /\ attempts \in [Event -> 0..MaxAttempts]
  /\ refused \in [Event -> 0..MaxAttempts]
  /\ \A e \in Event \ queued : attempts[e] = 0
  /\ horizon \in 0..MaxTs
  /\ logins \in Token /\ token \in 0..logins /\ revoked \subseteq 1..logins
  /\ pc \in Stage /\ by \in Worker \cup {"none"} /\ (by = "none" <=> pc = "idle")
  /\ head \in 0..MaxTs /\ batch \subseteq Event /\ jwt \in Token
  /\ rejected \in [Worker -> Token]
  /\ expiredLately \in BOOLEAN
  /\ throwingHead \in 0..MaxTs /\ throwCount \in 0..FreeThrows + 1

Init ==
  /\ setting \in Scenario
  /\ written = {} /\ queued = {} /\ heldBack = {} /\ delivered = {}
  /\ attempts = [e \in Event |-> 0] /\ refused = [e \in Event |-> 0]
  /\ horizon = 0
  /\ token \in {0, 1} /\ logins = token /\ revoked = {}
  /\ pc = "idle" /\ by = "none" /\ head = 0 /\ batch = {} /\ jwt = 0
  /\ rejected = [w \in Worker |-> 0]
  /\ expiredLately = FALSE
  /\ throwingHead = 0 /\ throwCount = 0

-----------------------------------------------------------------------------
(* Statements on the table.                                                *)

\* The n oldest of S: ORDER BY ts LIMIT n.
Oldest(n, S) == {e \in S : Cardinality({f \in S : f < e}) < n}

Least(m, n) == IF m < n THEN m ELSE n

\* After a statement that leaves the rows of S.  A row that is written anew
\* while a flush still carries the event has that flush's refusals to its name.
Keep(S) ==
  /\ queued' = S
  /\ heldBack' = heldBack \cap S
  /\ attempts' = [e \in Event |-> IF e \in S THEN attempts[e] ELSE 0]
  /\ refused' = [e \in Event |-> IF e \in (S \cap queued) \cup batch THEN refused[e] ELSE 0]

\* Slip: the batch is read without looking at the attempts.
DueUncapped(w) == {e \in queued : w = "drainer" => e \notin heldBack}

\* Only the drainer honours the retry time kept on the row.
Due(w) ==
  {e \in queued : attempts[e] < MaxAttempts /\ (w = "drainer" => e \notin heldBack)}

\* Slip: one refusal short of the cap is enough.
AbandonedEarly == {e \in queued : attempts[e] >= MaxAttempts - 1}

Abandoned == {e \in queued : attempts[e] >= MaxAttempts}

Expired == {e \in queued : e <= horizon}

\* A batch with e was refused, or its flush threw.
Refusal == refused' = [e \in Event |-> IF e \in batch
                                       THEN Least(refused[e] + 1, MaxAttempts)
                                       ELSE refused[e]]

MarkAttempt == attempts' = [e \in Event |-> IF e \in batch \cap queued
                                            THEN attempts[e] + 1
                                            ELSE attempts[e]]

-----------------------------------------------------------------------------
(* Hooks.                                                                  *)

\* INSERT OR IGNORE, then prune the oldest rows beyond the caps; the byte cap
\* takes a share of the rows that grows with the overflow.
Enqueue(e) ==
  LET all  == queued \cup {e}
      over == Cardinality(all) - MaxEvents
      kept == IF over > 0 THEN all \ Oldest(over, all) ELSE all
  IN  /\ e \notin written \/ "again" \in setting.faults
      /\ written' = written \cup {e}
      /\ \/ Keep(kept)
         \/ "bytes" \in setting.faults /\ \E n \in 1..Cardinality(kept) : Keep(kept \ Oldest(n, kept))
      /\ UNCHANGED <<setting, horizon, auth, delivered, flush, memory>>

\* A chunk of the bulk tail of a hook (enqueueMany): all of it, or nothing if it does not fit.
EnqueueMany(S) ==
  /\ Cardinality(queued) + Cardinality(S) <= MaxEvents
  /\ S \cap written = {} \/ "again" \in setting.faults
  /\ written' = written \cup S
  /\ Keep(queued \cup S)
  /\ UNCHANGED <<setting, horizon, auth, delivered, flush, memory>>

-----------------------------------------------------------------------------
(* Workers.                                                                *)

\* The token w would use is not one it was told is rejected.
MayTry(w) == token = 0 \/ token # rejected[w]

GoTo(stage) ==
  /\ pc' = stage
  /\ by' = IF stage = "idle" THEN "none" ELSE by
  /\ IF stage \in {"idle", "pass"}
     THEN head' = 0 /\ batch' = {} /\ jwt' = 0
     ELSE UNCHANGED <<head, batch, jwt>>

\* What follows an answer that ends a drainer's pass, and a flush of the
\* resident flusher anyway.
EndFlush == GoTo("idle")

\* What follows a batch that was sent: a pass goes on with the next.
NextBatch == GoTo(IF by = "drainer" THEN "pass" ELSE "idle")

\* The resident flusher, at most once a minute, outside the lease.
ResidentExpires ==
  /\ "resident" \in setting.workers /\ by # "resident"
  /\ token # 0 /\ MayTry("resident") /\ ~expiredLately
  /\ expiredLately' = TRUE
  /\ Keep(queued \ Expired)
  /\ UNCHANGED <<setting, written, horizon, auth, delivered, flush, rejected, throws>>

\* A drain pass begins.
Begin ==
  /\ "drainer" \in setting.workers /\ pc = "idle"
  /\ MayTry("drainer")
  /\ IF token # 0 THEN Keep(queued \ Expired) ELSE UNCHANGED rows
  /\ pc' = "pass" /\ by' = "drainer"
  /\ UNCHANGED <<setting, written, horizon, auth, delivered, head, batch, jwt, memory>>

\* flushOnce reads a batch and drops the rows it cannot decode.
TakeBatch(w) ==
  LET due  == Oldest(BatchSize, Due(w))
      good == due \ setting.corrupt
  IN  /\ due # {} /\ token # 0
      /\ Keep(queued \ (due \cap setting.corrupt))
      /\ IF good = {}
         THEN UNCHANGED flush
         ELSE /\ pc' = "taken" /\ by' = w /\ jwt' = token
              /\ head' \in Oldest(1, due) /\ batch' = good
      /\ UNCHANGED <<setting, written, horizon, auth, delivered, memory>>

ResidentTakes ==
  /\ "resident" \in setting.workers /\ pc = "idle"
  /\ expiredLately /\ MayTry("resident")
  /\ TakeBatch("resident")

DrainerTakes == by = "drainer" /\ pc = "pass" /\ TakeBatch("drainer")

\* Nothing is due, or there is no token, or the pass is cut short.
PassEnds ==
  /\ pc = "pass"
  /\ Due("drainer") = {} \/ token = 0 \/ "crash" \in setting.faults
  /\ EndFlush
  /\ UNCHANGED <<setting, written, rows, horizon, auth, delivered, memory>>

\* The lease was lost, or the pass ran into its cap, before or during the
\* POST: nothing is recorded.
Abort ==
  /\ pc = "taken" /\ "crash" \in setting.faults
  /\ \/ UNCHANGED delivered
     \/ delivered' = delivered \cup batch
  /\ EndFlush
  /\ UNCHANGED <<setting, written, rows, horizon, auth, memory>>

\* The flush throws after the batch was read.  A drainer exits; the resident
\* flusher counts how often the same head threw, and from some count on
\* charges the batch.
DrainerThrows ==
  /\ pc = "taken" /\ by = "drainer"
  /\ batch \cap setting.throwers # {} \/ "throw" \in setting.faults
  /\ Refusal
  /\ EndFlush
  /\ UNCHANGED <<setting, written, queued, attempts, heldBack, horizon, auth, delivered, memory>>

ResidentThrows ==
  /\ pc = "taken" /\ by = "resident"
  /\ batch \cap setting.throwers # {} \/ "throw" \in setting.faults
  /\ throwingHead' = head
  /\ throwCount' = IF head = throwingHead THEN Least(throwCount + 1, FreeThrows + 1) ELSE 1
  /\ Refusal
  /\ IF throwCount' > FreeThrows
     THEN MarkAttempt /\ GoTo("charged")
     ELSE UNCHANGED attempts /\ EndFlush
  /\ UNCHANGED <<setting, written, queued, heldBack, horizon, auth, delivered, rejected, expiredLately>>

-----------------------------------------------------------------------------
(* The server, and what the worker hears of it.                            *)

CanPost == pc = "taken" /\ batch \cap setting.throwers = {}

ServerAccepts ==
  /\ CanPost /\ jwt \notin revoked /\ batch \cap setting.poison = {}
  /\ delivered' = delivered \cup batch
  /\ GoTo("accepted")
  /\ UNCHANGED <<setting, written, rows, horizon, auth, memory>>

\* 4xx or 5xx.
ServerRefuses ==
  /\ CanPost /\ jwt \notin revoked
  /\ batch \cap setting.poison # {} \/ "reject" \in setting.faults
  /\ Refusal
  /\ GoTo("refused")
  /\ UNCHANGED <<setting, written, queued, attempts, heldBack, horizon, auth, delivered, memory>>

ServerThrottles ==
  /\ CanPost /\ "throttle" \in setting.faults
  /\ GoTo("deferred")
  /\ UNCHANGED <<setting, written, rows, horizon, auth, delivered, memory>>

ServerUnauthorizes ==
  /\ CanPost /\ jwt \in revoked
  /\ GoTo("unauthorized")
  /\ UNCHANGED <<setting, written, rows, horizon, auth, delivered, memory>>

\* The request or its answer is lost, or no answer comes in time.  A timeout
\* counts against the batch if /health answers.
NoAnswer ==
  /\ CanPost /\ "network" \in setting.faults
  /\ \/ UNCHANGED delivered
     \/ /\ jwt \notin revoked /\ batch \cap setting.poison = {}
        /\ delivered' = delivered \cup batch
  /\ \/ Refusal /\ GoTo("refused")
     \/ UNCHANGED refused /\ GoTo("deferred")
  /\ UNCHANGED <<setting, written, queued, attempts, heldBack, horizon, auth, memory>>

-----------------------------------------------------------------------------
(* Accounting for the answer.                                              *)

\* Delete the rows; the drainer also makes every deferred row due.
Sent ==
  /\ pc = "accepted"
  /\ queued' = queued \ batch
  /\ attempts' = [e \in Event |-> IF e \in batch THEN 0 ELSE attempts[e]]
  /\ refused' = [e \in Event |-> IF e \in batch THEN 0 ELSE refused[e]]
  /\ heldBack' = IF by = "drainer" THEN {} ELSE heldBack \ batch
  /\ rejected' = [rejected EXCEPT ![by] = 0]
  /\ IF by = "resident" THEN throwingHead' = 0 /\ throwCount' = 0 ELSE UNCHANGED throws
  /\ NextBatch
  /\ UNCHANGED <<setting, written, horizon, auth, delivered, expiredLately>>

\* The worker remembers the token and leaves the rows alone.
Unauthorized ==
  /\ pc = "unauthorized"
  /\ rejected' = [rejected EXCEPT ![by] = jwt]
  /\ EndFlush
  /\ UNCHANGED <<setting, written, rows, horizon, auth, delivered, expiredLately, throws>>

\* 429, or the network: the drainer holds the rows back, no attempt counts.
Defer ==
  /\ pc = "deferred"
  /\ heldBack' = IF by = "drainer" THEN heldBack \cup (batch \cap queued) ELSE heldBack
  /\ EndFlush
  /\ UNCHANGED <<setting, written, queued, attempts, refused, horizon, auth, delivered, memory>>

\* markAttemptAndPrune: one statement to count the attempt (and one to hold
\* the rows back) ...
Charge ==
  /\ pc = "refused"
  /\ MarkAttempt
  /\ heldBack' = IF by = "drainer" THEN heldBack \cup (batch \cap queued) ELSE heldBack
  /\ GoTo("charged")
  /\ UNCHANGED <<setting, written, queued, refused, horizon, auth, delivered, memory>>

\* Slip: the rows that used up their attempts stay.
DropAbandonedNever ==
  /\ pc = "charged"
  /\ EndFlush
  /\ UNCHANGED <<setting, written, rows, horizon, auth, delivered, memory>>

\* ... and one to drop every row that has used up its attempts.
DropAbandoned ==
  /\ pc = "charged"
  /\ Keep(queued \ Abandoned)
  /\ EndFlush
  /\ UNCHANGED <<setting, written, horizon, auth, delivered, memory>>

-----------------------------------------------------------------------------
(* Time, the user, the server's mind, and crashes.                         *)

RetryTimeComes(e) ==
  /\ e \in heldBack
  /\ heldBack' = heldBack \ {e}
  /\ UNCHANGED <<setting, written, queued, attempts, refused, horizon, auth, delivered, flush, memory>>

MinutePasses ==
  /\ expiredLately
  /\ expiredLately' = FALSE
  /\ UNCHANGED <<setting, written, rows, horizon, auth, delivered, flush, rejected, throws>>

\* REJECTED_TOKEN_REPROBE_MS have passed since the 401.
ReprobeTimeComes(w) ==
  /\ rejected[w] # 0
  /\ rejected' = [rejected EXCEPT ![w] = 0]
  /\ UNCHANGED <<setting, written, rows, horizon, auth, delivered, flush, expiredLately, throws>>

Age ==
  /\ horizon < MaxTs
  /\ horizon' = horizon + 1
  /\ UNCHANGED <<setting, written, rows, auth, delivered, flush, memory>>

Login ==
  /\ "login" \in setting.faults /\ logins < MaxLogins
  /\ logins' = logins + 1 /\ token' = logins + 1
  /\ UNCHANGED <<setting, written, rows, horizon, revoked, delivered, flush, memory>>

Logout ==
  /\ "logout" \in setting.faults /\ token # 0
  /\ token' = 0
  /\ UNCHANGED <<setting, written, rows, horizon, logins, revoked, delivered, flush, memory>>

Revoke ==
  /\ "revoke" \in setting.faults /\ token # 0
  /\ revoked' = revoked \cup {token}
  /\ UNCHANGED <<setting, written, rows, horizon, token, logins, delivered, flush, memory>>

\* A worker dies; the resident flusher is restarted with nothing remembered.
Crash ==
  /\ "crash" \in setting.faults /\ pc # "idle"
  /\ IF by = "resident"
     THEN /\ rejected' = [rejected EXCEPT !["resident"] = 0]
          /\ expiredLately' = FALSE
          /\ throwingHead' = 0 /\ throwCount' = 0
     ELSE UNCHANGED memory
  /\ EndFlush
  /\ UNCHANGED <<setting, written, rows, horizon, auth, delivered>>

-----------------------------------------------------------------------------
Account == Sent \/ Unauthorized \/ Defer \/ Charge \/ DropAbandoned

Hear == ServerAccepts \/ ServerRefuses \/ ServerThrottles \/ ServerUnauthorizes \/ NoAnswer

Next ==
  \/ \E e \in Event : Enqueue(e) \/ RetryTimeComes(e)
  \/ \E S \in SUBSET Event : EnqueueMany(S)
  \/ ResidentExpires \/ Begin \/ ResidentTakes \/ DrainerTakes \/ PassEnds
  \/ Abort \/ DrainerThrows \/ ResidentThrows
  \/ Hear \/ Account
  \/ \E w \in Worker : ReprobeTimeComes(w)
  \/ MinutePasses \/ Age \/ Login \/ Logout \/ Revoke \/ Crash

Spec == Init /\ [][Next]_vars

(***************************************************************************)
(* Fairness.  The resident flusher loops for ever and hooks keep starting  *)
(* drainers; a request ends by its timeout, and the server does not go     *)
(* without a verdict for ever; timers run out.  Nobody has to log in, and  *)
(* nothing has to fail.                                                    *)
(***************************************************************************)
FairSpec ==
  /\ Spec
  /\ WF_vars(ResidentExpires) /\ SF_vars(ResidentTakes) /\ WF_vars(Begin)
  /\ WF_vars(DrainerTakes) /\ WF_vars(PassEnds)
  /\ WF_vars(DrainerThrows) /\ WF_vars(ResidentThrows)
  /\ SF_vars(ServerAccepts \/ ServerRefuses \/ ServerUnauthorizes) /\ WF_vars(Account)
  /\ \A e \in Event : WF_vars(RetryTimeComes(e))
  /\ \A w \in Worker : WF_vars(ReprobeTimeComes(w))

-----------------------------------------------------------------------------
(* Properties.                                                             *)

\* A row leaves the queue undelivered only if batches with it were refused or
\* threw MAX_ATTEMPTS times, if it is too old and a token is there, if it can
\* not be decoded, or to keep the queue within its caps, the oldest first.
\* Offline time, 429s, rejected tokens and crashes never cost a row its place
\* (markAttemptAndPrune, deferWithoutAttempt in flusher.ts).
LostForCause ==
  [][\A e \in queued \ queued' :
       \/ e \in delivered \cup setting.corrupt
       \/ refused[e] >= MaxAttempts
       \/ e <= horizon /\ token # 0
       \/ /\ Cardinality(queued) >= MaxEvents \/ "bytes" \in setting.faults
          /\ \A f \in queued' : e < f]_vars

\* The attempts column never runs ahead of the refusals behind it.
AttemptsEarned == \A e \in Event : attempts[e] <= refused[e]

\* With a usable token and a server that answers, every row leaves the queue:
\* nothing that is refused, throws or cannot be decoded holds up the rows
\* behind it for good (dropAbandoned, the catch of runFlusher).
EveryRowLeaves ==
  setting.workers = {"resident"} \/ setting.throwers = {} =>
  \A e \in Event : e \in queued ~> e \notin queued \/ token \in revoked \cup {0}
=============================================================================
