# Specifications of ai-agents-observability

This directory holds TLA+ specifications of the parts of ai-agents-observability where processes, requests or statements
meet: on a developer's machine the delivery of events and transcripts by the `aiot` hook CLI (leases, the on-demand
drain, the event queue, the ship markers); on the server the transcript endpoint, the ingestion of events and the job
scheduler; and the GitHub App's loop of webhooks. Each module is translated from the TypeScript source and model-checked
with TLC on small instances. The most important safety properties of all eight components are proved with TLAPS
for every value of the constants.

`PROJECT.json` lists components, runs, mutants, findings, hazards and theorems in machine-readable form; its `map`
names the source lines behind every definition.

To repeat a check: `tlc -workers 2 -config MCDeliveryLease_steady.cfg MCDeliveryLease`, and for the proofs
`tlapm DeliveryLeaseProofs.tla`.

Contents: [the system](#the-system) · [modules](#the-modules) · [runs](#runs) · [findings](#findings) ·
[proofs](#proofs) · [not modelled](#what-is-not-modelled) · [plan](#plan).


## The system

AI coding agents call `aiot hook` on each of their events. The hook writes a row into a SQLite file and returns; later
some other process posts the rows to the ingest service over HTTP, and uploads transcripts. Ingest stores both in
Postgres and an object store, and runs jobs over them. A web app shows the result, a GitHub app comments on pull
requests.

| Component | Source (below `src/`) | State it keeps | Operations | Talks to |
| --- | --- | --- | --- | --- |
| Delivery lease | `apps/hook/src/lib/lease.ts` | `delivery_lease` rows in queue.db | acquire, renew, tryAdd, release, stop the holder | every delivery process, through SQLite |
| On-demand delivery | `commands/drain.ts`, `hook-entry.ts`, `lib/drainer-spawn.ts`, `commands/import.ts` of the hook | spawn claim, spawn hold, failure streak, rejected token (`delivery_state`) | claim and spawn, drain pass, import | lease, queue, markers, server |
| Event queue, flusher | `lib/queue.ts`, `lib/queue-reader.ts`, `flusher.ts` of the hook | `events_queue` rows with attempts and retry time | enqueue, prune, read, post, charge, defer, expire | hooks, server |
| Ship markers, shipper | `shipper.ts` of the hook | one JSON file per session | write, mark final, upload in chunks, defer, abandon | hooks, transcript endpoint |
| Event ingestion | `apps/ingest/src/routes/events.ts`, `lib/upsert-session.ts` | events, sessions | deduplicate and aggregate in one transaction, escalate run_kind | hooks, Postgres |
| Transcript endpoint | `apps/ingest/src/routes/transcripts.ts` | scratch files, an in-memory lock per session, objects | assemble chunks, redact, put, update the row | hooks, object store |
| Job scaffold, scheduler | `apps/ingest/src/jobs/scheduler.ts`, `job-run.ts` | `job_config`, `job_runs`, an advisory lock | poll, launch, lock, run, unlock | admin pages, Postgres |
| Jobs | the other files of `apps/ingest/src/jobs` | scores, alerts, deletions, retention | batch computations | Postgres, object store, webhooks |
| Tokens, login | `packages/auth`, `apps/web/src/app/api/auth`, `commands/login.ts` of the hook | tokens, device codes | device flow, rotate, revoke | GitHub |
| GitHub app | `apps/github-app/src` | deliveries, pull requests, rollups | webhooks, rollup, one summary comment | GitHub |
| Web app | `apps/web/src` | roles, grants, policies | queries and forms | Postgres |
| Adapters, import, redaction, schemas | `apps/hook/src/adapters`, `lib/import-*`, `packages/redaction`, `packages/schemas` | side-channel cursors | translation | - |

**What is hard here.** On an install without daemons, delivery depends on short-lived processes that must neither run
twice nor leave work behind when nobody comes after them. They coordinate only through a SQLite file, with clock readings
that may be old by the time they are used, and they can be killed, suspended or capped between any two statements. The
server may be down, throttle, refuse, store and lose its answer, or stop accepting the token, and each of these must
be accounted for differently: some are the row's fault and some are not. On the server side, replicas share jobs through
a lock that belongs to a database session none of them holds on to, and a request flag that is judged by comparing
timestamps; transcripts live in two stores that no transaction spans, with sweeps that lock neither; batches of events
are committed side by side under READ COMMITTED; webhooks are acknowledged before they are handled, and come twice and in
any order. `PROJECT.json` lists these hazards at the line where each bites.

**What makes the components correct.**

* lease: one holder per kind of work; nobody loses a row that has not run out; a theft is always noticed; an abandoned row
  comes free;
* on-demand delivery: no row or transcript is left to nobody; neither a claim nor a lease is left to keep the next hook from
  spawning; a spawn claim is always answered for;
* queue: an attempt is charged only for the batch's own fault; no row is lost without a cause; nothing blocks the queue
  for good;
* ship markers: no body is assembled from two transcripts; no transcript is given up without a cause, nor the end of a
  session forgotten; what is owed is uploaded or given up in the end;
* transcript endpoint: what was acknowledged stays until something newer replaces it; the row never dangles; fresh
  transcripts survive the sweeps and erased ones do not survive at all;
* ingestion: a session's totals are those of its stored events, each counted once; it is completed exactly if it ended;
* jobs: no two replicas run a job at once, unless a lock is lost with its connection; each replica launches a request at most once;
* pull requests: one comment per merge from the handlers; sessions and pull requests find each other whichever comes first; a delivery that
  was acknowledged, with a body its handler can use, has had its effect or shows that it has not;
* tokens (not modelled): a refresh token is used once; a revoked token opens nothing.


## The modules

| Module | What it is |
| --- | --- |
| `ExclusiveLease` | what a lease promises: each kind has at most one owner, who must let go before the next |
| `DeliveryLease` | lease.ts in detail; implements `ExclusiveLease` |
| `OnDemandDrain` | hooks, drain passes and imports; composes with the lease through `ExclusiveLease` |
| `EventQueue` | the queue and what may happen to a row of it |
| `ShipMarker` | the markers of sessions whose transcript is owed, and the shipper |
| `TranscriptStore` | what the transcript endpoint promises |
| `TranscriptUpload` | the endpoint beside the jobs that remove transcripts; implements `TranscriptStore` |
| `EventLedger` | what the ingestion of events promises: each event counted in one step, once |
| `IngestEvents` | the transaction of a batch of events, statement by statement; implements `EventLedger` |
| `JobScheduler` | manual requests, the schedule, and withJobRun; its lock implements `ExclusiveLease` |
| `PullRequestLoop` | webhook deliveries of one pull request, beside ingest's linking of sessions to it |
| `...Proofs` | theorems and proofs of the module of that name |
| `MC...` | instances for TLC |

How they fit together: `DeliveryLease` is why `EventQueue` and `ShipMarker` may have one worker at a time, and `OnDemandDrain`
is about when that worker runs. The batches that `EventQueue` posts again after a lost answer are what `IngestEvents` must
count once; the requests that the shipper of `ShipMarker` gives up and repeats are the client of `TranscriptUpload`. The
jobs beside uploads and batches run under the lock of `JobScheduler`. `IngestEvents` and `PullRequestLoop` look at two
halves of what ingest does with a batch: the transaction, and the linking after it.

### DeliveryLease

One action per statement against queue.db, because other processes come in between. `row[k]` is the row of kind `k`;
`pc[p]` is where a process is in `withLease`: trying kinds (`TryKind`, in the order of the role, all with one clock
reading), backing out of a partial hold (`Refused`, `BackOut`), polling (`Retry`, `GiveUp`), working, renewing
(`StartRenew`, `Renew`, `RenewBusy`), giving up a lost lease (`Drop`), adding a kind (`StartAdd`, `TryAdd`, `AddBusy`),
ending (`FnEnds`, `Finish`), and from anywhere `Crash` and `Stop` (`stopLeaseHolder`).

*Time.* The code reads `Date.now()` before its UPDATE waits for SQLite's write lock, so a row may be judged by, and
written with, a reading up to the busy timeout old. Time is kept as countdowns: `row[k].expires` is expires_at minus
now, and `lag[p]` is the age of the reading p is about to use. `Tick` lets a unit pass for everybody and never lets a
pending statement wait longer than `MaxLag`. `StepClock` moves the wall clock. Since no reading older than `MaxLag` is
ever used, an expiry further back than that is kept at `-MaxLag`; this makes the state space finite without a bound on
time.

*Constants.* The one assumption that carries weight is `SanityCoversTheWait`, Sanity >= Ttl + MaxLag: the code's
45 s against 15 s plus a 5 s wait. A mutant that narrows the bound to one TTL breaks mutual exclusion, as the comment in
lease.ts says it did.

*Properties.* `MutualExclusion`, `LiveLeaseNotStolen` and `ImplementsExclusiveLease` under a steady clock;
`CountingDetectsTheft` under any (checked where the clock is stepped, since under a steady one nothing is stolen);
`TheftIsNoticed` and `AbandonedRowComesFree` under fairness. A process may count on a
kind (`Holds`) while its function runs, no renewal reported a loss, and what it last wrote has not run out.

*Fairness.* Time passes (weak fairness of `Tick`); a statement that waits for the write lock is answered or throws
(weak); the renewal timer gets its turn and the database is not busy at every renewal (strong fairness of `StartRenew`
and `Renew`). Nothing is assumed about crashes, the user, or how long the work takes.

### OnDemandDrain

A hook queues a row, touches its session's marker, then tries to claim the spawn. `Claim` is `claimDrainerSpawn`: no
claim standing, no hold (a SessionEnd ignores it), no lease held, except that an import's transcripts lease does not
count. A pass starts (`Start`), takes its lease (`Acquire`, `AcquireBusy`), clears the claim (`Begin`), posts batches
(`Flush`, `Post`, then an answer), ships (`Ship`, `Upload`, an answer), looks again while it holds the lease
(`NextRound`, `PassDone`), lets go (`Release`), looks once more (`LookAgain`), reports the streak and the hold
(`Report`), hands back the claim if it never took the lease (`Exit`). `Import` and `DrainByHand` are what a user types.

*Leases.* A row has an owner and may have lapsed. `LeasesAsPromised` (checked and proved) says that they are used as `ExclusiveLease`
promises, which `DeliveryLease` is proved to implement; this is how the two modules compose. Both UPDATEs of an
acquisition compare with the same clock reading, so `Acquire` is one step. One renewal renews every kind of an owner,
so they run out together, except for a kind added after the last renewal (`added`).

*Failures.* A behaviour is set in a scenario: which hooks and commands take part and which faults may happen (a suspend
past the TTL, a process or hook killed, a spawn or release that fails, the network, the token, the wall-clock cap, a slow
start). The ghost variable `setback` says that a failure may have left work to a later hook; it is cleared by a pass
that begins with every kind and nothing held back, since such a pass has to make up for it.

*Properties.* `NoStrandedWork`: when everything has come to rest and there is no setback, queue and markers are empty.
It is claimed except under a suspend, for which see the known disagreements. `NothingBlocksNextHook`: at such a moment neither
claim nor lease stands in the way of the next hook. `ClaimIsAnswered`: while a claim stands, somebody has yet to take
the lease or hand it back. `RowsLeave`: when nothing fails, a row leaves the queue without a later hook.

*Fairness.* A process that is not killed goes on, since its requests have timeouts, and so does a hook; a row whose
owner is gone lapses. No command is ever typed and no failure ever happens or ends by fairness.

*Left out.* The bulk tail of a hook (`queueTail`), the spawn hold as far as `NothingBlocksNextHook` goes, `--wait` polling, the ship cadence of
`shouldShipNow`, expired rows, resident mode.

### EventQueue

An event is the number of its timestamp, so numeric order is `ORDER BY ts`, and the events older than `MAX_AGE_MS` are
those up to `horizon`. A token is the number of its login. One flush runs at a time, which is what the lease is for; its
statements are separate steps: read a batch and drop what cannot be decoded (`TakeBatch`), post it (`ServerAccepts`,
`ServerRefuses`, `ServerThrottles`, `ServerUnauthorizes`, `NoAnswer`), account for the answer (`Sent`, `Charge`,
`DropAbandoned`, `Defer`, `Unauthorized`), or throw (`ResidentThrows`, `DrainerThrows`). The resident flusher and the
drainer share them with the differences of the code: only the drainer keeps retry times on the rows, only the resident
counts throws, each remembers a rejected token in its own place.

*Properties.* `AttemptsEarned` (proved, not checked by a run): the attempts column never runs ahead of the refusals
behind it (`refused`, a ghost). `LostForCause`: a row leaves the queue undelivered only after MAX_ATTEMPTS refusals, for its age with a token present,
because it cannot be decoded, or to keep the caps, and then only the oldest. `EveryRowLeaves`: with a token that works
and a server that answers, every row leaves in the end, poisoned, corrupt and throwing rows at the head notwithstanding.
Rows that make every flush throw are admitted for the resident flusher only: an on-demand drainer never charges them,
so they hold up the queue until they are seven days old.

*Fairness.* The resident flusher loops and hooks keep starting drainers; a request ends by its timeout; the server does
not go without a verdict for ever (strong fairness of a verdict, since throttling and lost answers may come in between);
retry times and the re-probe interval run out. Nobody has to log in.

*Left out.* What enrichment writes into a payload, the sleep of the resident's own backoff, heartbeat files, a queue
file that is replaced under a daemon. Good rows batched with a poisoned one share its fate; the model has this, as
the code does.

### ShipMarker

`marker[s]` is the marker file of session `s`: `stamp` stands for updated_at, and the other fields are the flags and
counters of the file. `hook[s][h]` is a hook that has read the file (`StopReads`, `EndReads`) and will rename a new one over
it (`HookWrites`). Hooks of a session overlap in the scenarios that say so (`overlap`): the pi family spawns its hooks
detached and does not wait for them (pi-family.ts:514-519). The shipper, too, reads and writes in two steps: `Collect` reads
all markers for a pass (`Begin`), `Snapshot` reads one again, `ReadTranscript` takes a body, `ChunkAcked` and `Accepted` are
answers to its chunks, and each outcome prepares a `copy` of the marker that `ShipperWrites` renames over the file or a
deletion (`Accepted`, `RecordFailure` at the cap, `TranscriptMissing`). After an upload a drain lifts the holds of the other
markers (`clearMarkerDeferrals`): they are listed (`BeginRelease`), then each is read again and rewritten (`Release`,
`ShipperWrites`). The other outcomes are `Resync` (409), `NotReady` (404), `Unreachable`, `Unauthorized`, `ServerFails`,
`Refused` and `ReadFails`. The server is the least that makes the answers possible: the body whose first chunk it keeps, and
the turns it has stored; how it does that is `TranscriptUpload`.

*Time.* Retry times, the cadence of ten minutes (five without a hook) and the hold after a 404 are flags of a marker that lapse (`HoldsLapse`,
`CadencePasses`); `WeekPasses` makes a marker old. *Faults* come from the setting, as for the drain.

*Properties.* Nothing locks a marker, so something can be lost, and the properties say what: `raced[s]` (a ghost) says who
has written over a marker it had not read. `WholeTranscript`; `LostForCause`, whose causes are those of the code plus two
such races, of the shipper with a hook and of a SessionEnd with a Stop; `FinalSurvives`: the end of a session is forgotten
only by a writer that had read the marker before a hook rewrote it (`Overtaken`); `OwedIsSettled` under fairness. Without
either exception TLC finds a counterexample, see the known disagreements.

*Fairness.* The resident shipper loops and hooks keep starting drains, timers run out, and the server gives a verdict
infinitely often when it is asked infinitely often (strong fairness of an acceptance, a 5xx or a 4xx, as 404, 409, 429
and 401 may come in between). Crashes are left out of `OwedIsSettled`: a shipper that dies at each attempt charges none.

*Left out.* Legacy markers without JSON, the byte budget that decides how many chunks a body takes (here one or two),
heartbeats, the sleep between resident passes, the collation of agents that keep no transcript file of their own.

### TranscriptStore and TranscriptUpload

One session on one server process. A handler runs between two awaits at a time: `ReadRow` (authorisation, the read of
the session row, entering `withSessionLock`), `WriteChunk`, `Skip` (the hash is already stored), `Process`, `Put`, `Record` and the failures of
the last three. `lock` is the queue of the in-memory lock; `scratch` the chunks in the scratch file, as the bodies they
belong to, so that a file of two halves is visible as such; `object` and `row` are the object store and the database. The client
sends one request at a time and gives it up at its own timeout (`GiveUp`), after which the handler goes on. Beside it
run the retention sweep (`SweepStarts`, `SweepPurges`, `SweepClears`, then the hunt for orphans: `SweepLists`, `SweepChecks`, `SweepCollects`),
the sweep of scratch files, and the deletion of the user (`EraserStarts`, `EraserRemoves`, `EraserDeletes`). `Restart` drops lock, requests and jobs.

*Properties.* `KeepsItsPromise` is the refinement of `TranscriptStore`: transcripts are stored whole, acknowledged when
they are stored, and replaced by newer ones only. It is claimed while requests enter the lock in the order they were sent
(`overtaken`): since the row is read before the lock is entered, a slow read lets an older request in later, and it then
stores an older transcript over a newer one. `PointerHolds` and `FreshIsKept` except where an upload and a sweep have
overlapped (`crossed`, `sweep.busy`): the sweep lists objects and rows at different times and locks neither. `ErasedInTheEnd` and
`UploadCompletes` under fairness.

*Fairness.* Handlers and jobs go on, the shipper comes back while it owes something, and there is an end of trouble
(`<>[][~Trouble]_vars`): neither restarts, lost patience, failing storage nor the scratch sweep come for ever. Without
that no retry protocol can promise to get through.

*Left out.* Answers before anything is read (400, 403, 413, 415), several replicas with a lock and scratch files each,
what redaction and search extraction make of a text.

### EventLedger and IngestEvents

A request is a transaction of several statements: insert the events and learn which are new (`InsertEventsBatch`), ask which
of the sessions claimed for a pipeline are recorded as one (`Probe`), upsert session after session in the order of
the batch (`UpsertSession`), bring run_kind of earlier events in step (`PropagateRunKind`), `Commit`, `Answer`. `stored` and `row` are
the committed tables; `tx[r]` holds what the transaction of request `r` has written and nobody else sees. The database is READ
COMMITTED: an insert waits for another open transaction with the same key, an upsert keeps its row locked until the
end, and two batches that lock two sessions in opposite orders end in `BreakDeadlock`. The client is the flusher of
`EventQueue`: it posts any rows that are due, gives up (`GiveUp`) while the server goes on, and posts them again.
`SweepAbandoned` closes sessions that have been silent.

*Properties.* `CountedOnce`: totals and last_event_at of a row are those of the rows in events, and what the client deleted
is stored. `CompletedIffEnded` in spite of the sweep. `EscalationReaches`: the batch that makes a session a pipeline's takes the events
stored by then along, and nothing makes it a person's again. `EveryEventCounted` under fairness. Seen from outside, a batch
is one step of `EventLedger`: its new events are recorded and added to their sessions when the transaction commits, and the
machine parts with events that are recorded or that the schema rejects. That `IngestEvents` implements it is proved.

*Fairness.* The flusher posts while it has rows; a request goes on until it is answered or rolled back. Failures are bounded
(`MaxFaults`); deadlocks are not, but each time one of the two transactions survives.

*Left out.* Costs and the columns that are filled in once, which none of the properties tells apart, and the upserts of
repositories before the transaction.

### JobScheduler

One job, any number of replicas. A poll is three statements, read the configuration (`PollConfig`), read the newest run
(`PollRuns`), clear the request and launch (`ClearRequest`); without a request it launches in the scheduled minute. An
invocation is `withJobRun`: `TryLock`, `CreateRow`, `BodyEnds`, `Unlock`.

*The lock.* `pg_try_advisory_lock` is a counted lock of a database session, and Prisma takes some connection of the
replica's pool for each statement. The model leaves the choice open: `TryLock` and `Unlock` run in any session of the
pool, an unlock in the wrong session does nothing, and a second invocation of the same replica may get the lock again in
the same session. A pool closes a connection that has been idle (`CloseIdle`), be its lock left behind or that of a job that
is busy in other connections; `createClient` leaves pg's limit at 10 s and nothing keeps the connection of the lock in use.
The ghost `severed` has the replicas that lost the lock under an invocation, until those that ran with it are over.

*Properties.* `NoOverlapAcrossReplicas`: two replicas run the job at once only if one of them is severed, so the idle close
is the one way to it, and neither an unlock that misses, a lock left behind, a crash nor a statement that fails is another.
job-run.ts:21 promises more, see the known disagreements. `RequestLaunchesOnce`: no replica launches a request twice,
although it is cleared before its run has the lock; two replicas that poll at the same time may each launch it. That a
request is picked up at all is not claimed, see the known disagreements.

*Assumed.* A poll is over before the next begins, a minute later. *Left out.* The fixed-cadence timers, the status
column, requests for other jobs in the same poll.


### PullRequestLoop

One pull request, seen from two services that share the database only. GitHub sends each delivery up to `MaxSends` times, in
any order, until it hears a 2xx (`Send`). A request is recorded (`Accept`), recognised as a duplicate (`Duplicate`), or
answered with a 5xx when the database is away or its answer is lost (`Unavailable`); then its handler runs detached, one
statement or call of GitHub's API at a time. A body the handler cannot use, because it fails its schema or names its
repository in no known form, is recorded, passed over and marked processed (kind `"unfit"`). `at[q]` is where request `q`
is: "opened" upserts the pull request, lists commits, matches sessions and links them; "merged" goes on to the rollup and
the comment (`ListComments`, then `PostComment` or `SkipComment`; the client repeats a POST it has no answer to,
`PostAgain`); reviews create the pull request when it is unknown, upsert themselves, then count and write; check runs do so
too if the pull request is known: the row of a run is written over by each delivery about it (`UpsertCheckRun`), and
recounted unless it says there is no conclusion yet. It ends with `MarkProcessed`, `HandlerFails` (status error) or a crash.
On the other side `StoreSession`, `FindPullRequest` and `LinkSession` are what ingest does for a session whose events name
the pull request.

*Properties.* `OneComment`, if there is one merge (a pull request is merged once; two deliveries with different ids that say
so would both look before either posts) and beyond the comments the client posted again for want of an answer (`unheard`, a
ghost). `LinkNotLost`: each side commits its own row before it looks for the other's. `LossIsVisible`: a delivery that
GitHub will not send again has had its effect, or its row says "received" or "error", or its body was unfit.
`EveryDeliveryRecorded` under fairness.

*Fairness.* GitHub sends again what it has not heard a 2xx for, and a request that has arrived is handled; trouble is
bounded (`MaxTrouble`).

*Left out.* Signatures and bodies that are no JSON (answered before anything is recorded), pushes and revert detection, the
other columns of a pull request, links made by hand, the reads behind the comment's text, the prune and the report of stale
deliveries.


## Runs

All runs that pass do so with the states TLC reaches exhausted; the last column gives their number.

| Run | Instance | Properties | Shows | States |
| --- | --- | --- | --- | --- |
| `lease_steady` | two drainers and a shipper, two kinds, Ttl 2, MaxLag 1, Sanity 3 | `TypeOK`, `MutualExclusion`, `LiveLeaseNotStolen`, `ImplementsExclusiveLease` | under a steady clock no kind is ever shared, however long an UPDATE waits | 597,338 |
| `lease_notice` | two processes, a clock stepped past the TTL or back past the sanity bound | `CountingDetectsTheft`, `TheftIsNoticed`, `AbandonedRowComesFree` | a holder whose row is taken learns of it; a dead holder's row comes free | 64,981 |
| `drain_safety` | five scenarios: three hooks without faults; two hooks beside failing servers, tokens, processes; caps, suspends, slow starts; an import that dies, throws or sleeps | `TypeOK`, `NoStrandedWork`, `NothingBlocksNextHook`, `ClaimIsAnswered`, `LeasesAsPromised` | no work is stranded, neither claim nor lease blocks the next hook | 883,749 |
| `drain_live` | two hooks, a command, no faults | `RowsLeave` | rows leave without a later hook | 165,635 |
| `queue_losses` | three events, a queue for two, both workers, every fault in three scenarios | `TypeOK`, `LostForCause` | nothing is lost without cause | 1,040,966 |
| `queue_live` | three events; resident with a poisoned and a throwing row, drainers with a poisoned and a corrupt one | `EveryRowLeaves` | nothing blocks the queue for good | 123,964 |
| `ship` | six scenarios of one or two sessions with two turns: chunked uploads that are interrupted, short ones beside every answer, a session the server fails on beside a good one, hooks of a session that overlap | `TypeOK`, `WholeTranscript`, `LostForCause`, `FinalSurvives`, `OwedIsSettled` | no transcript is mixed, dropped without a cause, or owed for ever | 347,270 |
| `uploads` | two bodies, two requests at a time, in four scenarios: impatient clients and restarts, an overtaken request, failing storage with expiry, and with erasure | `TypeOK`, `PointerHolds`, `KeepsItsPromise`, `FreshIsKept`, `ErasedInTheEnd`, `UploadCompletes` | the endpoint keeps its promise, beside the jobs that remove transcripts | 202,329 |
| `ingest` | four events, batches of two, two requests at a time, two faults; two alternating sessions of which one becomes a pipeline's; one session with two claims, two ends and a rejected event | `TypeOK`, `CountedOnce`, `CompletedIffEnded`, `EscalationReaches`, `EveryEventCounted` | each event counts once, whatever is retried | 803,763 |
| `jobs_safety` | two replicas with two and one sessions, two requests, one scheduled minute, crashes, failing statements and connections that are closed | `TypeOK`, `NoOverlapAcrossReplicas`, `RequestLaunchesOnce` | replicas exclude each other until a lock is lost with its connection | 2,654,112 |
| `pr_loop` | three deliveries (opened, merged and a review; closed, merged and a failing check; opened beside a check that runs and fails; an unfit body, merged and a passing check), each sent up to twice, one session, one thing that goes wrong | `TypeOK`, `OneComment`, `LinkNotLost`, `LossIsVisible`, `EveryDeliveryRecorded` | one comment from the handlers, no link lost, the loss of a usable delivery visible | 466,706 |
| `pr_checks` | three deliveries without repetition or trouble | `FailuresCounted`, violated | the [finding](#findings) | |

**Why the bounds are enough.** Durations of the lease matter only in their order: Ttl 2 leaves a step in which a row
is alive but not fresh, MaxLag 1 makes a reading stale, Sanity 3 is the least the assumption allows. Three processes are
needed for a back-out beside two others, two kinds for a partial hold. The drain has two passes at a time, so that one
can be letting go while the other takes over, and a third (a successor) as soon as one ends; BatchSize 2 with three hooks
makes a second batch, MaxRounds 2 (10 in the code) a second round, MaxAcquisitions 3 (as in the code) a pass that stops at that
limit. MaxAttempts 2 makes the difference between a charge and the last charge, MaxEvents 2 with three events makes the
cap bite, FreeThrows 1 a throw that is free and one that is not; two logins make a token replaced after being rejected. Two
requests for a job are needed for one made during the other's launch, two sessions in a pool for an unlock that misses.
Two turns make a transcript that grows under an upload, three hook writes a Stop or SessionEnd at each of its steps, and two
hooks of a session at a time (MaxHooks) each order of two reads and two renames. Two
bodies and two requests at a time make an upload that meets what an earlier one left; a third request is at most waiting
for the lock and would find what the second finds. Two transactions of two events each overlap in one event, deadlock, or
escalate beside each other. Two sends make a duplicate of a delivery, three deliveries one for each handler that may run
beside a merge. The proofs remove the bounds from what they cover.

**Deadlock** checking is off where a finite set of hooks, events, requests, deliveries or crashes comes to an end and the
system rests; the lease, where time always passes, is checked with it on.

**Mutants.** Beside a mapped definition stands, where useful, the same definition with a slip a programmer could make
(`TakeableTightBound`, `RenewedByKind`, `BeginKeepsClaim`, `ReadTranscriptUnhashed`, `InsertEventsBatchApart`, ...). Nothing refers
to these; put in place of the original they break the property named in `PROJECT.json`, which shows that the property
depends on that line of the code.


## Findings

A run that TLC refutes, against a statement the repository makes:

* **Failures of checks before the merge are not counted** (`pr_checks`, check-run.ts:101). A failing check run writes the
  recomputed count with `updateMany`, which touches nothing while the rollup row does not exist; the row is made when the pull
  request is merged, and neither its creation nor its update sets the count. So checks that complete before the merge, the
  usual case, count zero until another one concludes after the merge, against "the counter always equals the number of failing runs" (check-run.ts:95-96) and "CI
  check failures at merge time" (DESIGN_DOC.md:597).

**Known disagreements**, met while modelling and not backed by a run of their own. The models contain the behaviour; the
properties are stated so as not to claim it away.

On the hook's side:

* A stale failure streak is written back (drain.ts:257): it is read under the lease "so a stale value is never written
  back" (drain.ts:112), but written after the release. A pass that took over in between started from the same value: one
  failure is not counted, or a success is overwritten together with its reset of the spawn hold.
* A woken drainer's claim strands a hook (drain.ts:273). After a suspend, a hook may win the claim while the sleeping drainer
  still owns its lapsed rows. The new drainer finds the lease busy once the old one has renewed, and hands its claim back
  only after it has reported. A hook landing after the old drainer's last look and before that sees a claim nobody will act
  on. drain.ts:62 says it would find the lease free and spawn.
* Being logged out can lose rows (drain.ts:138): the first pass after a login deletes every row that crossed seven days while
  nobody was logged in, before it offers any. The hook's README (265-267) says that being logged out never turns into data
  loss. Likewise the resident flusher expires rows before the request that would show a re-probed token is still rejected
  (flusher.ts:753 against the comment at 748).
* The count of consecutive throws is not reset by other outcomes on the same head (flusher.ts:838 against 830).
* A pass that takes its lease again clears a claim that may be another's (drain.ts:126), which costs one needless process.
* Between the shipper's last look at a marker and its deletion a Stop may rewrite it (shipper.ts:656); deletions at the attempt
  cap and after a 4xx do not look at all (shipper.ts:284). The transcript then waits for the session's next turn.
* Hooks of a session may overlap where the agent does not wait for them (pi-family.ts:514-519), and each reads the marker
  and then renames its own over it (shipper.ts:120-144, 160-183). A Stop that had read before the end of the session drops `final`,
  and the cadence holds the last upload until the session has been idle for five minutes. A SessionEnd that read an uploaded
  marker puts it back, clean, over that of a Stop which came in between, and the last transcript is never uploaded.

On the server's side:

* A job's lock can vanish under it (job-run.ts:32): it belongs to a pooled connection that the job does not keep, `createClient`
  leaves pg's idle timeout at 10 s, and when the pool closes that connection while the job is busy in others, another replica
  starts the job, against "skip if another instance holds it" (job-run.ts:21). `NoOverlapAcrossReplicas` names the replicas
  that have lost a lock like this (`severed`).
* A second click wedges a job (scheduler.ts:459). A request made after the launch but before the job_runs row is written is
  older than that row, so every later poll takes it for answered and neither clears nor serves it; the `continue` also keeps the
  job from its schedule.
* "Only the escalating case can disagree" (upsert-session.ts:443) is not so: events without the claim that arrive after the
  escalation keep INTERACTIVE beside a session of a pipeline, as do those stored before it but outside the span of the
  row, whose start is not lowered by an earlier event that arrives late. A second claim of another kind is kept on its
  events too.
* A session the sweep has abandoned stays ABANDONED when its events go on without an end event.
* An object that an upload has put is deleted when the hunt for orphans comes before the row is updated
  (sweep-retention.ts:144), and a retained transcript that is uploaded again while the sweep purges it can be lost.
* A merge can get two comments: the GitHub client (Octokit with its retry plugin, packages/github/src/client.ts) repeats a POST
  after a 5xx or without an answer, and pr-comment.ts:96 lists the comments before the first only; the docstring (line 60) says the
  comment is posted idempotently.
* A delivery whose body fails its schema, or names its repository in no known form, is acknowledged, has no effect, and is
  marked processed (webhooks.ts:135-144, 188-191); its row does not tell it from the others, only the log does.
  webhook-payloads.ts:29-30 knows that such deliveries are gone, and sweep-stale-deliveries.ts does not find them.
* A check run's row is written over by whatever delivery comes last, and a delivery without a conclusion is not recounted
  (check-run.ts:97): a late `in_progress` clears a failure, or a re-run does, and the counter keeps it until another check concludes.
* A late `synchronize` reopens a merged pull request, as the state is written unconditionally (pr-upsert.ts), while "reopened" is
  ignored. Reviews and failing checks are counted and written in two statements, so two handlers side by side may leave the
  smaller count.


## Proofs

Constants are restricted by the named assumptions of each module and nothing else.

**DeliveryLeaseProofs.** The inductive invariant has two halves. `Shape` holds under any clock: `TypeOK`; the pid of a row
with a token is that token's process (`PidOfToken`); the rows with a call's token are of kinds it counts as held, and only
in stages where it may own any (`RowsMatchHeld`); needed kinds are tried before optional ones (`NeededFirst`). From it
follows `CountingIsExact`: a renewal sees fewer rows than kinds exactly when one was taken. `Timing` needs a steady clock:
readings are at most MaxLag old, no row outlives the TTL, a deadline is no later than the rows behind it, the rows of a
call that may count on them stand, and a loss is recorded. Mutual exclusion alone is not inductive because it says nothing of
pending statements: what a contender with a stale reading may do depends on `lag`, and that it cannot take a live row
is where `SanityCoversTheWait` enters (lemma `TakeableRunOut`). Proved: `TypeCorrect`, `MutualExclusionHolds`,
`LiveLeaseNeverStolen`, `CountingIsExact`, and `Refinement`, the implementation of `ExclusiveLease`. Of the liveness properties,
what is safety: under any clock two calls that believe in one kind do not both find all their rows (`OverlapShows`), and a
theft is final and recorded by the next renewal (`TheftIsFinal`, for which a call must ask only for kinds it does not have,
`AddsNew`); no row outlives a TTL and only a pending statement of a call makes it last longer (`AbandonedRunsOut`).

**EventQueueProofs.** The invariant is `TypeOK`, `AttemptsEarned` and three parts that bind the flush under way to the
rows: before an answer there is room for one more attempt (`RoomLeft`), a refused batch has a refusal more than attempts
(`RefusalCounted`), an accepted batch is stored (`AcceptedStored`). They are needed because refusal, charge and drop are
separate steps with hooks and crashes in between: `AttemptsEarned` by itself is not preserved by `Charge`. Proved:
`TypeCorrect`, `AttemptsAlwaysEarned`, `OnlyLostForCause` (an action property, from the same invariant). Of `EveryRowLeaves`: attempts
of a queued row only grow, by one and for the batch in hand (`AttemptsNeverForgotten`), a row with none left is not posted
(`SpentNeverPosted`), and no request uses a token that is remembered as rejected, which only tokens the server rejects are
(`RejectedNeverRetried`; inductive with `TokensKnown`: tokens are handed out in order, so a new login is never a rejected one).

**JobSchedulerProofs.** No single session can be said to belong to a run, so exclusion goes through the pool: at most
one session holds the lock (`OneSession`), and if a replica has n invocations between lock and unlock, some session
of its pool holds it at least n times (`Covered`), unless the pool has closed that session (`severed`). An unlock in the
wrong session leaves too many holds, never too few. Proved, for any use the pools make of closing idle connections:
`TypeCorrect`; `LockExcludesReplicas`, that a closed connection is the only way to an overlap; and `JobLeaseRefinement`: with
those replicas as owners that run the job and are not severed (`Runners`), who runs it changes as `ExclusiveLease` has it. The
promise that queue.db keeps for the hook is the one Postgres keeps for the jobs, but a replica that loses it is not told.
That a replica launches a request at most once (`RequestsLaunchOnce`) needs no lock but the
comparison of times, with an invariant about what has been read and not yet acted on: neither the request on record nor the one a poll
has read is among those its replica has answered (`Unanswered`), and invocations of one request on one replica are one (`NoDoubleFire`).

**ShipMarkerProofs.** Many copies of a marker are about: the file, what each hook has read, what the pass collected, the
snapshot, and the copy about to be written. The invariant says of all of them what their sizes and stamps can be
(`Sizes`, `Stamps`: two copies with one stamp agree on the end of the session, since only hooks change it and they stamp
anew), what the pass is at (`Pass`), that what is listed for release and what is being released is owed (`Owed`), and, unless
the shipper or a SessionEnd has written over what it had not read, that no copy forgets a debt (`Kept`: a hook that finds the
marker as it read it has read what is owed), that no copy charges an attempt that did not fail (`Earned`), and that an upload
whose marker is still the one it started from covers everything reported (`Covered`). The last three are needed because
between the answer and the write a hook may come, and the code's only defence is to compare the stamp. The actions are first
summed up as a dozen kinds of steps by what they do to the copies (`Kind`), so that each part is shown once per kind. Proved,
for any number of hooks at a time: `TypeCorrect`, `WholeTranscriptAlways`, `FinalAlwaysSurvives`, `LostOnlyForCause`,
`AttemptsAlwaysEarned`, and `NewestWins`: what is stored is never replaced by an older transcript, since what is stored is at
most the body under way and that at most the transcript (`Newer`).

**IngestEventsProofs.** The invariant describes each open transaction: its new events are stored by nobody else and belong to
the sessions it holds or has yet to upsert (`Shaped`), the row it has written for a session it holds is still what its
events make of the committed row (`Written`), it writes run kinds of its own events and of sessions it holds only
(`Touched`), and once it has propagated, every event in the span of an escalated row has the row's kind (`Reached`); and no two
transactions share an event or a session (`Apart`). All of it is needed because the statements of a transaction see tables
that others commit to in between; the row lock of the upsert is what makes `Written` and `Reached` stay true until the commit.
Steps that commit nothing are handled by one lemma (`QuietKeeps`), so that only the request that moves needs a look.
That totals add up rests on facts about greatest and least elements of finite sets (`Extremes`, `MaxOfBoth`, `Adds`). Proved:
`TypeCorrect`, `EachCountedOnce`, `CompletedIfEnded`, `EscalationAlwaysReaches`, and `LedgerRefinement`, the implementation of
`EventLedger`, in which a commit is the one step that records: `Shaped` and `Apart` say that its events are new and all there,
`EachCountedOnce` that the totals move with them.

**PullRequestLoopProofs.** The invariant adds to `TypeOK` what each request that is under way has already done (`Progress`:
the statements before the one it is at have left their rows), that a processed delivery has had its effect unless its body
was unfit, and an acknowledged one is recorded (`Settled`), that if ingest has looked for the pull request in vain then no
handler has read the sessions without that one (`Linked`), and that a request about to post a comment found none but those
nobody was told of (`Commented`). `LinkNotLost` is the classical argument that of two parties who both write before they
read, one must see the other, and needs `Linked` because the reads and the processing of a delivery are several steps apart.
Proved: `TypeCorrect`, `OneCommentAlways`, `NoLinkLost`, `LossAlwaysVisible`; `SettledStays`, that a delivery processed or
failed is final and has no handler left, from `Progress`; and `CountersKnowNoMore`, that the counters say nothing no
delivery has told: there are at most as many reviews as rows, and at most as many failures as check runs that a delivery on
record told had failed (`NothingInvented`), for which what a handler has counted and not yet written must be bounded, too
(`Counts`). It does not say that a failure still stands: rows are written over, and a counter may exceed those that fail,
see the known disagreements.

**TranscriptUploadProofs.** The argument is carried by the two queues, of requests on their way and of requests at the lock. A
request stands in the queue its stage says, once, and only the head of the lock has come further (`Queues`), so at most one request
works with the scratch file, the object and the row; what it assembles is its body or garbage, which goes no further (`Contents`).
As long as requests enter in the order in which they were sent, bodies grow along the queues and what has been acknowledged
is at most what is to come (`Order`): that is why no stored transcript is replaced by an older one, which object
and row by themselves do not say. A sweep that no upload overlaps finds the row as it has read it (`Sweeps`), and whatever takes
an object from under a row, or from under an upload about to record it, is a deletion or has overlapped an upload (`Pointers`).
The actions are summed up as seven kinds of moves of a request through the queues. Assumed beside the bounds: no slot is called 0.
Proved: `TypeCorrect`, `PointersHold`, `FreshStays`, and `Implements`, the implementation of `TranscriptStore`. Of `UploadCompletes`: one
request at a time is past the lock (`OneHandlerAtATime`), and every request that is not answered stands in a queue whose head
can go on (`LockIsReleased`; inductive with `Lined`, the converse of `Queues`). Of `ErasedInTheEnd`: a deleted session with its
lock released comes back in no way (`NothingReturns`), and what is erased then stays so (`ErasedForGood`).

**OnDemandDrainProofs.** The argument is about responsibility. Unless somebody sleeps past the TTL of a lease: who counts on a lease
has it, so there is one pass (`Owned`); that pass has cleared the claim, and no hook makes another (`Cleared`); a pass that ends
for another reason than being done has recorded a failure (`Remembered`); behind a claim there is a hook or a pass that will
clear it (`Answered`); and whatever is in the queue or the markers, some hook has yet to decide about a drainer or some
process will look again (`Looked`). The last is not inductive without the others: a hook that leaves the work because of a
claim or a lease points to somebody, and they say that this one will look. `Work` adds that nothing is held back
without a failure and no marker goes without its events, `Rows` that who is in the row of a lease counts on it, for which
the row of a crashed process is a failure to be made good by a pass that holds both leases. Steps are summed up by what
they do to the leases (`LeaseSteps`), which gives the refinement as well. Proved: `TypeCorrect`, `NothingStranded`,
`NextHookFree`, `ClaimAnswered`, and `LeaseRefinement`, that `ExclusiveLease` is used as promised. From `Owned` there follows that
one pass is at work at a time (`OneDrainPass`), and with it that whatever a pass has in hand has not been delivered meanwhile
(`DeliveredOnce`, after a summary of how a pass comes to hold something and how work leaves); `WorkIsLookedAfter` states `Looked`
on its own, as the safety half of `RowsLeave`.

**Only model-checked:** the liveness properties, since they need fairness and ENABLED: `TheftIsNoticed`, `AbandonedRowComesFree`,
`RowsLeave`, `EveryRowLeaves`, `OwedIsSettled`, `ErasedInTheEnd`, `UploadCompletes`, `EveryEventCounted`, `EveryDeliveryRecorded`. The
theorems named above as parts of them say what a step can never undo; that the steps are taken is TLC's. Every other
property of the runs is proved, except `FailuresCounted`, which is false.

**Only proved:** what no property of a run states: `AttemptsEarned` of `EventQueue` and of `ShipMarker`, `CountersKnowNoMore`, `SettledStays`,
`NewestWins`, `NoDoubleFire`, the safety parts of the liveness properties, and the refinements of `EventLedger` and, by `JobScheduler`,
of `ExclusiveLease`.


## What is not modelled

* *Access, refresh and hook tokens; login.* Rotation is one transaction that claims its row, and the rest is cryptography, the
  keychain and GitHub's answers. Next in the plan.
* *Alerts.* One job at a time, under the lock that is modelled; thresholds are SQL aggregates.
* *Scoring, judging, attribution and the other batch jobs.* Sequential programs over aggregates.
* *Adapters, session import, redaction, schemas.* Pure functions over text and ratios: nothing concurrent, and small
  instances would say nothing.
* *Web app and its queries.* Read-only queries and forms, more than half of the source; the Run button of the job page is in
  `JobScheduler`. *Seed data, migrations, charts, site and scripts* have no behaviour of their own, apart from the
  constraints a modelled statement relies on. *Installation and service managers* edit files.
* *Within the modelled components*, what each section above names as left out.

Most of the repository's lines are dashboards, SQL, seed data, format translation and user interface; the share of lines the
`map` covers is small for that reason, while the protocols between processes, which are what model checking is good for,
are covered for the most part.


## Plan

Done: the modules above, in the order of their sections. Left, in this order:

1. `RefreshTokens`: rotation, revocation, the device flow with slow_down; a token is rotated at most once.
2. Several replicas of the transcript endpoint, each with a lock and scratch files of its own.
3. The bulk tail of a hook (`queueTail`): chunks and cursors beside other hooks and the drain; its inserts are in `EventQueue`.
4. `AlertTransitions`: fire, resolve and dispatch under the job lock, with and without its exclusion.
5. Revert detection and the links made by hand in `PullRequestLoop`.
