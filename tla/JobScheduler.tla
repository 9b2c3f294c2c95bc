---------------------------- MODULE JobScheduler ----------------------------
(***************************************************************************)
(* How the ingest replicas run one of their jobs (scheduler.ts, job-run.ts):*)
(* every replica polls job_config, answers a manual request or the minute  *)
(* the job is scheduled for, and runs the job under a Postgres advisory    *)
(* lock.                                                                   *)
(*                                                                         *)
(* The lock belongs to a database session and is counted: the session that *)
(* holds it gets it again.  Prisma takes a connection of the replica's     *)
(* pool for each statement, so the statement that locks and the one that   *)
(* unlocks may run in different sessions; which one is left open here.     *)
(* Nothing keeps the pool from closing the session of the lock while the   *)
(* job is busy with others: "severed" says in which replicas that happened.*)
(* Timestamps are numbers, handed out in order.  A replica's poll is over  *)
(* before its next one begins, a minute later.                             *)
(***************************************************************************)
EXTENDS Integers, FiniteSets

CONSTANTS
  Replica,       \* ingest processes
  Conn,          \* database sessions
  PoolOf,        \* PoolOf[c]: the replica whose pool c is in
  Run,           \* invocations of the job, at most so many at a time
  Configurable,  \* the job is one of CONFIGURABLE_JOBS
  MaxRequests,   \* bound on the manual requests
  MaxClock,      \* bound on the timestamps
  MaxMinutes,    \* bound on the minutes the job is scheduled for
  Faults         \* what may go wrong: see Fault

Fault == {"statement",  \* a statement fails
          "crash",      \* a replica dies
          "switch"}     \* an admin switches the job on or off

ASSUME PoolsOk == PoolOf \in [Conn -> Replica]
ASSUME ReplicasOk == Replica # {}
ASSUME RunsOk == IsFiniteSet(Run)
ASSUME BoundsOk == {MaxRequests, MaxClock, MaxMinutes} \subseteq Nat
ASSUME FaultsOk == Faults \subseteq Fault /\ Configurable \in BOOLEAN

VARIABLES
  enabled,      \* job_config.enabled
  requestedAt,  \* job_config.run_requested_at, 0 for null
  latestRun,    \* newest started_at in job_runs, 0 for none
  clock,        \* the last timestamp handed out
  requests,     \* manual requests so far
  minute,       \* how many minutes the job was scheduled for have come
  isDue,        \* the last of them is now
  lastRan,      \* lastRan[i]: replica i's lastRanMinute
  poll,         \* poll[i]: the poll under way in replica i
  run,          \* run[r]: what invocation r is at
  holds,        \* holds[c]: how often session c holds the advisory lock
  severed,      \* replicas whose pool closed the session of the lock under an
                \* invocation, until those that ran with it are over (ghost)
  answered      \* <<i, q>>: replica i launched a run for request q (ghost)

config == <<enabled, requestedAt>>
time == <<clock, requests, minute, isDue>>
lock == <<holds, severed>>
vars == <<config, latestRun, time, lastRan, poll, run, lock, answered>>

-----------------------------------------------------------------------------
Quiet == [pc |-> "idle", enabled |-> FALSE, requested |-> 0]

PollState == [pc : {"idle", "runs", "clear"}, enabled : BOOLEAN, requested : Nat]

\* An invocation waits for the lock, creates its job_runs row, runs the job's
\* function, and unlocks.
NoRun == [pc |-> "idle", on |-> CHOOSE i \in Replica : TRUE, asked |-> 0]

RunState == [pc : {"idle", "lock", "create", "body", "unlock"}, on : Replica, asked : Nat]

TypeOK ==
  /\ enabled \in BOOLEAN
  /\ requestedAt \in Nat /\ latestRun \in Nat /\ clock \in Nat
  /\ requests \in 0..MaxRequests
  /\ minute \in 0..MaxMinutes /\ isDue \in BOOLEAN
  /\ lastRan \in [Replica -> 0..MaxMinutes]
  /\ poll \in [Replica -> PollState]
  /\ run \in [Run -> RunState]
  /\ holds \in [Conn -> Nat] /\ severed \subseteq Replica
  /\ answered \subseteq Replica \X Nat

Init ==
  /\ enabled \in BOOLEAN /\ (~Configurable => ~enabled)
  /\ requestedAt = 0 /\ latestRun = 0 /\ clock = 0 /\ requests = 0
  /\ minute = 0 /\ isDue = FALSE
  /\ lastRan = [i \in Replica |-> 0]
  /\ poll = [i \in Replica |-> Quiet]
  /\ run = [r \in Run |-> NoRun]
  /\ holds = [c \in Conn |-> 0] /\ severed = {}
  /\ answered = {}

-----------------------------------------------------------------------------
(* People and time.                                                        *)

\* The button of /admin/jobs, for an enabled job, or POST /admin/jobs/:name/run,
\* for any.
Request ==
  /\ requests < MaxRequests /\ clock < MaxClock
  /\ requestedAt' = clock + 1 /\ clock' = clock + 1
  /\ requests' = requests + 1
  /\ UNCHANGED <<enabled, latestRun, minute, isDue, lastRan, poll, run, lock, answered>>

Switch ==
  /\ "switch" \in Faults /\ Configurable
  /\ enabled' = ~enabled
  /\ UNCHANGED <<requestedAt, latestRun, time, lastRan, poll, run, lock, answered>>

MinuteComes ==
  /\ ~isDue /\ minute < MaxMinutes
  /\ minute' = minute + 1 /\ isDue' = TRUE
  /\ UNCHANGED <<config, latestRun, clock, requests, lastRan, poll, run, lock, answered>>

MinutePasses ==
  /\ isDue
  /\ isDue' = FALSE
  /\ UNCHANGED <<config, latestRun, clock, requests, minute, lastRan, poll, run, lock, answered>>

-----------------------------------------------------------------------------
(* A poll.                                                                 *)

Launch(i, request) ==
  \E r \in Run :
    /\ run[r].pc = "idle"
    /\ run' = [run EXCEPT ![r] = [pc |-> "lock", on |-> i, asked |-> request]]

\* Read job_config.  Without a request, launch the job if its minute is now
\* and this replica has not launched it for it.
PollConfig(i) ==
  /\ poll[i].pc = "idle"
  /\ IF requestedAt # 0
     THEN /\ poll' = [poll EXCEPT ![i] = [pc |-> "runs", enabled |-> enabled,
                                          requested |-> requestedAt]]
          /\ UNCHANGED <<lastRan, run>>
     ELSE /\ enabled /\ isDue /\ lastRan[i] # minute
          /\ lastRan' = [lastRan EXCEPT ![i] = minute]
          /\ Launch(i, 0)
          /\ UNCHANGED poll
  /\ UNCHANGED <<config, latestRun, time, lock, answered>>

Refused(i) == Configurable /\ ~poll[i].enabled

\* Read the newest run (none, if that fails).  One that started after the
\* request ends the poll; a refused or an unanswered request is cleared first.
PollRuns(i) ==
  /\ poll[i].pc = "runs"
  /\ \E newest \in {latestRun} \cup (IF "statement" \in Faults THEN {0} ELSE {}) :
       IF newest > poll[i].requested /\ ~Refused(i)
       THEN poll' = [poll EXCEPT ![i] = Quiet]
       ELSE poll' = [poll EXCEPT ![i].pc = "clear"]
  /\ UNCHANGED <<config, latestRun, time, lastRan, run, lock, answered>>

\* Slip: the request is cleared after the launch, whether or not that works.
ClearRequestLate(i) ==
  /\ poll[i].pc = "clear"
  /\ poll' = [poll EXCEPT ![i] = Quiet]
  /\ \/ requestedAt' = 0
     \/ "statement" \in Faults /\ UNCHANGED requestedAt
  /\ IF Refused(i)
     THEN UNCHANGED <<run, answered>>
     ELSE Launch(i, poll[i].requested) /\ answered' = answered \cup {<<i, poll[i].requested>>}
  /\ UNCHANGED <<enabled, latestRun, time, lastRan, lock>>

\* Clear the request, whichever it is by now, and launch the job; if that
\* fails leave both to the next poll.
ClearRequest(i) ==
  /\ poll[i].pc = "clear"
  /\ poll' = [poll EXCEPT ![i] = Quiet]
  /\ \/ /\ requestedAt' = 0
        /\ IF Refused(i)
           THEN UNCHANGED <<run, answered>>
           ELSE /\ Launch(i, poll[i].requested)
                /\ answered' = answered \cup {<<i, poll[i].requested>>}
     \/ /\ "statement" \in Faults
        /\ UNCHANGED <<requestedAt, run, answered>>
  /\ UNCHANGED <<enabled, latestRun, time, lastRan, lock>>

-----------------------------------------------------------------------------
(* An invocation: withJobRun.                                              *)

Pool(i) == {c \in Conn : PoolOf[c] = i}

\* Invocations of replica i that took the lock and have yet to give it back.
Locked(i) == {r \in Run : run[r].on = i /\ run[r].pc \in {"create", "body", "unlock"}}

\* A replica is as it was once those that ran with the lost session are over.
Mended == severed' = {i \in severed : Locked(i)' # {}}

GoTo(r, stage) ==
  run' = [run EXCEPT ![r] = IF stage = "idle" THEN NoRun ELSE [@ EXCEPT !.pc = stage]]

\* Slip: the lock is shared.
TryLockShared(r) ==
  /\ run[r].pc = "lock"
  /\ \E c \in Pool(run[r].on) :
       GoTo(r, "create") /\ holds' = [holds EXCEPT ![c] = @ + 1]
  /\ UNCHANGED <<config, latestRun, time, lastRan, poll, severed, answered>>

\* pg_try_advisory_lock; without it the run is skipped.
TryLock(r) ==
  /\ run[r].pc = "lock"
  /\ \/ \E c \in Pool(run[r].on) :
          IF \A d \in Conn \ {c} : holds[d] = 0
          THEN GoTo(r, "create") /\ holds' = [holds EXCEPT ![c] = @ + 1]
          ELSE GoTo(r, "idle") /\ UNCHANGED holds
     \/ "statement" \in Faults /\ GoTo(r, "idle") /\ UNCHANGED holds
  /\ UNCHANGED <<config, latestRun, time, lastRan, poll, severed, answered>>

CreateRow(r) ==
  /\ run[r].pc = "create"
  /\ \/ clock < MaxClock /\ GoTo(r, "body") /\ latestRun' = clock + 1 /\ clock' = clock + 1
     \/ "statement" \in Faults /\ GoTo(r, "unlock") /\ UNCHANGED <<latestRun, clock>>
  /\ UNCHANGED <<config, requests, minute, isDue, lastRan, poll, lock, answered>>

\* fn returns or throws, and the row says so.
BodyEnds(r) ==
  /\ run[r].pc = "body"
  /\ GoTo(r, "unlock")
  /\ UNCHANGED <<config, latestRun, time, lastRan, poll, lock, answered>>

\* Slip: every unlock counts, whatever the session it runs in.
UnlockAnywhere(r) ==
  /\ run[r].pc = "unlock"
  /\ GoTo(r, "idle")
  /\ \/ \E c \in Pool(run[r].on) : holds' = [holds EXCEPT ![c] = @ - 1]
     \/ "statement" \in Faults /\ UNCHANGED holds
  /\ Mended
  /\ UNCHANGED <<config, latestRun, time, lastRan, poll, answered>>

\* pg_advisory_unlock: a session that does not hold the lock cannot free it.
Unlock(r) ==
  /\ run[r].pc = "unlock"
  /\ GoTo(r, "idle")
  /\ \/ \E c \in Pool(run[r].on) :
          holds' = [holds EXCEPT ![c] = IF @ > 0 THEN @ - 1 ELSE 0]
     \/ "statement" \in Faults /\ UNCHANGED holds
  /\ Mended
  /\ UNCHANGED <<config, latestRun, time, lastRan, poll, answered>>

-----------------------------------------------------------------------------
\* The pool closes a connection it has not used for a while (10 s, unless set
\* otherwise); its session ends and with it the lock, be it a lock that was
\* left behind or that of a job which is busy elsewhere.
CloseIdle(c) ==
  /\ holds[c] > 0
  /\ holds' = [holds EXCEPT ![c] = 0]
  /\ severed' = severed \cup {i \in {PoolOf[c]} : Locked(i) # {}}
  /\ UNCHANGED <<config, latestRun, time, lastRan, poll, run, answered>>

\* A replica dies and is restarted.
Crash(i) ==
  /\ "crash" \in Faults
  /\ lastRan' = [lastRan EXCEPT ![i] = 0]
  /\ poll' = [poll EXCEPT ![i] = Quiet]
  /\ run' = [r \in Run |-> IF run[r].on = i THEN NoRun ELSE run[r]]
  /\ holds' = [c \in Conn |-> IF PoolOf[c] = i THEN 0 ELSE holds[c]]
  /\ Mended
  /\ UNCHANGED <<config, latestRun, time, answered>>

-----------------------------------------------------------------------------
Poll(i) == PollConfig(i) \/ PollRuns(i) \/ ClearRequest(i)

Proceed(r) == TryLock(r) \/ CreateRow(r) \/ BodyEnds(r) \/ Unlock(r)

Next ==
  \/ Request \/ Switch \/ MinuteComes \/ MinutePasses
  \/ \E i \in Replica : Poll(i) \/ Crash(i)
  \/ \E r \in Run : Proceed(r)
  \/ \E c \in Conn : CloseIdle(c)

Spec == Init /\ [][Next]_vars

-----------------------------------------------------------------------------
(* Properties.                                                             *)

Working == {r \in Run : run[r].pc \in {"create", "body"}}

\* Two ingest replicas run the job at the same time (withJobRun) only if the
\* pool of one of them has closed the session of the lock under an invocation
\* which is not over, or was not when the others of that replica began: that
\* the lock may be freed in another session than it was taken in, or be left
\* behind, does not bring it about.
NoOverlapAcrossReplicas ==
  \A r, s \in Working :
    run[r].on # run[s].on => {run[r].on, run[s].on} \cap severed # {}

\* A replica launches a request at most once, although the statement that
\* clears it may fail: startScheduler, "rather than risk double-firing on the
\* next one".
RequestLaunchesOnce ==
  [][\A r \in Run :
       LET launched == run'[r]
       IN  run[r].pc = "idle" /\ launched.pc = "lock" /\ launched.asked # 0
             => <<launched.on, launched.asked>> \notin answered]_vars
=============================================================================
