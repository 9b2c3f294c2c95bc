---------------------------- MODULE DeliveryLease ----------------------------
(***************************************************************************)
(* The delivery leases of the hook CLI (apps/hook/src/lib/lease.ts): one   *)
(* row of queue.db per kind of delivery work, taken with a single UPDATE,  *)
(* renewed on a timer, freed by its owner or by its expiry.                *)
(*                                                                         *)
(* Time is kept as countdowns: row[k].expires is expires_at minus the wall *)
(* clock, and lag[p] is how long ago p read the clock for the statement it *)
(* is now waiting to run -- the code reads Date.now() BEFORE the UPDATE    *)
(* waits for SQLite's write lock.  No expires_at is ever compared with a   *)
(* reading older than MaxLag, so an expiry further back is kept at Floor.  *)
(*                                                                         *)
(* A call of withLease owns its rows through a random token.  A process    *)
(* runs one call at a time, so its name stands for the token of that call; *)
(* when the call ends without freeing a row, the token there can never be  *)
(* used again and becomes None.  The pid column outlives it.               *)
(***************************************************************************)
EXTENDS Integers, FiniteSets

CONSTANTS
  Kind,         \* 'events', 'transcripts'
  Proc,         \* processes that may want a lease
  Needed,       \* Needed[p]: kinds the role of p cannot work without
  Optional,     \* Optional[p]: kinds it takes if they are free
  Ttl,          \* LEASE_TTL_MS
  Sanity,       \* LEASE_SANITY_MS
  MaxLag,       \* longest wait between a clock reading and its last UPDATE
  ClockStep,    \* amounts by which the wall clock may be stepped
  MaxSteps,     \* bound on the number of such steps
  None          \* SQL NULL

ASSUME KindsFinite == IsFiniteSet(Kind)
ASSUME RoleKinds == /\ Needed \in [Proc -> SUBSET Kind]
                    /\ Optional \in [Proc -> SUBSET Kind]
                    /\ \A p \in Proc : Needed[p] # {}
ASSUME NoneIsNoProc == None \notin Proc
ASSUME Durations == Ttl \in Nat \ {0} /\ Sanity \in Nat /\ MaxLag \in Nat
ASSUME Steps == ClockStep \subseteq Int /\ MaxSteps \in Nat
\* Why LEASE_SANITY_MS is several TTLs: it absorbs the wait for the write lock.
ASSUME SanityCoversTheWait == Sanity >= Ttl + MaxLag

VARIABLES
  row,        \* row[k]: the delivery_lease row of kind k
  pc,         \* pc[p]: where p is in withLease
  held,       \* held[p]: heldKinds
  untried,    \* untried[p]: kinds the acquisition still has to try
  lost,       \* lost[p]: a renewal found the lease taken
  lag,        \* lag[p]: age of the clock reading of p's pending statement
  deadline,   \* deadline[p]: time left on what p last wrote
  steps       \* clock steps so far

vars == <<row, pc, held, untried, lost, lag, deadline, steps>>

-----------------------------------------------------------------------------
Floor == -MaxLag

AtLeast(x, low) == IF x < low THEN low ELSE x

Row == [token : Proc \cup {None}, pid : Proc \cup {None}, expires : Int]

\* Slip: release and schema leave expires_at NULL, which no comparison meets.
FreeRowSlip == [token |-> None, pid |-> None, expires |-> None]

FreeRow == [token |-> None, pid |-> None, expires |-> Floor]

\* The stages of a call: trying kinds, backing out of a partial hold, waiting
\* to try again, running fn, renewing, giving up a lost lease, adding a kind,
\* fn returned.
Stage == {"idle", "acquire", "backout", "poll",
          "work", "renew", "drop", "add", "done"}

\* Stages that hold a clock reading not yet used.
Pending == {"acquire", "renew", "add"}

\* Stages in which fn is running.
Working == {"work", "renew", "drop", "add"}

TypeOK ==
  /\ row \in [Kind -> Row]
  /\ pc \in [Proc -> Stage]
  /\ held \in [Proc -> SUBSET Kind]
  /\ untried \in [Proc -> SUBSET Kind]
  /\ lost \in [Proc -> BOOLEAN]
  /\ lag \in [Proc -> Int]
  /\ deadline \in [Proc -> Int]
  /\ steps \in 0..MaxSteps

Init ==
  /\ row = [k \in Kind |-> FreeRow]
  /\ pc = [p \in Proc |-> "idle"]
  /\ held = [p \in Proc |-> {}]
  /\ untried = [p \in Proc |-> {}]
  /\ lost = [p \in Proc |-> FALSE]
  /\ lag = [p \in Proc |-> 0]
  /\ deadline = [p \in Proc |-> 0]
  /\ steps = 0

\* Slip: a bound of one TTL takes a lease renewed while the UPDATE waited.
TakeableTightBound(k, l) == row[k].expires <= -l \/ row[k].expires > Ttl - l

\* Slip: only a row whose holder cleared it counts as free.
TakeableOnlyReleased(k, l) == row[k].pid = None /\ row[k].expires <= -l

\* The WHERE clause of the acquiring UPDATE, for a reading taken l ago: the
\* row had expired by then, or outlives it by more than the sanity bound.
Takeable(k, l) == \/ row[k].expires <= -l
                  \/ row[k].expires > Sanity - l

TakenBy(p) ==
  [token |-> p, pid |-> p, expires |-> AtLeast(Ttl - lag[p], Floor)]

Owned(p) == {k \in Kind : row[k].token = p}

GoTo(p, s) == pc' = [pc EXCEPT ![p] = s]

\* Read the clock for the next statement; nothing has been waited for yet.
ReadClock(p) == lag' = [lag EXCEPT ![p] = 0]

\* withLease is over; its local variables go with it.
Leave(p) ==
  /\ GoTo(p, "idle")
  /\ held' = [held EXCEPT ![p] = {}]
  /\ untried' = [untried EXCEPT ![p] = {}]
  /\ lost' = [lost EXCEPT ![p] = FALSE]
  /\ deadline' = [deadline EXCEPT ![p] = 0]
  /\ ReadClock(p)
  /\ UNCHANGED steps

\* The rows of a call that is over: nobody knows their token any more.
Abandon(p) == [k \in Kind |-> IF row[k].token = p
                              THEN [row[k] EXCEPT !.token = None] ELSE row[k]]

\* Slip: release by kind instead of by token.
ReleasedByKind(p) == [k \in Kind |-> IF k \in held[p] THEN FreeRow ELSE row[k]]

\* release(): one UPDATE by token, whose failure is swallowed.
Released(p) == [k \in Kind |-> IF row[k].token = p THEN FreeRow ELSE row[k]]

-----------------------------------------------------------------------------
(* Acquisition: every needed kind or none, then the optional ones, all     *)
(* with the one clock reading of the attempt.                              *)

Attempt(p) ==
  /\ GoTo(p, "acquire")
  /\ held' = [held EXCEPT ![p] = {}]
  /\ untried' = [untried EXCEPT ![p] = Needed[p] \cup Optional[p]]
  /\ ReadClock(p)
  /\ deadline' = [deadline EXCEPT ![p] = Ttl]

Begin(p) ==
  /\ pc[p] = "idle"
  /\ Attempt(p)
  /\ UNCHANGED <<row, lost, steps>>

\* waitMs: a foreground command polls for a holder that should finish.
Retry(p) == pc[p] = "poll" /\ Attempt(p) /\ UNCHANGED <<row, lost, steps>>

GiveUp(p) ==
  /\ pc[p] = "poll"
  /\ row' = Abandon(p)
  /\ Leave(p)

\* Optional kinds come after the needed ones.
InTurn(p, k) == k \in untried[p] /\ (k \in Needed[p] \/ untried[p] \cap Needed[p] = {})

TryKind(p, k) ==
  /\ pc[p] = "acquire"
  /\ InTurn(p, k)
  /\ LET got == Takeable(k, lag[p])
     IN  /\ got \/ k \notin Needed[p]
         /\ row' = IF got THEN [row EXCEPT ![k] = TakenBy(p)] ELSE row
         /\ held' = IF got THEN [held EXCEPT ![p] = @ \cup {k}] ELSE held
  /\ untried' = [untried EXCEPT ![p] = @ \ {k}]
  /\ IF untried[p] = {k}
     THEN GoTo(p, "work") /\ ReadClock(p)
     ELSE UNCHANGED <<pc, lag>>
  /\ UNCHANGED <<lost, deadline, steps>>

\* A needed kind is taken: back out of what the attempt already holds.
Refused(p, k) ==
  /\ pc[p] = "acquire"
  /\ InTurn(p, k) /\ k \in Needed[p] /\ ~Takeable(k, lag[p])
  /\ GoTo(p, "backout")
  /\ ReadClock(p)
  /\ UNCHANGED <<row, held, untried, lost, deadline, steps>>

BackOut(p) ==
  /\ pc[p] = "backout"
  /\ row' \in {Released(p), row}
  /\ GoTo(p, "poll")
  /\ UNCHANGED <<held, untried, lost, lag, deadline, steps>>

\* The write lock did not come: the statement throws out of withLease, before
\* the try block whose finally would free what the attempt already took.
AcquireBusy(p) ==
  /\ pc[p] = "acquire"
  /\ row' = Abandon(p)
  /\ Leave(p)

-----------------------------------------------------------------------------
(* Holding: the renewal timer or check() renews, tryAdd adds a kind.       *)

StartRenew(p) ==
  /\ pc[p] = "work" /\ ~lost[p]
  /\ GoTo(p, "renew")
  /\ ReadClock(p)
  /\ UNCHANGED <<row, held, untried, lost, deadline, steps>>

\* Slip: renew by kind instead of by token.
RenewedByKind(p) ==
  [k \in Kind |-> IF k \in held[p] THEN TakenBy(p) ELSE row[k]]

Renewed(p) ==
  [k \in Kind |-> IF row[k].token = p
                  THEN [row[k] EXCEPT !.expires = AtLeast(Ttl - lag[p], Floor)]
                  ELSE row[k]]

\* Slip: only the loss of every row is noticed.
NoticesTotalLoss(p) == Owned(p) = {}

\* Fewer rows than kinds held: someone took one.
NoticesLoss(p) == Cardinality(Owned(p)) < Cardinality(held[p])

Renew(p) ==
  /\ pc[p] = "renew"
  /\ row' = Renewed(p)
  /\ IF NoticesLoss(p)
     THEN /\ lost' = [lost EXCEPT ![p] = TRUE]
          /\ GoTo(p, "drop")
          /\ UNCHANGED deadline
     ELSE /\ deadline' = [deadline EXCEPT ![p] = AtLeast(Ttl - lag[p], 0)]
          /\ GoTo(p, "work")
          /\ UNCHANGED lost
  /\ ReadClock(p)
  /\ UNCHANGED <<held, untried, steps>>

\* A busy database is not a lost lease: fn carries on.
RenewBusy(p) ==
  /\ pc[p] = "renew"
  /\ GoTo(p, "work")
  /\ ReadClock(p)
  /\ UNCHANGED <<row, held, untried, lost, deadline, steps>>

\* A lost lease frees whatever it still owns; fn runs on until it notices.
Drop(p) ==
  /\ pc[p] = "drop"
  /\ row' \in {Released(p), row}
  /\ GoTo(p, "work")
  /\ UNCHANGED <<held, untried, lost, lag, deadline, steps>>

\* tryAdd: untried[p] is the kind asked for.
StartAdd(p, k) ==
  /\ pc[p] = "work" /\ ~lost[p]
  /\ k \in Optional[p] \ held[p]
  /\ GoTo(p, "add")
  /\ untried' = [untried EXCEPT ![p] = {k}]
  /\ ReadClock(p)
  /\ UNCHANGED <<row, held, lost, deadline, steps>>

TryAdd(p, k) ==
  /\ pc[p] = "add" /\ k \in untried[p]
  /\ IF Takeable(k, lag[p])
     THEN /\ row' = [row EXCEPT ![k] = TakenBy(p)]
          /\ held' = [held EXCEPT ![p] = @ \cup {k}]
     ELSE UNCHANGED <<row, held>>
  /\ untried' = [untried EXCEPT ![p] = {}]
  /\ GoTo(p, "work")
  /\ ReadClock(p)
  /\ UNCHANGED <<lost, deadline, steps>>

\* tryAdd throws: fn ends, the finally block still frees the rows.
AddBusy(p) ==
  /\ pc[p] = "add"
  /\ GoTo(p, "done")
  /\ untried' = [untried EXCEPT ![p] = {}]
  /\ ReadClock(p)
  /\ UNCHANGED <<row, held, lost, deadline, steps>>

-----------------------------------------------------------------------------
(* The end of a call, foreseen or not.                                     *)

\* fn returns or throws; the renewal timer is cleared.
FnEnds(p) ==
  /\ pc[p] = "work"
  /\ GoTo(p, "done")
  /\ UNCHANGED <<row, held, untried, lost, lag, deadline, steps>>

Finish(p) ==
  /\ pc[p] = "done"
  /\ row' \in {Released(p), Abandon(p)}
  /\ Leave(p)

\* Its rows stand, but its pid no longer names one of our binaries.
Bereaved(p) ==
  [k \in Kind |-> IF row[k].pid = p
                  THEN [FreeRow EXCEPT !.expires = row[k].expires] ELSE row[k]]

\* The process is gone.
Crash(p) ==
  /\ pc[p] # "idle" \/ \E k \in Kind : row[k].pid = p
  /\ Leave(p)
  /\ row' = Bereaved(p)

\* stopLeaseHolder (uninstall, purge, a mode switch): kill the process named
\* by a live row, then free every row that bears its pid.
Stop(p) ==
  /\ \E k \in Kind : row[k].pid = p /\ row[k].expires \in 1..Sanity
  /\ Leave(p)
  /\ row' = [k \in Kind |-> IF row[k].pid = p THEN FreeRow ELSE row[k]]

-----------------------------------------------------------------------------
(* Time.                                                                   *)

Elapse(d) ==
  /\ row' = [k \in Kind |-> [row[k] EXCEPT !.expires = AtLeast(@ - d, Floor)]]
  /\ lag' = [p \in Proc |-> IF pc[p] \in Pending THEN lag[p] + d ELSE lag[p]]
  /\ deadline' = [p \in Proc |-> AtLeast(deadline[p] - d, 0)]

\* A waiting statement gets the write lock, or throws, within MaxLag.
Tick ==
  /\ \A p \in Proc : pc[p] \in Pending => lag[p] < MaxLag
  /\ Elapse(1)
  /\ UNCHANGED <<pc, held, untried, lost, steps>>

\* NTP, a suspend or the user moves the wall clock, by any number of units.
StepClock(d) ==
  /\ steps < MaxSteps
  /\ steps' = steps + 1
  /\ Elapse(d)
  /\ UNCHANGED <<pc, held, untried, lost>>

Step(p) ==
  \/ Begin(p) \/ Retry(p) \/ GiveUp(p) \/ BackOut(p) \/ AcquireBusy(p)
  \/ \E k \in Kind : TryKind(p, k) \/ Refused(p, k) \/ StartAdd(p, k) \/ TryAdd(p, k)
  \/ StartRenew(p) \/ Renew(p) \/ RenewBusy(p) \/ Drop(p) \/ AddBusy(p)
  \/ FnEnds(p) \/ Finish(p) \/ Crash(p) \/ Stop(p)

Next == Tick \/ \E p \in Proc : Step(p)

Spec == Init /\ [][Next]_vars

\* The same processes under a wall clock that somebody moves.
NextSteppedClock == Next \/ \E d \in ClockStep : StepClock(d)

SpecSteppedClock == Init /\ [][NextSteppedClock]_vars

-----------------------------------------------------------------------------
(* Properties.                                                             *)

\* p may count on being the only one to do work of kind k: fn is running, no
\* renewal reported a loss, and what p last wrote has not run out.
Holds(p, k) ==
  pc[p] \in Working /\ ~lost[p] /\ k \in held[p] /\ deadline[p] > 0

\* At most one process does each kind of delivery work, however long an
\* acquiring or renewing UPDATE waited for the write lock with a stale clock
\* reading (lib/lease.ts, tryAcquireKind and the sanity bound).
MutualExclusion ==
  \A p, q \in Proc : \A k \in Kind : Holds(p, k) /\ Holds(q, k) => p = q

\* A row that has not run out is never taken from the call that owns it: it
\* only becomes free, when that call frees it, ends or is killed.
LiveLeaseNotStolen ==
  [][\A k \in Kind :
       LET o == row[k].token IN
       o # None /\ row[k].expires > 0 /\ row'[k].token # o
         => /\ row'[k].token = None
            /\ pc[o] \in {"backout", "drop", "done"} \/ pc'[o] = "idle"]_vars

\* Counting rows is a sound and complete test for theft: a running call that
\* has seen no loss owns no row beyond its heldKinds, so it sees fewer rows
\* than kinds exactly when one of its kinds is gone -- under any clock.
CountingDetectsTheft ==
  \A p \in Proc : pc[p] \in Working /\ ~lost[p] =>
     (NoticesLoss(p) <=> \E k \in held[p] : row[k].token # p)

Ownership == [k \in Kind |-> {p \in Proc : Holds(p, k)}]

Abstract == INSTANCE ExclusiveLease WITH owner <- Ownership

\* The rows, clock readings and renewals implement the abstract lease.
ImplementsExclusiveLease == Abstract!Spec

-----------------------------------------------------------------------------
(* Fairness.  Time passes; a statement that waits for the write lock is    *)
(* answered or throws; the renewal timer gets its turn between the other   *)
(* statements of its process; and the database is not busy at every single *)
(* renewal.  Nothing makes fn end, a process start, or a crash happen.     *)

\* The pending statement of p runs, or gives up on the write lock.
Answered(p) ==
  \/ AcquireBusy(p) \/ Renew(p) \/ RenewBusy(p) \/ AddBusy(p)
  \/ \E k \in Kind : TryKind(p, k) \/ Refused(p, k) \/ TryAdd(p, k)

Fairness ==
  /\ WF_vars(Tick)
  /\ \A p \in Proc :
       WF_vars(Answered(p)) /\ SF_vars(StartRenew(p)) /\ SF_vars(Renew(p))

FairSpecSteppedClock == SpecSteppedClock /\ Fairness

\* A row whose call is over (its process crashed, its release failed, or the
\* acquisition threw half way) becomes free for others by itself.
AbandonedRowComesFree ==
  \A k \in Kind : row[k].token = None ~> Takeable(k, 0) \/ row[k].token # None

\* A holder whose row was taken after its clock was stepped, or after it slept
\* past the TTL, learns of it or ends its work: it does not run on for ever
\* beside whoever took over.
TheftIsNoticed ==
  \A p \in Proc, k \in Kind :
    pc[p] \in Working /\ k \in held[p] /\ row[k].token # p
      ~> lost[p] \/ pc[p] \notin Working
=============================================================================
