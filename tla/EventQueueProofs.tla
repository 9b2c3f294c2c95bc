-------------------------- MODULE EventQueueProofs --------------------------
(***************************************************************************)
(* Proofs about EventQueue: its types, that the attempts column never runs *)
(* ahead of the refusals behind it, and that a row leaves the queue        *)
(* undelivered only for a cause; and what EveryRowLeaves owes to safety:   *)
(* attempts only grow, a row that has none left is not posted, and a       *)
(* rejected token is not used again before its re-probe.                   *)
(***************************************************************************)
EXTENDS EventQueue, FiniteSetTheorems, TLAPS

\* No row in flight has used up its attempts, until it is charged.
RoomLeft ==
  pc \in {"taken", "accepted", "refused", "deferred", "unauthorized"} =>
    \A e \in batch : attempts[e] < MaxAttempts

\* A refusal that is yet to be charged has been counted.
RefusalCounted == pc = "refused" => \A e \in batch : attempts[e] < refused[e]

\* What the server acknowledged it has stored.
AcceptedStored == pc = "accepted" => batch \subseteq delivered

Inv == TypeOK /\ AttemptsEarned /\ RoomLeft /\ RefusalCounted /\ AcceptedStored

-----------------------------------------------------------------------------
(* Tables and helpers.                                                     *)

\* The assumptions on the constants, one by one.
LEMMA Bounds ==
  /\ MaxTs \in Nat /\ FreeThrows \in Nat /\ MaxLogins \in Nat \ {0}
  /\ BatchSize \in Nat \ {0} /\ MaxAttempts \in Nat \ {0} /\ MaxEvents \in Nat \ {0}
BY EventsOk, BoundsOk

\* The caps count the rows of a finite set.
LEMMA EventsFinite == IsFiniteSet(Event)
BY EventsOk, FS_Interval DEF Event

\* The oldest n rows of a set are older than the rest of it.
LEMMA OldestAreOlder ==
  ASSUME NEW S \in SUBSET Event, NEW n \in Nat,
         NEW e \in Oldest(n, S), NEW f \in S \ Oldest(n, S)
  PROVE  e < f
<1> DEFINE Below(g) == {h \in S : h < g}
<1>1. e \in Nat /\ f \in Nat
  BY EventsOk DEF Oldest, Event
<1>2. IsFiniteSet(Below(e)) /\ IsFiniteSet(Below(f))
  BY EventsFinite, FS_Subset
<1>3. Cardinality(Below(e)) \in Nat /\ Cardinality(Below(f)) \in Nat
  BY <1>2, FS_CardinalityType
<1>4. Cardinality(Below(e)) < n /\ ~(Cardinality(Below(f)) < n)
  BY DEF Oldest
<1>5. SUFFICES ASSUME f <= e PROVE FALSE
  BY <1>1
<1>6. Below(f) \subseteq Below(e)
  <2>1. \A h \in S : h \in Nat
    BY EventsOk DEF Event
  <2>2. SUFFICES ASSUME NEW h \in S, h < f PROVE h < e
    OBVIOUS
  <2>3. QED
    BY <1>1, <1>5, <2>1, <2>2
<1>7. Cardinality(Below(f)) <= Cardinality(Below(e))
  BY <1>2, <1>6, FS_Subset
<1>8. QED
  BY <1>3, <1>4, <1>7

\* A statement that keeps some of the rows, or writes new ones with no
\* attempts, keeps what is known of them.
LEMMA KeepRows ==
  ASSUME Inv, NEW S \in SUBSET written', written' \subseteq Event, Keep(S)
  PROVE  /\ queued' \subseteq written' /\ heldBack' \subseteq queued'
         /\ attempts' \in [Event -> 0..MaxAttempts]
         /\ refused' \in [Event -> 0..MaxAttempts]
         /\ \A e \in Event \ queued' : attempts'[e] = 0
         /\ \A e \in Event : attempts'[e] <= attempts[e]
         /\ \A e \in batch : refused'[e] = refused[e]
         /\ AttemptsEarned'
BY Bounds DEF Inv, TypeOK, Keep, AttemptsEarned

-----------------------------------------------------------------------------
(* The invariant.                                                          *)

LEMMA InvInit == Init => Inv
<1> SUFFICES ASSUME Init PROVE Inv
  OBVIOUS
<1>1. attempts \in [Event -> 0..MaxAttempts] /\ refused \in [Event -> 0..MaxAttempts]
  BY Bounds DEF Init
<1>2. rejected \in [Worker -> Token] /\ logins \in Token /\ token \in 0..logins
  BY Bounds DEF Init, Token
<1>3. TypeOK
  <2>1. /\ setting \in Scenario /\ written \subseteq Event /\ queued \subseteq written /\ heldBack \subseteq queued
        /\ delivered \subseteq Event /\ batch \subseteq Event /\ revoked \subseteq 1..logins
        /\ \A e \in Event \ queued : attempts[e] = 0
    BY DEF Init
  <2>2. /\ horizon \in 0..MaxTs /\ head \in 0..MaxTs /\ jwt \in Token
        /\ throwingHead \in 0..MaxTs /\ throwCount \in 0..FreeThrows + 1
    BY Bounds DEF Init, Token
  <2>5. expiredLately \in BOOLEAN
    BY DEF Init
  <2>3. pc \in Stage /\ by \in Worker \cup {"none"} /\ (by = "none" <=> pc = "idle")
    BY DEF Init, Stage
  <2>4. QED
    BY <1>1, <1>2, <2>1, <2>2, <2>3, <2>5 DEF TypeOK
<1>4. AttemptsEarned /\ RoomLeft /\ RefusalCounted /\ AcceptedStored
  BY DEF Init, AttemptsEarned, RoomLeft, RefusalCounted, AcceptedStored
<1>5. QED
  BY <1>3, <1>4 DEF Inv

LEMMA InvNext == Inv /\ [Next]_vars => Inv'
<1> SUFFICES ASSUME Inv, [Next]_vars PROVE Inv'
  OBVIOUS
<1> USE Bounds
<1> USE DEF Inv, TypeOK, AttemptsEarned, RoomLeft, RefusalCounted, AcceptedStored, Stage, Token,
            rows, auth, throws, flush, memory
<1>1. ASSUME NEW e \in Event, Enqueue(e) PROVE Inv'
  <2>1. PICK S \in SUBSET written' : Keep(S)
    BY <1>1 DEF Enqueue
  <2>2. written' \subseteq Event /\ UNCHANGED <<setting, horizon, auth, delivered, flush, memory>>
    BY <1>1 DEF Enqueue
  <2>3. QED
    BY <2>1, <2>2, KeepRows
<1>2. ASSUME NEW e \in Event, RetryTimeComes(e) PROVE Inv'
  BY <1>2 DEF RetryTimeComes
<1>3. ASSUME NEW S \in SUBSET Event, EnqueueMany(S) PROVE Inv'
  BY <1>3, KeepRows DEF EnqueueMany
<1>4. CASE ResidentExpires
  BY <1>4, KeepRows DEF ResidentExpires
<1>5. CASE Begin
  BY <1>5, KeepRows DEF Begin, Worker
<1>6. ASSUME NEW w \in Worker, TakeBatch(w) PROVE Inv'
  <2> DEFINE due == Oldest(BatchSize, Due(w))
  <2>1. due \subseteq queued /\ \A e \in due : attempts[e] < MaxAttempts
    BY DEF Oldest, Due
  <2>2. /\ Keep(queued \ (due \cap setting.corrupt))
        /\ UNCHANGED <<setting, written, horizon, auth, delivered, memory>>
        /\ \/ UNCHANGED flush
           \/ /\ pc' = "taken" /\ by' = w /\ jwt' = token /\ batch' \subseteq due
              /\ head' \in due
    BY <1>6 DEF TakeBatch, Oldest
  <2>3. CASE UNCHANGED flush
    BY <2>1, <2>2, <2>3, KeepRows
  <2>4. CASE pc' = "taken" /\ by' = w /\ jwt' = token /\ batch' \subseteq due /\ head' \in due
    <3>0. by' # "none" /\ by' \in Worker
      BY <2>4 DEF Worker
    <3>1. head' \in 0..MaxTs /\ batch' \subseteq Event
      <4>1. due \subseteq Event
        BY <2>1
      <4>2. QED
        BY <2>4, <4>1 DEF Event
    <3>4. jwt' \in Token
      BY <2>4
    <3>2. \A e \in batch' : attempts'[e] < MaxAttempts
      BY <2>1, <2>2, <2>4, KeepRows
    <3>3. QED
      BY <2>2, <2>4, <3>0, <3>1, <3>2, <3>4, KeepRows
  <2>5. QED
    BY <2>2, <2>3, <2>4
<1>8. CASE PassEnds
  BY <1>8 DEF PassEnds, EndFlush, GoTo
<1>9. CASE Abort
  BY <1>9 DEF Abort, EndFlush, GoTo
<1>10. CASE DrainerThrows
  BY <1>10 DEF DrainerThrows, EndFlush, GoTo, Refusal, Least
<1>11. CASE ResidentThrows
  BY <1>11 DEF ResidentThrows, EndFlush, GoTo, Refusal, MarkAttempt, Least
<1>12. CASE ServerAccepts
  BY <1>12 DEF ServerAccepts, CanPost, GoTo
<1>13. CASE ServerRefuses
  BY <1>13 DEF ServerRefuses, CanPost, GoTo, Refusal, Least
<1>14. CASE ServerThrottles
  BY <1>14 DEF ServerThrottles, CanPost, GoTo
<1>15. CASE ServerUnauthorizes
  BY <1>15 DEF ServerUnauthorizes, CanPost, GoTo
<1>16. CASE NoAnswer
  BY <1>16 DEF NoAnswer, CanPost, GoTo, Refusal, Least
<1>17. CASE Sent
  BY <1>17 DEF Sent, NextBatch, GoTo
<1>18. CASE Unauthorized
  BY <1>18 DEF Unauthorized, EndFlush, GoTo
<1>19. CASE Defer
  BY <1>19 DEF Defer, EndFlush, GoTo
<1>20. CASE Charge
  BY <1>20 DEF Charge, MarkAttempt, GoTo
<1>21. CASE DropAbandoned
  BY <1>21, KeepRows DEF DropAbandoned, EndFlush, GoTo
<1>22. ASSUME NEW w \in Worker, ReprobeTimeComes(w) PROVE Inv'
  BY <1>22 DEF ReprobeTimeComes
<1>23. CASE MinutePasses
  BY <1>23 DEF MinutePasses
<1>24. CASE Age
  BY <1>24 DEF Age
<1>25. CASE Login
  BY <1>25 DEF Login
<1>26. CASE Logout
  BY <1>26 DEF Logout
<1>27. CASE Revoke
  BY <1>27 DEF Revoke
<1>28. CASE Crash
  <2>1. CASE by = "resident"
    <3>1. rejected' \in [Worker -> Token]
      BY <1>28, <2>1 DEF Crash
    <3>2. throwingHead' \in 0..MaxTs /\ throwCount' \in 0..FreeThrows + 1
      BY <1>28, <2>1 DEF Crash
    <3>6. expiredLately' \in BOOLEAN
      BY <1>28, <2>1 DEF Crash
    <3>3. /\ UNCHANGED <<setting, written, rows, horizon, auth, delivered>>
          /\ pc' = "idle" /\ by' = "none" /\ head' = 0 /\ batch' = {} /\ jwt' = 0
      BY <1>28 DEF Crash, EndFlush, GoTo
    <3>4. TypeOK'
      BY <3>1, <3>2, <3>3, <3>6
    <3>5. QED
      BY <3>3, <3>4
  <2>2. CASE by # "resident"
    BY <1>28, <2>2 DEF Crash, EndFlush, GoTo
  <2>3. QED
    BY <2>1, <2>2
<1>29. CASE UNCHANGED vars
  BY <1>29 DEF vars
<1>30. ResidentTakes => Inv'
  BY <1>6 DEF ResidentTakes, Worker
<1>31. DrainerTakes => Inv'
  BY <1>6 DEF DrainerTakes, Worker
<1> QED
  BY <1>1, <1>2, <1>3, <1>4, <1>5, <1>8, <1>9, <1>10, <1>11, <1>12, <1>13, <1>14,
     <1>15, <1>16, <1>17, <1>18, <1>19, <1>20, <1>21, <1>22, <1>23, <1>24, <1>25,
     <1>26, <1>27, <1>28, <1>29, <1>30, <1>31 DEF Next, Hear, Account

-----------------------------------------------------------------------------
(* The theorems about the columns.                                         *)

\* The invariant holds in every behaviour of the queue.
LEMMA InvAlways == Spec => []Inv
BY InvInit, InvNext, PTL DEF Spec

\* Every variable keeps its type, whatever the caps, the batch size and the
\* number of events: lib/queue.ts, lib/queue-reader.ts, flusher.ts.
THEOREM TypeCorrect == Spec => []TypeOK
<1>1. Inv => TypeOK
  BY DEF Inv
<1> QED
  BY <1>1, InvAlways, PTL

\* The attempts column never runs ahead of the refusals and throws behind it:
\* no 429, lost request, 401, crash or restart is charged to a row
\* (markAttemptAndPrune and deferWithoutAttempt in flusher.ts).
THEOREM AttemptsAlwaysEarned == Spec => []AttemptsEarned
<1>1. Inv => AttemptsEarned
  BY DEF Inv
<1> QED
  BY <1>1, InvAlways, PTL

-----------------------------------------------------------------------------
(* A row leaves the queue for a cause.                                     *)

\* What LostForCause says of one step.
Cause(e) ==
  \/ e \in delivered \cup setting.corrupt
  \/ refused[e] >= MaxAttempts
  \/ e <= horizon /\ token # 0
  \/ /\ Cardinality(queued) >= MaxEvents \/ "bytes" \in setting.faults
     /\ \A f \in queued' : e < f

\* A row leaves the queue in a hook's statement only to keep it within its
\* caps, and only if it is older than what stays (pruneIfNeeded, lib/queue.ts).
LEMMA PrunedForRoom ==
  ASSUME Inv, NEW g \in Event, Enqueue(g), NEW e \in queued \ queued'
  PROVE  /\ Cardinality(queued) >= MaxEvents \/ "bytes" \in setting.faults
         /\ \A f \in queued' : e < f
<1> DEFINE all  == queued \cup {g}
           over == Cardinality(all) - MaxEvents
           kept == IF over > 0 THEN all \ Oldest(over, all) ELSE all
<1>1. all \in SUBSET Event /\ kept \in SUBSET all /\ kept \in SUBSET Event
  BY DEF Inv, TypeOK
<1>2. IsFiniteSet(queued) /\ IsFiniteSet(all) /\ IsFiniteSet(kept)
  BY <1>1, EventsFinite, FS_Subset
<1>3. /\ Cardinality(queued) \in Nat /\ Cardinality(kept) \in Nat /\ Cardinality(all) \in Nat
      /\ Cardinality(all) <= Cardinality(queued) + 1
  BY <1>2, FS_CardinalityType, FS_AddElement
<1>4. e \notin kept => /\ over > 0 /\ e \in Oldest(over, all)
                       /\ \A f \in kept : f \in all \ Oldest(over, all)
  OBVIOUS
<1>5. e \notin kept => Cardinality(queued) >= MaxEvents /\ \A f \in kept : e < f
  <2>1. SUFFICES ASSUME e \notin kept PROVE Cardinality(queued) >= MaxEvents /\ \A f \in kept : e < f
    OBVIOUS
  <2>2. over \in Nat /\ Cardinality(queued) >= MaxEvents
    BY <1>3, <1>4, <2>1, Bounds
  <2>3. \A f \in kept : e < f
    BY <1>1, <1>4, <2>1, <2>2, OldestAreOlder
  <2>4. QED
    BY <2>2, <2>3
<1>6. CASE queued' = kept
  BY <1>5, <1>6
<1>7. ASSUME "bytes" \in setting.faults, NEW n \in 1..Cardinality(kept), queued' = kept \ Oldest(n, kept)
      PROVE  \A f \in queued' : e < f
  <2>1. e \in kept => \A f \in kept \ Oldest(n, kept) : e < f
    <3>1. e \in kept => e \in Oldest(n, kept)
      BY <1>7
    <3>2. n \in Nat
      BY <1>3
    <3>3. QED
      BY <1>1, <3>1, <3>2, OldestAreOlder
  <2>2. QED
    BY <1>5, <1>7, <2>1
<1>8. \/ queued' = kept
      \/ "bytes" \in setting.faults /\ \E n \in 1..Cardinality(kept) : queued' = kept \ Oldest(n, kept)
  BY DEF Enqueue, Keep
<1> QED
  BY <1>6, <1>7, <1>8

\* No step takes a row from the queue without a cause.
LEMMA LossNext == Inv /\ [Next]_vars => \A e \in queued \ queued' : Cause(e)
<1> SUFFICES ASSUME Inv, [Next]_vars, NEW e \in queued \ queued' PROVE Cause(e)
  OBVIOUS
<1> USE DEF Cause, rows, flush
<1>1. ASSUME NEW g \in Event, Enqueue(g) PROVE Cause(e)
  BY <1>1, PrunedForRoom
<1>2. ASSUME NEW S \in SUBSET Event, EnqueueMany(S) PROVE Cause(e)
  BY <1>2 DEF EnqueueMany, Keep
<1>3. CASE ResidentExpires
  BY <1>3 DEF ResidentExpires, Keep, Expired
<1>4. CASE Begin
  BY <1>4 DEF Begin, Keep, Expired
<1>5. ASSUME NEW w \in Worker, TakeBatch(w) PROVE Cause(e)
  BY <1>5 DEF TakeBatch, Keep
<1>6. CASE Sent
  BY <1>6 DEF Sent, Inv, AcceptedStored
<1>7. CASE DropAbandoned
  <2>1. e \in Abandoned
    BY <1>7 DEF DropAbandoned, Keep
  <2>2. attempts[e] >= MaxAttempts /\ attempts[e] <= refused[e] /\ e \in Event
    BY <2>1 DEF Abandoned, Inv, TypeOK, AttemptsEarned
  <2>3. attempts[e] \in Nat /\ refused[e] \in Nat
    BY <2>2, Bounds DEF Inv, TypeOK
  <2>4. QED
    BY <2>2, <2>3, Bounds
<1>8. ASSUME UNCHANGED queued PROVE Cause(e)
  BY <1>8
<1>9. CASE PassEnds \/ Abort \/ DrainerThrows \/ ResidentThrows
  BY <1>9 DEF PassEnds, Abort, DrainerThrows, ResidentThrows
<1>10. CASE Hear
  BY <1>10 DEF Hear, ServerAccepts, ServerRefuses, ServerThrottles, ServerUnauthorizes, NoAnswer
<1>11. CASE Unauthorized \/ Defer \/ Charge
  BY <1>11 DEF Unauthorized, Defer, Charge
<1>12. CASE (\E g \in Event : RetryTimeComes(g)) \/ (\E w \in Worker : ReprobeTimeComes(w))
  BY <1>12 DEF RetryTimeComes, ReprobeTimeComes
<1>13. CASE MinutePasses \/ Age \/ Login \/ Logout \/ Revoke \/ Crash
  BY <1>13 DEF MinutePasses, Age, Login, Logout, Revoke, Crash
<1>14. CASE UNCHANGED vars
  BY <1>14 DEF vars
<1>15. (ResidentTakes => Cause(e)) /\ (DrainerTakes => Cause(e))
  BY <1>5 DEF ResidentTakes, DrainerTakes, Worker
<1> QED
  BY <1>1, <1>2, <1>3, <1>4, <1>6, <1>7, <1>9, <1>10, <1>11, <1>12, <1>13, <1>14, <1>15
  DEF Next, Account

\* A row leaves the queue undelivered only for a cause, whatever the faults,
\* the number of events and the interleaving of hooks, flushes, logins and
\* crashes: dropAbandoned, dropExpired, pruneIfNeeded and the delete of
\* undecodable rows are the only ways out.
THEOREM OnlyLostForCause == Spec => LostForCause
<1>1. Inv /\ [Next]_vars => [\A e \in queued \ queued' : Cause(e)]_vars
  BY LossNext
<1>2. Spec => [][\A e \in queued \ queued' : Cause(e)]_vars
  BY <1>1, InvAlways, PTL DEF Spec
<1> QED
  BY <1>2 DEF LostForCause, Cause

-----------------------------------------------------------------------------
(* What EveryRowLeaves rests on: the attempts of a row only grow, a row that *)
(* has none left is not posted, and a rejected token is not used again.      *)

\* No row that has used up its attempts is posted, whoever else writes to the
\* table between the statements of a flush (readBatch in flusher.ts).
THEOREM SpentNeverPosted == Spec => []RoomLeft
<1>1. Inv => RoomLeft
  BY DEF Inv
<1> QED
  BY <1>1, InvAlways, PTL

\* What AttemptsOnlyGrow says of one step.
Grows == \A e \in queued \cap queued' :
           /\ attempts[e] <= attempts'[e] /\ attempts'[e] <= attempts[e] + 1
           /\ attempts'[e] # attempts[e] => e \in batch

\* As long as a row is queued its attempts are not forgotten, by a hook that
\* queues the event again as little as by a crash; one answer, or throw, charges
\* the rows of its own batch, and each once.
AttemptsOnlyGrow == [][Grows]_vars

\* A statement that keeps rows keeps their attempts.
LEMMA KeepGrows ==
  ASSUME Inv, NEW S, Keep(S)
  PROVE  Grows
<1>1. \A e \in queued \cap queued' : e \in Event /\ attempts'[e] = attempts[e] /\ attempts[e] \in Nat
  BY Bounds DEF Inv, TypeOK, Keep
<1> QED
  BY <1>1 DEF Grows

\* Each step does.
LEMMA GrowsNext == Inv /\ [Next]_vars => Grows
<1> SUFFICES ASSUME Inv, [Next]_vars PROVE Grows
  OBVIOUS
<1>1. \A e \in queued : e \in Event /\ attempts[e] \in Nat
  BY Bounds DEF Inv, TypeOK
<1>2. ASSUME attempts' = attempts PROVE Grows
  BY <1>1, <1>2 DEF Grows
<1>3. ASSUME MarkAttempt PROVE Grows
  BY <1>1, <1>3 DEF MarkAttempt, Grows
<1>4. ASSUME NEW g \in Event, Enqueue(g) PROVE Grows
  BY <1>4, KeepGrows DEF Enqueue
<1>5. ASSUME NEW S \in SUBSET Event, EnqueueMany(S) PROVE Grows
  BY <1>5, KeepGrows DEF EnqueueMany
<1>6. CASE ResidentExpires \/ Begin \/ DropAbandoned
  BY <1>6, <1>2, KeepGrows DEF ResidentExpires, Begin, DropAbandoned, rows
<1>7. ASSUME NEW w \in Worker, TakeBatch(w) PROVE Grows
  BY <1>7, KeepGrows DEF TakeBatch
<1>8. CASE Sent
  BY <1>1, <1>8 DEF Sent, Grows
<1>9. CASE PassEnds \/ Abort \/ DrainerThrows \/ ResidentThrows
  BY <1>9, <1>2, <1>3 DEF PassEnds, Abort, DrainerThrows, ResidentThrows, rows
<1>10. CASE Hear
  BY <1>10, <1>2 DEF Hear, ServerAccepts, ServerRefuses, ServerThrottles, ServerUnauthorizes, NoAnswer, rows
<1>11. CASE Unauthorized \/ Defer \/ Charge
  BY <1>11, <1>2, <1>3 DEF Unauthorized, Defer, Charge, rows
<1>12. CASE (\E g \in Event : RetryTimeComes(g)) \/ (\E w \in Worker : ReprobeTimeComes(w))
  BY <1>12, <1>2 DEF RetryTimeComes, ReprobeTimeComes, rows
<1>13. CASE MinutePasses \/ Age \/ Login \/ Logout \/ Revoke \/ Crash \/ UNCHANGED vars
  BY <1>13, <1>2 DEF MinutePasses, Age, Login, Logout, Revoke, Crash, rows, vars
<1>14. ResidentTakes \/ DrainerTakes => Grows
  BY <1>7 DEF ResidentTakes, DrainerTakes, Worker
<1> QED
  BY <1>4, <1>5, <1>6, <1>8, <1>9, <1>10, <1>11, <1>12, <1>13, <1>14 DEF Next, Account

\* The attempts of a row count up to the cap, at which it is dropped, and never
\* down (lib/queue.ts, INSERT OR IGNORE; markAttemptAndPrune in flusher.ts).
THEOREM AttemptsNeverForgotten == Spec => AttemptsOnlyGrow
<1>1. Inv /\ [Next]_vars => [Grows]_vars
  BY GrowsNext
<1> QED
  BY <1>1, InvAlways, PTL DEF Spec, AttemptsOnlyGrow

\* Stages at which a batch is on its way.
Flight == {"taken", "accepted", "refused", "deferred", "unauthorized"}

\* A worker remembers only tokens the server has stopped accepting, and posts
\* with none that it remembers, though users log in and out and workers take
\* turns in the meantime.
RejectedNotRetried ==
  /\ \A w \in Worker : rejected[w] # 0 => rejected[w] \in revoked
  /\ pc \in Flight => jwt # rejected[by]

\* What that takes: tokens are handed out in order, and a pass goes on only with
\* one it may try.
TokensKnown ==
  /\ \A w \in Worker : rejected[w] \in 0..logins
  /\ pc = "pass" => by = "drainer" /\ MayTry("drainer")
  /\ pc \in Flight => jwt \in 1..logins
  /\ pc = "unauthorized" => jwt \in revoked

TokenInv == RejectedNotRetried /\ TokensKnown

\* Steps that leave the workers and their memory alone.
LEMMA TokensRest ==
  ASSUME TokenInv, UNCHANGED <<token, logins, revoked, pc, by, jwt, rejected>>
  PROVE  TokenInv'
BY DEF TokenInv, RejectedNotRetried, TokensKnown, MayTry

\* Each step keeps it.
LEMMA TokenNext == Inv /\ Inv' /\ TokenInv /\ [Next]_vars => TokenInv'
<1> SUFFICES ASSUME Inv, Inv', TokenInv, [Next]_vars PROVE TokenInv'
  OBVIOUS
<1> USE DEF auth, flush, memory, rows, throws
<1>t. /\ logins \in Nat /\ token \in 0..logins /\ revoked \subseteq 1..logins /\ jwt \in Nat
      /\ rejected \in [Worker -> Token] /\ by \in Worker \cup {"none"} /\ (by = "none" <=> pc = "idle")
  BY Bounds DEF Inv, TypeOK, Token
<1>v. /\ \A w \in Worker : rejected[w] \in 0..logins /\ (rejected[w] # 0 => rejected[w] \in revoked)
      /\ pc = "pass" => by = "drainer" /\ MayTry("drainer")
      /\ pc \in Flight => jwt \in 1..logins /\ jwt # rejected[by]
      /\ pc = "unauthorized" => jwt \in revoked
  BY DEF TokenInv, RejectedNotRetried, TokensKnown
<1>1. ASSUME UNCHANGED <<token, logins, revoked, pc, by, jwt, rejected>> PROVE TokenInv'
  BY <1>1, TokensRest
\* Nothing is on its way after the step.
<1>2. ASSUME pc' \in {"idle", "charged"}, UNCHANGED <<logins, revoked>>,
             \A w \in Worker : rejected'[w] \in 0..logins /\ (rejected'[w] # 0 => rejected'[w] \in revoked)
      PROVE  TokenInv'
  BY <1>2 DEF TokenInv, RejectedNotRetried, TokensKnown, Flight
\* A batch goes on its way, or further.
<1>3. ASSUME pc = "taken", pc' \in Flight, pc' = "unauthorized" => jwt \in revoked,
             UNCHANGED <<token, logins, revoked, by, jwt, rejected>>
      PROVE  TokenInv'
  BY <1>3, <1>v DEF TokenInv, RejectedNotRetried, TokensKnown, Flight
<1>4. ASSUME NEW w \in Worker, TakeBatch(w), MayTry(w) PROVE TokenInv'
  <2>1. CASE UNCHANGED flush
    BY <1>1, <1>4, <2>1 DEF TakeBatch
  <2>2. CASE ~UNCHANGED flush
    <3>1. /\ pc' = "taken" /\ by' = w /\ jwt' = token /\ token # 0
          /\ UNCHANGED <<token, logins, revoked, rejected>>
      BY <1>4, <2>2 DEF TakeBatch
    <3>2. token \in 1..logins /\ token # rejected[w]
      BY <1>4, <1>t, <3>1 DEF MayTry
    <3> QED
      BY <1>v, <3>1, <3>2 DEF TokenInv, RejectedNotRetried, TokensKnown
  <2> QED
    BY <2>1, <2>2
<1>5. CASE (\E e \in Event : Enqueue(e) \/ RetryTimeComes(e)) \/ (\E S \in SUBSET Event : EnqueueMany(S))
           \/ ResidentExpires \/ MinutePasses \/ Age \/ UNCHANGED vars
  BY <1>1, <1>5 DEF Enqueue, RetryTimeComes, EnqueueMany, ResidentExpires, MinutePasses, Age, vars
<1>6. CASE Begin
  <2>1. pc' = "pass" /\ by' = "drainer" /\ MayTry("drainer") /\ UNCHANGED <<token, logins, revoked, rejected>>
    BY <1>6 DEF Begin
  <2> QED
    BY <1>v, <2>1 DEF TokenInv, RejectedNotRetried, TokensKnown, Flight, MayTry
<1>7. CASE ResidentTakes \/ DrainerTakes
  <2>1. ResidentTakes => TokenInv'
    BY <1>4 DEF ResidentTakes, Worker
  <2>2. DrainerTakes => TokenInv'
    BY <1>4, <1>v DEF DrainerTakes, Worker
  <2> QED
    BY <1>7, <2>1, <2>2
<1>8. CASE PassEnds \/ Abort \/ DrainerThrows \/ ResidentThrows \/ Defer \/ Charge \/ DropAbandoned
  <2>1. pc' \in {"idle", "charged"} /\ UNCHANGED <<logins, revoked, rejected>>
    BY <1>8 DEF PassEnds, Abort, DrainerThrows, ResidentThrows, Defer, Charge, DropAbandoned, EndFlush, GoTo
  <2> QED
    BY <1>2, <1>v, <2>1
<1>9. CASE Hear
  <2>1. /\ pc = "taken" /\ pc' \in Flight /\ (pc' = "unauthorized" => jwt \in revoked)
        /\ UNCHANGED <<token, logins, revoked, by, jwt, rejected>>
    BY <1>9 DEF Hear, ServerAccepts, ServerRefuses, ServerThrottles, ServerUnauthorizes, NoAnswer, CanPost,
                GoTo, Flight
  <2> QED
    BY <1>3, <2>1
<1>10. CASE Sent
  <2>1. /\ pc = "accepted" /\ rejected' = [rejected EXCEPT ![by] = 0] /\ UNCHANGED <<token, logins, revoked>>
        /\ \/ by = "drainer" /\ pc' = "pass" /\ by' = by
           \/ by # "drainer" /\ pc' = "idle"
    BY <1>10 DEF Sent, NextBatch, GoTo
  <2>2. by \in Worker
    BY <1>t, <2>1
  <2>3. \A w \in Worker : rejected'[w] \in 0..logins /\ (rejected'[w] # 0 => rejected'[w] \in revoked)
    BY <1>t, <1>v, <2>1
  <2>4. rejected'[by] = 0
    BY <1>t, <2>1, <2>2
  <2>5. CASE by = "drainer"
    <3>1. pc' = "pass" /\ by' = "drainer" /\ rejected'["drainer"] = 0
      BY <2>1, <2>4, <2>5
    <3>2. MayTry("drainer")'
      BY <3>1 DEF MayTry
    <3> QED
      BY <2>1, <2>3, <3>1, <3>2 DEF TokenInv, RejectedNotRetried, TokensKnown, Flight
  <2>6. CASE by # "drainer"
    BY <1>2, <2>1, <2>3, <2>6
  <2> QED
    BY <2>5, <2>6
<1>11. CASE Unauthorized
  <2>1. /\ pc = "unauthorized" /\ rejected' = [rejected EXCEPT ![by] = jwt] /\ UNCHANGED <<logins, revoked>>
        /\ pc' = "idle"
    BY <1>11 DEF Unauthorized, EndFlush, GoTo
  <2>2. jwt \in 1..logins /\ jwt \in revoked
    BY <1>v, <2>1 DEF Flight
  <2>3. \A w \in Worker : rejected'[w] = rejected[w] \/ rejected'[w] = jwt
    BY <1>t, <2>1
  <2> QED
    BY <1>2, <1>t, <1>v, <2>1, <2>2, <2>3
<1>12. ASSUME NEW w \in Worker, ReprobeTimeComes(w) PROVE TokenInv'
  <2>1. /\ rejected' = [rejected EXCEPT ![w] = 0]
        /\ UNCHANGED <<token, logins, revoked, pc, by, jwt>>
    BY <1>12 DEF ReprobeTimeComes
  <2>2. \A v \in Worker : rejected'[v] = rejected[v] \/ rejected'[v] = 0
    BY <1>t, <2>1
  <2>3. \A v \in Worker : rejected'[v] \in 0..logins /\ (rejected'[v] # 0 => rejected'[v] \in revoked)
    BY <1>t, <1>v, <2>2
  <2>4. pc \in Flight => jwt # rejected'[by]
    <3>1. pc \in Flight => by \in Worker
      BY <1>t DEF Flight
    <3> QED
      BY <1>v, <2>2, <3>1
  <2>5. pc = "pass" => by = "drainer" /\ (token = 0 \/ token # rejected'["drainer"])
    BY <1>v, <2>2 DEF MayTry, Worker
  <2> QED
    BY <1>v, <2>1, <2>3, <2>4, <2>5 DEF TokenInv, RejectedNotRetried, TokensKnown, MayTry
<1>13. CASE Login
  <2>1. /\ logins' = logins + 1 /\ token' = logins + 1
        /\ UNCHANGED <<revoked, pc, by, jwt, rejected>>
    BY <1>13 DEF Login
  <2>2. /\ \A w \in Worker : rejected[w] \in 0..logins' /\ token' # rejected[w]
        /\ pc \in Flight => jwt \in 1..logins'
    BY <1>t, <1>v, <2>1
  <2> QED
    BY <1>v, <2>1, <2>2 DEF TokenInv, RejectedNotRetried, TokensKnown, MayTry, Worker
<1>14. CASE Logout
  <2>1. token' = 0 /\ UNCHANGED <<logins, revoked, pc, by, jwt, rejected>>
    BY <1>14 DEF Logout
  <2> QED
    BY <1>v, <2>1 DEF TokenInv, RejectedNotRetried, TokensKnown, MayTry
<1>15. CASE Revoke
  <2>1. revoked' = revoked \cup {token} /\ UNCHANGED <<token, logins, pc, by, jwt, rejected>>
    BY <1>15 DEF Revoke
  <2> QED
    BY <1>v, <2>1 DEF TokenInv, RejectedNotRetried, TokensKnown, MayTry
<1>16. CASE Crash
  <2>1. /\ pc' = "idle" /\ UNCHANGED <<logins, revoked>>
        /\ rejected' = rejected \/ rejected' = [rejected EXCEPT !["resident"] = 0]
    BY <1>16 DEF Crash, EndFlush, GoTo
  <2>2. \A w \in Worker : rejected'[w] = rejected[w] \/ rejected'[w] = 0
    BY <1>t, <2>1
  <2> QED
    BY <1>2, <1>t, <1>v, <2>1, <2>2
<1> QED
  BY <1>5, <1>6, <1>7, <1>8, <1>9, <1>10, <1>11, <1>12, <1>13, <1>14, <1>15, <1>16 DEF Next, Account

\* No request is made with a token the worker was told is rejected before its
\* re-probe is due, and only a token the server really rejects is kept from use
\* (rejectedToken in runFlusher, the rejected token of drain.ts).
THEOREM RejectedNeverRetried == Spec => []RejectedNotRetried
<1>1. Init => TokenInv
  BY Bounds DEF Init, TokenInv, RejectedNotRetried, TokensKnown, Flight
<1>2. TokenInv => RejectedNotRetried
  BY DEF TokenInv
<1> QED
  BY <1>1, <1>2, TokenNext, InvAlways, PTL DEF Spec

=============================================================================
