------------------------- MODULE DeliveryLeaseProofs -------------------------
(***************************************************************************)
(* Proofs about DeliveryLease, for every set of kinds, processes and roles *)
(* and every duration the assumptions allow.                               *)
(*                                                                         *)
(* Shape relates the rows to the calls that own them and needs nothing of  *)
(* the clock: it is inductive even when the wall clock is stepped, and it  *)
(* makes counting rows an exact test for theft, which is final and found   *)
(* by the next renewal. Timing adds what a steady clock gives: what a      *)
(* running call last wrote still stands in its rows until it runs out.     *)
(* Mutual exclusion follows from both, and so does the implementation of   *)
(* ExclusiveLease. What TheftIsNoticed and AbandonedRowComesFree owe to    *)
(* safety is at the end.                                                   *)
(***************************************************************************)
EXTENDS DeliveryLease, FiniteSetTheorems, TLAPS

\* A row names the process of the call that owns it.
PidOfToken == \A k \in Kind : row[k].token # None => row[k].pid = row[k].token

\* The rows that may bear the token of p, stage by stage.
RowsMatchHeld ==
  \A p \in Proc, k \in Kind : row[k].token = p =>
     /\ pc[p] # "idle"
     /\ pc[p] = "acquire" => k \in held[p] \cup (untried[p] \cap Needed[p])
     /\ pc[p] \in {"backout", "poll"} => k \in Needed[p]
     /\ pc[p] \in Working => k \in held[p]

NeededFirst ==
  \A p \in Proc : pc[p] = "acquire" /\ untried[p] \cap Needed[p] # {}
                    => held[p] \subseteq Needed[p]

Shape == TypeOK /\ PidOfToken /\ RowsMatchHeld /\ NeededFirst

\* No clock reading is older than MaxLag, and only pending ones age.
LagBound ==
  \A p \in Proc : /\ lag[p] \in 0..MaxLag
                  /\ pc[p] \notin Pending => lag[p] = 0

ExpiryBound == \A k \in Kind : row[k].expires <= Ttl

DeadlineBound == \A p \in Proc : deadline[p] <= AtLeast(Ttl - lag[p], 0)

\* What a call wrote stands in its rows until it runs out.
HeldRowsStand ==
  \A p \in Proc, k \in Kind :
     /\ pc[p] \in Working \cup {"acquire"}
     /\ ~lost[p] /\ deadline[p] > 0 /\ k \in held[p]
     => row[k].token = p /\ row[k].expires >= deadline[p]

LossIsRecorded == \A p \in Proc : pc[p] = "drop" => lost[p]

Timing == LagBound /\ ExpiryBound /\ DeadlineBound /\ HeldRowsStand /\ LossIsRecorded

-----------------------------------------------------------------------------
\* All rows are free and nobody works when the hook starts up.
LEMMA ShapeInit == Init => Shape
<1> SUFFICES ASSUME Init PROVE Shape
  OBVIOUS
<1> USE RoleKinds, NoneIsNoProc, Durations, Steps
    DEF Init, FreeRow, Floor
<1>1. TypeOK
  BY DEF TypeOK, Row, Stage
<1>2. PidOfToken /\ RowsMatchHeld /\ NeededFirst
  BY DEF PidOfToken, RowsMatchHeld, NeededFirst
<1>3. QED
  BY <1>1, <1>2 DEF Shape

\* What each way of writing rows leaves in the columns.
LEMMA AbandonRows ==
  ASSUME TypeOK, NEW p \in Proc
  PROVE  /\ Abandon(p) \in [Kind -> Row]
         /\ \A k \in Kind :
              /\ Abandon(p)[k].token = IF row[k].token = p THEN None ELSE row[k].token
              /\ Abandon(p)[k].pid = row[k].pid
              /\ Abandon(p)[k].expires = row[k].expires
BY DEF TypeOK, Row, Abandon

\* A freed row is a row, bears no token and has run out (release).
LEMMA FreeRowType == FreeRow \in Row /\ FreeRow.token = None /\ FreeRow.expires <= 0
BY Durations DEF FreeRow, Row, Floor

\* release writes free rows only where the caller's token stands.
LEMMA ReleasedRows ==
  ASSUME TypeOK, NEW p \in Proc
  PROVE  /\ Released(p) \in [Kind -> Row]
         /\ \A k \in Kind :
              /\ row[k].token = p => Released(p)[k].token = None
              /\ row[k].token # p => Released(p)[k] = row[k]
              /\ row[k].token = p => Released(p)[k].expires <= 0
BY FreeRowType DEF TypeOK, Released

\* A process that ends leaves its rows, free of any live token
\* (isAiotProcess finds no such process).
LEMMA BereavedRows ==
  ASSUME TypeOK, NEW p \in Proc
  PROVE  /\ Bereaved(p) \in [Kind -> Row]
         /\ \A k \in Kind :
              /\ row[k].pid = p => Bereaved(p)[k].token = None
              /\ row[k].pid # p => Bereaved(p)[k] = row[k]
              /\ Bereaved(p)[k].expires = row[k].expires
BY Durations DEF TypeOK, Bereaved, Row, FreeRow, Floor

\* The UPDATE of an acquisition writes a row of the caller that runs a TTL
\* from the reading it carries (tryAcquireKind).
LEMMA TakenRow ==
  ASSUME TypeOK, NEW p \in Proc
  PROVE  /\ TakenBy(p) \in Row
         /\ TakenBy(p).token = p /\ TakenBy(p).pid = p
         /\ TakenBy(p).expires = AtLeast(Ttl - lag[p], Floor)
BY Durations DEF TypeOK, TakenBy, Row, AtLeast, Floor

\* A renewal rewrites the caller's rows and no others (withLease.renew).
LEMMA RenewedRows ==
  ASSUME TypeOK, NEW p \in Proc
  PROVE  /\ Renewed(p) \in [Kind -> Row]
         /\ \A k \in Kind :
              /\ Renewed(p)[k].token = row[k].token
              /\ Renewed(p)[k].pid = row[k].pid
              /\ Renewed(p)[k].expires =
                   IF row[k].token = p THEN AtLeast(Ttl - lag[p], Floor)
                                       ELSE row[k].expires
BY Durations DEF TypeOK, Renewed, Row, AtLeast, Floor

\* A statement of process p preserves the shape of its rows.
LEMMA ShapeStep == ASSUME Shape, NEW p \in Proc, Step(p) PROVE Shape'
<1> USE RoleKinds, NoneIsNoProc, Durations, Steps
<1>0. TypeOK /\ PidOfToken /\ RowsMatchHeld /\ NeededFirst
  BY DEF Shape
<1>1. CASE Begin(p)
  <2> USE <1>0, <1>1 DEF Begin, Attempt, GoTo, ReadClock
  <2>1. TypeOK'
    BY DEF TypeOK, Stage
  <2>2. PidOfToken'
    BY DEF PidOfToken, TypeOK
  <2>3. RowsMatchHeld'
    BY DEF RowsMatchHeld, NeededFirst, TypeOK, Working
  <2>4. NeededFirst'
    BY DEF NeededFirst, TypeOK
  <2>5. QED
    BY <2>1, <2>2, <2>3, <2>4 DEF Shape
<1>2. CASE Retry(p)
  <2> USE <1>0, <1>2 DEF Retry, Attempt, GoTo, ReadClock
  <2>1. TypeOK'
    BY DEF TypeOK, Stage
  <2>2. PidOfToken'
    BY DEF PidOfToken, TypeOK
  <2>3. RowsMatchHeld'
    BY DEF RowsMatchHeld, NeededFirst, TypeOK, Working
  <2>4. NeededFirst'
    BY DEF NeededFirst, TypeOK
  <2>5. QED
    BY <2>1, <2>2, <2>3, <2>4 DEF Shape
<1>3. CASE GiveUp(p)
  <2> USE <1>0, <1>3 DEF GiveUp, Leave, GoTo, ReadClock
  <2>0. /\ row' \in [Kind -> Row]
       /\ \A k \in Kind : /\ row'[k].token \in {row[k].token, None} \ {p}
                          /\ row'[k].token # None => row'[k].pid = row[k].pid
    BY AbandonRows DEF Row, FreeRow, TypeOK, PidOfToken
  <2>1. TypeOK'
    BY <2>0 DEF TypeOK, Stage
  <2>2. PidOfToken'
    BY <2>0 DEF PidOfToken, TypeOK
  <2>3. RowsMatchHeld'
    BY <2>0 DEF RowsMatchHeld, NeededFirst, TypeOK, Working
  <2>4. NeededFirst'
    BY DEF NeededFirst, TypeOK
  <2>5. QED
    BY <2>1, <2>2, <2>3, <2>4 DEF Shape
<1>4. CASE BackOut(p)
  <2> USE <1>0, <1>4 DEF BackOut, GoTo, ReadClock
  <2>0. /\ row' \in [Kind -> Row]
       /\ \A k \in Kind : /\ row'[k].token \in {row[k].token, None}
                          /\ row'[k].token # None => row'[k].pid = row[k].pid
    <3>1. CASE row' = Released(p)
      BY <3>1, ReleasedRows DEF TypeOK, PidOfToken
    <3>2. CASE row' = row
      BY <3>2 DEF TypeOK, PidOfToken, Row
    <3>3. QED
      BY <3>1, <3>2
  <2>1. TypeOK'
    BY <2>0 DEF TypeOK, Stage
  <2>2. PidOfToken'
    BY <2>0 DEF PidOfToken, TypeOK
  <2>3. RowsMatchHeld'
    BY <2>0 DEF RowsMatchHeld, NeededFirst, TypeOK, Working
  <2>4. NeededFirst'
    BY DEF NeededFirst, TypeOK
  <2>5. QED
    BY <2>1, <2>2, <2>3, <2>4 DEF Shape
<1>5. CASE AcquireBusy(p)
  <2> USE <1>0, <1>5 DEF AcquireBusy, Leave, GoTo, ReadClock
  <2>0. /\ row' \in [Kind -> Row]
       /\ \A k \in Kind : /\ row'[k].token \in {row[k].token, None} \ {p}
                          /\ row'[k].token # None => row'[k].pid = row[k].pid
    BY AbandonRows DEF Row, FreeRow, TypeOK, PidOfToken
  <2>1. TypeOK'
    BY <2>0 DEF TypeOK, Stage
  <2>2. PidOfToken'
    BY <2>0 DEF PidOfToken, TypeOK
  <2>3. RowsMatchHeld'
    BY <2>0 DEF RowsMatchHeld, NeededFirst, TypeOK, Working
  <2>4. NeededFirst'
    BY DEF NeededFirst, TypeOK
  <2>5. QED
    BY <2>1, <2>2, <2>3, <2>4 DEF Shape
<1>6. ASSUME NEW k \in Kind, TryKind(p, k) PROVE Shape'
  <2> USE <1>0, <1>6 DEF TryKind, InTurn, GoTo, ReadClock
  <2>0. /\ row' \in [Kind -> Row]
       /\ \A j \in Kind : \/ row'[j] = row[j]
                          \/ /\ j = k /\ k \in held'[p]
                             /\ row'[j].token = p /\ row'[j].pid = p
    BY TakenRow, SMTT(60) DEF Row, TypeOK, PidOfToken
  <2>1. TypeOK'
    BY <2>0 DEF TypeOK, Stage
  <2>2. PidOfToken'
    BY <2>0 DEF PidOfToken, TypeOK
  <2>3. RowsMatchHeld'
    BY <2>0 DEF RowsMatchHeld, NeededFirst, TypeOK, Working
  <2>4. NeededFirst'
    BY DEF NeededFirst, TypeOK
  <2>5. QED
    BY <2>1, <2>2, <2>3, <2>4 DEF Shape
<1>7. ASSUME NEW k \in Kind, Refused(p, k) PROVE Shape'
  <2> USE <1>0, <1>7 DEF Refused, InTurn, GoTo, ReadClock
  <2>1. TypeOK'
    BY DEF TypeOK, Stage
  <2>2. PidOfToken'
    BY DEF PidOfToken, TypeOK
  <2>3. RowsMatchHeld'
    BY DEF RowsMatchHeld, NeededFirst, TypeOK, Working
  <2>4. NeededFirst'
    BY DEF NeededFirst, TypeOK
  <2>5. QED
    BY <2>1, <2>2, <2>3, <2>4 DEF Shape
<1>8. ASSUME NEW k \in Kind, StartAdd(p, k) PROVE Shape'
  <2> USE <1>0, <1>8 DEF StartAdd, GoTo, ReadClock
  <2>1. TypeOK'
    BY DEF TypeOK, Stage
  <2>2. PidOfToken'
    BY DEF PidOfToken, TypeOK
  <2>3. RowsMatchHeld'
    BY DEF RowsMatchHeld, NeededFirst, TypeOK, Working
  <2>4. NeededFirst'
    BY DEF NeededFirst, TypeOK
  <2>5. QED
    BY <2>1, <2>2, <2>3, <2>4 DEF Shape
<1>9. ASSUME NEW k \in Kind, TryAdd(p, k) PROVE Shape'
  <2> USE <1>0, <1>9 DEF TryAdd, GoTo, ReadClock
  <2>0. /\ row' \in [Kind -> Row]
       /\ \A j \in Kind : \/ row'[j] = row[j]
                          \/ /\ j = k /\ k \in held'[p]
                             /\ row'[j].token = p /\ row'[j].pid = p
    BY TakenRow, SMTT(60) DEF Row, TypeOK, PidOfToken
  <2>1. TypeOK'
    BY <2>0 DEF TypeOK, Stage
  <2>2. PidOfToken'
    BY <2>0 DEF PidOfToken, TypeOK
  <2>3. RowsMatchHeld'
    BY <2>0 DEF RowsMatchHeld, NeededFirst, TypeOK, Working
  <2>4. NeededFirst'
    BY DEF NeededFirst, TypeOK
  <2>5. QED
    BY <2>1, <2>2, <2>3, <2>4 DEF Shape
<1>10. CASE StartRenew(p)
  <2> USE <1>0, <1>10 DEF StartRenew, GoTo, ReadClock
  <2>1. TypeOK'
    BY DEF TypeOK, Stage
  <2>2. PidOfToken'
    BY DEF PidOfToken, TypeOK
  <2>3. RowsMatchHeld'
    BY DEF RowsMatchHeld, NeededFirst, TypeOK, Working
  <2>4. NeededFirst'
    BY DEF NeededFirst, TypeOK
  <2>5. QED
    BY <2>1, <2>2, <2>3, <2>4 DEF Shape
<1>11. CASE Renew(p)
  <2> USE <1>0, <1>11 DEF Renew, GoTo, ReadClock
  <2>0. /\ row' \in [Kind -> Row]
       /\ \A k \in Kind : /\ row'[k].token \in {row[k].token, None}
                          /\ row'[k].token # None => row'[k].pid = row[k].pid
    BY RenewedRows DEF Row, FreeRow, TypeOK, PidOfToken
  <2>1. TypeOK'
    <3>1. CASE NoticesLoss(p)
      <4>1. lost' = [lost EXCEPT ![p] = TRUE] /\ UNCHANGED deadline
        BY <3>1
      <4>2. lost' \in [Proc -> BOOLEAN]
        BY <4>1, Zenon DEF TypeOK
      <4>3. pc' \in [Proc -> Stage]
        BY <3>1 DEF TypeOK, Stage
      <4>4. QED
        BY <2>0, <4>1, <4>2, <4>3 DEF TypeOK
    <3>2. CASE ~NoticesLoss(p)
      BY <2>0, <3>2 DEF TypeOK, Stage, AtLeast
    <3>3. QED
      BY <3>1, <3>2
  <2>2. PidOfToken'
    BY <2>0 DEF PidOfToken, TypeOK
  <2>3. RowsMatchHeld'
    BY <2>0 DEF RowsMatchHeld, NeededFirst, TypeOK, Working
  <2>4. NeededFirst'
    BY DEF NeededFirst, TypeOK
  <2>5. QED
    BY <2>1, <2>2, <2>3, <2>4 DEF Shape
<1>12. CASE RenewBusy(p)
  <2> USE <1>0, <1>12 DEF RenewBusy, GoTo, ReadClock
  <2>1. TypeOK'
    BY DEF TypeOK, Stage
  <2>2. PidOfToken'
    BY DEF PidOfToken, TypeOK
  <2>3. RowsMatchHeld'
    BY DEF RowsMatchHeld, NeededFirst, TypeOK, Working
  <2>4. NeededFirst'
    BY DEF NeededFirst, TypeOK
  <2>5. QED
    BY <2>1, <2>2, <2>3, <2>4 DEF Shape
<1>13. CASE Drop(p)
  <2> USE <1>0, <1>13 DEF Drop, GoTo, ReadClock
  <2>0. /\ row' \in [Kind -> Row]
       /\ \A k \in Kind : /\ row'[k].token \in {row[k].token, None}
                          /\ row'[k].token # None => row'[k].pid = row[k].pid
    <3>1. CASE row' = Released(p)
      BY <3>1, ReleasedRows DEF TypeOK, PidOfToken
    <3>2. CASE row' = row
      BY <3>2 DEF TypeOK, PidOfToken, Row
    <3>3. QED
      BY <3>1, <3>2
  <2>1. TypeOK'
    BY <2>0 DEF TypeOK, Stage
  <2>2. PidOfToken'
    BY <2>0 DEF PidOfToken, TypeOK
  <2>3. RowsMatchHeld'
    BY <2>0 DEF RowsMatchHeld, NeededFirst, TypeOK, Working
  <2>4. NeededFirst'
    BY DEF NeededFirst, TypeOK
  <2>5. QED
    BY <2>1, <2>2, <2>3, <2>4 DEF Shape
<1>14. CASE AddBusy(p)
  <2> USE <1>0, <1>14 DEF AddBusy, GoTo, ReadClock
  <2>1. TypeOK'
    BY DEF TypeOK, Stage
  <2>2. PidOfToken'
    BY DEF PidOfToken, TypeOK
  <2>3. RowsMatchHeld'
    BY DEF RowsMatchHeld, NeededFirst, TypeOK, Working
  <2>4. NeededFirst'
    BY DEF NeededFirst, TypeOK
  <2>5. QED
    BY <2>1, <2>2, <2>3, <2>4 DEF Shape
<1>15. CASE FnEnds(p)
  <2> USE <1>0, <1>15 DEF FnEnds, GoTo, ReadClock
  <2>1. TypeOK'
    BY DEF TypeOK, Stage
  <2>2. PidOfToken'
    BY DEF PidOfToken, TypeOK
  <2>3. RowsMatchHeld'
    BY DEF RowsMatchHeld, NeededFirst, TypeOK, Working
  <2>4. NeededFirst'
    BY DEF NeededFirst, TypeOK
  <2>5. QED
    BY <2>1, <2>2, <2>3, <2>4 DEF Shape
<1>16. CASE Finish(p)
  <2> USE <1>0, <1>16 DEF Finish, Leave, GoTo, ReadClock
  <2>0. /\ row' \in [Kind -> Row]
       /\ \A k \in Kind : /\ row'[k].token \in {row[k].token, None} \ {p}
                          /\ row'[k].token # None => row'[k].pid = row[k].pid
    <3>1. CASE row' = Released(p)
      BY <3>1, ReleasedRows DEF TypeOK, PidOfToken
    <3>2. CASE row' = Abandon(p)
      BY <3>2, AbandonRows DEF TypeOK, PidOfToken
    <3>3. QED
      BY <3>1, <3>2
  <2>1. TypeOK'
    BY <2>0 DEF TypeOK, Stage
  <2>2. PidOfToken'
    BY <2>0 DEF PidOfToken, TypeOK
  <2>3. RowsMatchHeld'
    BY <2>0 DEF RowsMatchHeld, NeededFirst, TypeOK, Working
  <2>4. NeededFirst'
    BY DEF NeededFirst, TypeOK
  <2>5. QED
    BY <2>1, <2>2, <2>3, <2>4 DEF Shape
<1>17. CASE Crash(p)
  <2> USE <1>0, <1>17 DEF Crash, Leave, GoTo, ReadClock
  <2>0. /\ row' \in [Kind -> Row]
       /\ \A k \in Kind : /\ row'[k].token \in {row[k].token, None} \ {p}
                          /\ row'[k].token # None => row'[k].pid = row[k].pid
    BY BereavedRows DEF Row, FreeRow, TypeOK, PidOfToken
  <2>1. TypeOK'
    BY <2>0 DEF TypeOK, Stage
  <2>2. PidOfToken'
    BY <2>0 DEF PidOfToken, TypeOK
  <2>3. RowsMatchHeld'
    BY <2>0 DEF RowsMatchHeld, NeededFirst, TypeOK, Working
  <2>4. NeededFirst'
    BY DEF NeededFirst, TypeOK
  <2>5. QED
    BY <2>1, <2>2, <2>3, <2>4 DEF Shape
<1>18. CASE Stop(p)
  <2> USE <1>0, <1>18 DEF Stop, Leave, GoTo, ReadClock
  <2>0. /\ row' \in [Kind -> Row]
       /\ \A k \in Kind : /\ row'[k].token \in {row[k].token, None} \ {p}
                          /\ row'[k].token # None => row'[k].pid = row[k].pid
    BY FreeRowType DEF Row, FreeRow, TypeOK, PidOfToken
  <2>1. TypeOK'
    BY <2>0 DEF TypeOK, Stage
  <2>2. PidOfToken'
    BY <2>0 DEF PidOfToken, TypeOK
  <2>3. RowsMatchHeld'
    BY <2>0 DEF RowsMatchHeld, NeededFirst, TypeOK, Working
  <2>4. NeededFirst'
    BY DEF NeededFirst, TypeOK
  <2>5. QED
    BY <2>1, <2>2, <2>3, <2>4 DEF Shape
<1>19. QED
  BY <1>1, <1>2, <1>3, <1>4, <1>5, <1>6, <1>7, <1>8, <1>9, <1>10, <1>11, <1>12, <1>13, <1>14, <1>15, <1>16, <1>17, <1>18 DEF Step

\* Time, steady or stepped, touches no token and no stage.
LEMMA ShapeElapse ==
  ASSUME Shape, NEW d \in Int, Elapse(d), steps' \in 0..MaxSteps,
         UNCHANGED <<pc, held, untried, lost>>
  PROVE  Shape'
<1>0. TypeOK /\ PidOfToken /\ RowsMatchHeld /\ NeededFirst
  BY DEF Shape
<1>1. /\ row' \in [Kind -> Row]
      /\ \A k \in Kind : row'[k].token = row[k].token /\ row'[k].pid = row[k].pid
  BY <1>0, Durations DEF Elapse, TypeOK, Row, AtLeast, Floor
<1>2. lag' \in [Proc -> Int] /\ deadline' \in [Proc -> Int]
  BY <1>0 DEF Elapse, TypeOK, AtLeast
<1>3. TypeOK'
  BY <1>0, <1>1, <1>2 DEF TypeOK
<1>4. (PidOfToken /\ RowsMatchHeld /\ NeededFirst)'
  BY <1>0, <1>1 DEF PidOfToken, RowsMatchHeld, NeededFirst
<1>5. QED
  BY <1>3, <1>4 DEF Shape

\* Every step preserves the shape of the rows, clock steps included.
LEMMA ShapeNext == Shape /\ [NextSteppedClock]_vars => Shape'
<1> SUFFICES ASSUME Shape, [NextSteppedClock]_vars PROVE Shape'
  OBVIOUS
<1>1. ASSUME NEW p \in Proc, Step(p) PROVE Shape'
  BY <1>1, ShapeStep
<1>2. CASE Tick
  BY <1>2, ShapeElapse DEF Tick, Shape, TypeOK
<1>3. ASSUME NEW d \in ClockStep, StepClock(d) PROVE Shape'
  <2>1. d \in Int /\ steps' \in 0..MaxSteps
    BY <1>3, Steps DEF StepClock, Shape, TypeOK
  <2>2. QED
    BY <2>1, <1>3, ShapeElapse DEF StepClock
<1>4. CASE UNCHANGED vars
  BY <1>4 DEF vars, Shape, TypeOK, PidOfToken, RowsMatchHeld, NeededFirst
<1>5. QED
  BY <1>1, <1>2, <1>3, <1>4 DEF NextSteppedClock, Next

\* The rows keep their shape whatever happens to the wall clock.
THEOREM ShapeSteppedClock == SpecSteppedClock => []Shape
BY ShapeInit, ShapeNext, PTL DEF SpecSteppedClock

\* A steady clock is a special case of a stepped one.
THEOREM ShapeSteady == Spec => []Shape
<1>1. [Next]_vars => [NextSteppedClock]_vars
  BY DEF NextSteppedClock
<1>2. QED
  BY <1>1, ShapeInit, ShapeNext, PTL DEF Spec

\* The variables of the leases keep their types (the tables and locals of
\* withLease in lib/lease.ts).
THEOREM TypeCorrect == Spec => []TypeOK
BY ShapeSteady, PTL DEF Shape

\* The rows that bear a call's token are of the kinds it counts as held.
LEMMA OwnedWithinHeld ==
  ASSUME Shape, NEW p \in Proc, pc[p] \in Working
  PROVE  Owned(p) \subseteq held[p]
BY DEF Shape, RowsMatchHeld, Owned

\* As many rows as held kinds means every held kind is still the caller's:
\* the comparison renew makes is exact.
LEMMA CountIsExact ==
  ASSUME Shape, NEW p \in Proc, pc[p] \in Working
  PROVE  NoticesLoss(p) <=> \E k \in held[p] : row[k].token # p
<1>1. Owned(p) \in SUBSET held[p] /\ held[p] \in SUBSET Kind
  BY OwnedWithinHeld DEF Shape, TypeOK
<1>2. IsFiniteSet(held[p])
  BY <1>1, KindsFinite, FS_Subset
<1>3. /\ IsFiniteSet(Owned(p))
      /\ Cardinality(Owned(p)) <= Cardinality(held[p])
      /\ Cardinality(held[p]) = Cardinality(Owned(p)) => held[p] = Owned(p)
  BY <1>1, <1>2, FS_Subset
<1>4. Cardinality(Owned(p)) \in Nat /\ Cardinality(held[p]) \in Nat
  BY <1>2, <1>3, FS_CardinalityType
<1>5. NoticesLoss(p) <=> Owned(p) # held[p]
  BY <1>3, <1>4 DEF NoticesLoss
<1>6. QED
  BY <1>1, <1>5 DEF Owned

\* Comparing row counts finds a theft exactly when there is one: no row that
\* bears the token is missing from heldKinds, even under a stepped clock.
THEOREM CountingIsExact == SpecSteppedClock => []CountingDetectsTheft
<1>1. Shape => CountingDetectsTheft
  BY CountIsExact DEF CountingDetectsTheft
<1>2. QED
  BY <1>1, ShapeSteppedClock, PTL

-----------------------------------------------------------------------------
(* Timing.                                                                 *)

\* No expiry and no reading lies ahead of the clock at first.
LEMMA TimingInit == Init => Timing
BY Durations DEF Init, Timing, LagBound, ExpiryBound, DeadlineBound,
   HeldRowsStand, LossIsRecorded, FreeRow, Floor, AtLeast

\* Only a row that has run out can be taken: the sanity bound is wide enough
\* for the oldest clock reading an UPDATE can still carry.
LEMMA TakeableRunOut ==
  ASSUME TypeOK, LagBound, ExpiryBound,
         NEW p \in Proc, NEW k \in Kind, Takeable(k, lag[p])
  PROVE  row[k].expires <= 0
<1>1. lag[p] \in 0..MaxLag /\ row[k].expires \in Int /\ row[k].expires <= Ttl
  BY DEF TypeOK, Row, LagBound, ExpiryBound
<1>2. ~(row[k].expires > Sanity - lag[p])
  BY <1>1, Durations, SanityCoversTheWait
<1>3. QED
  BY <1>1, <1>2, Durations DEF Takeable

\* What the rows of the other processes and those of p owe their holders.
Stands(p) ==
  \A k \in Kind :
     /\ pc[p] \in Working \cup {"acquire"}
     /\ ~lost[p] /\ deadline[p] > 0 /\ k \in held[p]
     => row[k].token = p /\ row[k].expires >= deadline[p]

\* A row of another owner that has not run out is the same row after a
\* statement that writes only rows of p or rows that ran out.
LEMMA OthersStand ==
  ASSUME TypeOK, HeldRowsStand, NEW p \in Proc,
         \A j \in Kind : \A q \in Proc \ {p} :
            row[j].token = q /\ row[j].expires > 0 => row'[j] = row[j],
         \A q \in Proc \ {p} :
            /\ pc'[q] = pc[q] /\ held'[q] = held[q]
            /\ lost'[q] = lost[q] /\ deadline'[q] = deadline[q],
         Stands(p)'
  PROVE  HeldRowsStand'
<1>1. ASSUME NEW q \in Proc \ {p} PROVE Stands(q)'
  <2>1. Stands(q)
    BY DEF HeldRowsStand, Stands
  <2>2. \A k \in Kind : row[k].expires \in Int
    BY DEF TypeOK, Row
  <2>3. deadline[q] \in Int
    BY DEF TypeOK
  <2>4. QED
    BY <2>1, <2>2, <2>3 DEF Stands
<1>2. QED
  BY <1>1 DEF HeldRowsStand, Stands

\* A statement of process p leaves the rows others own alone until they run
\* out, and writes no expiry beyond the TTL.
LEMMA RowsStep ==
  ASSUME Shape, LagBound, ExpiryBound, NEW p \in Proc, Step(p)
  PROVE  \A j \in Kind :
          /\ row'[j].expires <= Ttl
          /\ \A q \in Proc \ {p} :
               row[j].token = q /\ row[j].expires > 0 => row'[j] = row[j]
<1> USE Durations
<1> DEFINE Goal ==
       \A j \in Kind :
          /\ row'[j].expires <= Ttl
          /\ \A q \in Proc \ {p} :
               row[j].token = q /\ row[j].expires > 0 => row'[j] = row[j]
<1>0. TypeOK /\ PidOfToken /\ RowsMatchHeld
  BY DEF Shape
<1>a. Ttl \in Int /\ Ttl > 0 /\ Floor \in Int /\ Floor <= 0 /\ MaxLag \in Nat
  BY DEF Floor
<1>1. ASSUME Begin(p) PROVE Goal
  <2> USE <1>0, <1>a, <1>1 DEF Begin, Attempt, GoTo, ReadClock
  <2>0. row' = row
    OBVIOUS
  <2>1. QED
    BY <2>0 DEF ExpiryBound
<1>2. ASSUME Retry(p) PROVE Goal
  <2> USE <1>0, <1>a, <1>2 DEF Retry, Attempt, GoTo, ReadClock
  <2>0. row' = row
    OBVIOUS
  <2>1. QED
    BY <2>0 DEF ExpiryBound
<1>3. ASSUME GiveUp(p) PROVE Goal
  <2> USE <1>0, <1>a, <1>3 DEF GiveUp, Leave, GoTo, ReadClock
  <2>1. QED
    BY AbandonRows DEF TypeOK, Row, ExpiryBound, PidOfToken, Abandon
<1>4. ASSUME BackOut(p) PROVE Goal
  <2> USE <1>0, <1>a, <1>4 DEF BackOut, GoTo, ReadClock
  <2>1. CASE row' = Released(p)
    <3>1. \A j \in Kind : row[j].token # p => row'[j] = row[j]
      BY <2>1, ReleasedRows
    <3>2. \A j \in Kind : row[j].token = p => row'[j].expires <= Ttl
      <4>1. \A j \in Kind : /\ row[j].token = p => Released(p)[j].expires <= 0
                           /\ Released(p)[j].expires \in Int
        BY ReleasedRows DEF Row
      <4>2. QED
        BY <2>1, <4>1
    <3>3. QED
      BY <3>1, <3>2 DEF ExpiryBound
  <2>2. CASE row' = row
    BY <2>2 DEF TypeOK, ExpiryBound, Row
  <2>3. QED
    BY <2>1, <2>2
<1>5. ASSUME AcquireBusy(p) PROVE Goal
  <2> USE <1>0, <1>a, <1>5 DEF AcquireBusy, Leave, GoTo, ReadClock
  <2>1. QED
    BY AbandonRows DEF TypeOK, Row, ExpiryBound, PidOfToken, Abandon
<1>6. ASSUME NEW k \in Kind, TryKind(p, k) PROVE Goal
  <2> USE <1>0, <1>a, <1>6 DEF TryKind, InTurn, GoTo, ReadClock
  <2>1. CASE Takeable(k, lag[p])
    <3>1. row[k].expires <= 0
      BY <2>1, TakeableRunOut
    <3>2. TakenBy(p).expires <= Ttl
      BY TakenRow DEF LagBound, TypeOK, AtLeast
    <3>3. row' = [row EXCEPT ![k] = TakenBy(p)]
      BY <2>1
    <3>4. row'[k] = TakenBy(p) /\ \A j \in Kind \ {k} : row'[j] = row[j]
      BY <3>3 DEF TypeOK
    <3>5. row[k].expires \in Int
      BY DEF TypeOK, Row
    <3>6. QED
      BY <3>1, <3>2, <3>4, <3>5 DEF ExpiryBound
  <2>2. CASE ~Takeable(k, lag[p])
    BY <2>2 DEF ExpiryBound, TypeOK
  <2>3. QED
    BY <2>1, <2>2
<1>7. ASSUME NEW k \in Kind, Refused(p, k) PROVE Goal
  <2> USE <1>0, <1>a, <1>7 DEF Refused, InTurn, GoTo, ReadClock
  <2>0. row' = row
    OBVIOUS
  <2>1. QED
    BY <2>0 DEF ExpiryBound
<1>8. ASSUME NEW k \in Kind, StartAdd(p, k) PROVE Goal
  <2> USE <1>0, <1>a, <1>8 DEF StartAdd, GoTo, ReadClock
  <2>0. row' = row
    OBVIOUS
  <2>1. QED
    BY <2>0 DEF ExpiryBound
<1>9. ASSUME NEW k \in Kind, TryAdd(p, k) PROVE Goal
  <2> USE <1>0, <1>a, <1>9 DEF TryAdd, GoTo, ReadClock
  <2>1. CASE Takeable(k, lag[p])
    <3>1. row[k].expires <= 0
      BY <2>1, TakeableRunOut
    <3>2. TakenBy(p).expires <= Ttl
      BY TakenRow DEF LagBound, TypeOK, AtLeast
    <3>3. row' = [row EXCEPT ![k] = TakenBy(p)]
      BY <2>1
    <3>4. row'[k] = TakenBy(p) /\ \A j \in Kind \ {k} : row'[j] = row[j]
      BY <3>3 DEF TypeOK
    <3>5. row[k].expires \in Int
      BY DEF TypeOK, Row
    <3>6. QED
      BY <3>1, <3>2, <3>4, <3>5 DEF ExpiryBound
  <2>2. CASE ~Takeable(k, lag[p])
    BY <2>2 DEF ExpiryBound, TypeOK
  <2>3. QED
    BY <2>1, <2>2
<1>10. ASSUME StartRenew(p) PROVE Goal
  <2> USE <1>0, <1>a, <1>10 DEF StartRenew, GoTo, ReadClock
  <2>0. row' = row
    OBVIOUS
  <2>1. QED
    BY <2>0 DEF ExpiryBound
<1>11. ASSUME Renew(p) PROVE Goal
  <2> USE <1>0, <1>a, <1>11 DEF Renew, GoTo, ReadClock
  <2>1. QED
    BY RenewedRows DEF TypeOK, ExpiryBound, LagBound, AtLeast, Row, Renewed
<1>12. ASSUME RenewBusy(p) PROVE Goal
  <2> USE <1>0, <1>a, <1>12 DEF RenewBusy, GoTo, ReadClock
  <2>0. row' = row
    OBVIOUS
  <2>1. QED
    BY <2>0 DEF ExpiryBound
<1>13. ASSUME Drop(p) PROVE Goal
  <2> USE <1>0, <1>a, <1>13 DEF Drop, GoTo, ReadClock
  <2>1. CASE row' = Released(p)
    <3>1. \A j \in Kind : row[j].token # p => row'[j] = row[j]
      BY <2>1, ReleasedRows
    <3>2. \A j \in Kind : row[j].token = p => row'[j].expires <= Ttl
      <4>1. \A j \in Kind : /\ row[j].token = p => Released(p)[j].expires <= 0
                           /\ Released(p)[j].expires \in Int
        BY ReleasedRows DEF Row
      <4>2. QED
        BY <2>1, <4>1
    <3>3. QED
      BY <3>1, <3>2 DEF ExpiryBound
  <2>2. CASE row' = row
    BY <2>2 DEF TypeOK, ExpiryBound, Row
  <2>3. QED
    BY <2>1, <2>2
<1>14. ASSUME AddBusy(p) PROVE Goal
  <2> USE <1>0, <1>a, <1>14 DEF AddBusy, GoTo, ReadClock
  <2>0. row' = row
    OBVIOUS
  <2>1. QED
    BY <2>0 DEF ExpiryBound
<1>15. ASSUME FnEnds(p) PROVE Goal
  <2> USE <1>0, <1>a, <1>15 DEF FnEnds, GoTo, ReadClock
  <2>0. row' = row
    OBVIOUS
  <2>1. QED
    BY <2>0 DEF ExpiryBound
<1>16. ASSUME Finish(p) PROVE Goal
  <2> USE <1>0, <1>a, <1>16 DEF Finish, Leave, GoTo, ReadClock
  <2>1. CASE row' = Released(p)
    <3>1. \A j \in Kind : row[j].token # p => row'[j] = row[j]
      BY <2>1, ReleasedRows
    <3>2. \A j \in Kind : row[j].token = p => row'[j].expires <= Ttl
      <4>1. \A j \in Kind : /\ row[j].token = p => Released(p)[j].expires <= 0
                           /\ Released(p)[j].expires \in Int
        BY ReleasedRows DEF Row
      <4>2. QED
        BY <2>1, <4>1
    <3>3. QED
      BY <3>1, <3>2 DEF ExpiryBound
  <2>2. CASE row' = Abandon(p)
    BY <2>2, AbandonRows DEF TypeOK, ExpiryBound, Row, Abandon
  <2>3. QED
    BY <2>1, <2>2
<1>17. ASSUME Crash(p) PROVE Goal
  <2> USE <1>0, <1>a, <1>17 DEF Crash, Leave, GoTo, ReadClock
  <2>1. \A j \in Kind : \A q \in Proc \ {p} : row[j].token = q => row[j].pid # p
    BY NoneIsNoProc DEF PidOfToken
  <2>2. \A j \in Kind : row[j].pid # p => row'[j] = row[j]
    BY BereavedRows DEF TypeOK
  <2>3. \A j \in Kind : row[j].pid = p => row'[j].expires <= Ttl
    BY BereavedRows DEF TypeOK, ExpiryBound, Row
  <2>4. QED
    BY <2>1, <2>2, <2>3 DEF ExpiryBound
<1>18. ASSUME Stop(p) PROVE Goal
  <2> USE <1>0, <1>a, <1>18 DEF Stop, Leave, GoTo, ReadClock
  <2>1. \A j \in Kind : \A q \in Proc \ {p} : row[j].token = q => row[j].pid # p
    BY NoneIsNoProc DEF PidOfToken
  <2>2. \A j \in Kind : row[j].pid # p => row'[j] = row[j]
    BY FreeRowType DEF TypeOK
  <2>3. \A j \in Kind : row[j].pid = p => row'[j].expires <= Ttl
    BY FreeRowType DEF TypeOK, ExpiryBound, Row
  <2>4. QED
    BY <2>1, <2>2, <2>3 DEF ExpiryBound
<1>19. QED
  BY <1>1, <1>2, <1>3, <1>4, <1>5, <1>6, <1>7, <1>8, <1>9, <1>10, <1>11, <1>12, <1>13, <1>14, <1>15, <1>16, <1>17, <1>18 DEF Step

\* A statement of process p preserves the timing of all rows.
LEMMA TimingStep == ASSUME Shape, Shape', Timing, NEW p \in Proc, Step(p) PROVE Timing'
<1> USE Durations
<1>0. /\ TypeOK /\ PidOfToken /\ RowsMatchHeld /\ TypeOK'
      /\ LagBound /\ ExpiryBound /\ DeadlineBound /\ HeldRowsStand /\ LossIsRecorded
  BY DEF Shape, Timing
<1>a. Ttl \in Int /\ Ttl > 0 /\ Floor \in Int /\ Floor <= 0 /\ MaxLag \in Nat
  BY DEF Floor
<1>b. /\ ExpiryBound'
      /\ \A j \in Kind : \A q \in Proc \ {p} :
            row[j].token = q /\ row[j].expires > 0 => row'[j] = row[j]
  BY <1>0, RowsStep DEF ExpiryBound
<1>1. CASE Begin(p)
  <2> USE <1>0, <1>a, <1>1 DEF Begin, Attempt, GoTo, ReadClock
  <2>2. LagBound'
    BY DEF LagBound, TypeOK, Pending
  <2>3. DeadlineBound'
    BY DEF DeadlineBound, LagBound, TypeOK, AtLeast
  <2>4. HeldRowsStand'
    BY DEF HeldRowsStand, LossIsRecorded, TypeOK, Working
  <2>5. LossIsRecorded'
    BY DEF LossIsRecorded, TypeOK
  <2>6. QED
    BY <1>b, <2>2, <2>3, <2>4, <2>5 DEF Timing
<1>2. CASE Retry(p)
  <2> USE <1>0, <1>a, <1>2 DEF Retry, Attempt, GoTo, ReadClock
  <2>2. LagBound'
    BY DEF LagBound, TypeOK, Pending
  <2>3. DeadlineBound'
    BY DEF DeadlineBound, LagBound, TypeOK, AtLeast
  <2>4. HeldRowsStand'
    BY DEF HeldRowsStand, LossIsRecorded, TypeOK, Working
  <2>5. LossIsRecorded'
    BY DEF LossIsRecorded, TypeOK
  <2>6. QED
    BY <1>b, <2>2, <2>3, <2>4, <2>5 DEF Timing
<1>3. CASE GiveUp(p)
  <2> USE <1>0, <1>a, <1>3 DEF GiveUp, Leave, GoTo, ReadClock
  <2>2. LagBound'
    BY DEF LagBound, TypeOK, Pending
  <2>3. DeadlineBound'
    BY DEF DeadlineBound, LagBound, TypeOK, AtLeast
  <2>4. HeldRowsStand'
    <3>1. Stands(p)'
      BY DEF Stands, LossIsRecorded, TypeOK, Working
    <3>2. \A q \in Proc \ {p} : /\ pc'[q] = pc[q] /\ held'[q] = held[q]
                                /\ lost'[q] = lost[q] /\ deadline'[q] = deadline[q]
      BY DEF TypeOK
    <3>3. QED
      BY <1>b, <3>1, <3>2, OthersStand
  <2>5. LossIsRecorded'
    BY DEF LossIsRecorded, TypeOK
  <2>6. QED
    BY <1>b, <2>2, <2>3, <2>4, <2>5 DEF Timing
<1>4. CASE BackOut(p)
  <2> USE <1>0, <1>a, <1>4 DEF BackOut, GoTo, ReadClock
  <2>2. LagBound'
    BY DEF LagBound, TypeOK, Pending
  <2>3. DeadlineBound'
    BY DEF DeadlineBound, LagBound, TypeOK, AtLeast
  <2>4. HeldRowsStand'
    <3>1. Stands(p)'
      BY DEF Stands, LossIsRecorded, TypeOK, Working
    <3>2. \A q \in Proc \ {p} : /\ pc'[q] = pc[q] /\ held'[q] = held[q]
                                /\ lost'[q] = lost[q] /\ deadline'[q] = deadline[q]
      BY DEF TypeOK
    <3>3. QED
      BY <1>b, <3>1, <3>2, OthersStand
  <2>5. LossIsRecorded'
    BY DEF LossIsRecorded, TypeOK
  <2>6. QED
    BY <1>b, <2>2, <2>3, <2>4, <2>5 DEF Timing
<1>5. CASE AcquireBusy(p)
  <2> USE <1>0, <1>a, <1>5 DEF AcquireBusy, Leave, GoTo, ReadClock
  <2>2. LagBound'
    BY DEF LagBound, TypeOK, Pending
  <2>3. DeadlineBound'
    BY DEF DeadlineBound, LagBound, TypeOK, AtLeast
  <2>4. HeldRowsStand'
    <3>1. Stands(p)'
      BY DEF Stands, LossIsRecorded, TypeOK, Working
    <3>2. \A q \in Proc \ {p} : /\ pc'[q] = pc[q] /\ held'[q] = held[q]
                                /\ lost'[q] = lost[q] /\ deadline'[q] = deadline[q]
      BY DEF TypeOK
    <3>3. QED
      BY <1>b, <3>1, <3>2, OthersStand
  <2>5. LossIsRecorded'
    BY DEF LossIsRecorded, TypeOK
  <2>6. QED
    BY <1>b, <2>2, <2>3, <2>4, <2>5 DEF Timing
<1>6. ASSUME NEW k \in Kind, TryKind(p, k) PROVE Timing'
  <2> USE <1>0, <1>a, <1>6 DEF TryKind, InTurn, GoTo, ReadClock
  <2>2. LagBound'
    BY DEF LagBound, TypeOK, Pending
  <2>3. DeadlineBound'
    BY DEF DeadlineBound, LagBound, TypeOK, AtLeast
  <2>4. HeldRowsStand'
    <3>1. CASE Takeable(k, lag[p])
      <4>1. /\ row' = [row EXCEPT ![k] = TakenBy(p)]
            /\ held' = [held EXCEPT ![p] = @ \cup {k}]
        BY <3>1
      <4>2. TakenBy(p).token = p /\ (deadline[p] > 0 => TakenBy(p).expires >= deadline[p])
        BY TakenRow DEF DeadlineBound, TypeOK, AtLeast
      <4>3. row'[k] = TakenBy(p) /\ \A j \in Kind \ {k} : row'[j] = row[j]
        BY <4>1 DEF TypeOK
      <4>4. held'[p] = held[p] \cup {k} /\ deadline'[p] = deadline[p] /\ lost'[p] = lost[p]
        BY <4>1 DEF TypeOK
      <4>5. Stands(p)
        BY DEF HeldRowsStand, Stands
      <4>6. Stands(p)'
        BY <4>2, <4>3, <4>4, <4>5 DEF Stands, Working
      <4>7. \A q \in Proc \ {p} : /\ pc'[q] = pc[q] /\ held'[q] = held[q]
                                  /\ lost'[q] = lost[q] /\ deadline'[q] = deadline[q]
        BY DEF TypeOK
      <4>8. QED
        BY <1>b, <4>6, <4>7, OthersStand
    <3>2. CASE ~Takeable(k, lag[p])
      <4>1. row' = row /\ held' = held
        BY <3>2 DEF TypeOK
      <4>2. QED
        BY <4>1 DEF HeldRowsStand, TypeOK, Working
    <3>3. QED
      BY <3>1, <3>2
  <2>5. LossIsRecorded'
    BY DEF LossIsRecorded, TypeOK
  <2>6. QED
    BY <1>b, <2>2, <2>3, <2>4, <2>5 DEF Timing
<1>7. ASSUME NEW k \in Kind, Refused(p, k) PROVE Timing'
  <2> USE <1>0, <1>a, <1>7 DEF Refused, InTurn, GoTo, ReadClock
  <2>2. LagBound'
    BY DEF LagBound, TypeOK, Pending
  <2>3. DeadlineBound'
    BY DEF DeadlineBound, LagBound, TypeOK, AtLeast
  <2>4. HeldRowsStand'
    BY DEF HeldRowsStand, LossIsRecorded, TypeOK, Working
  <2>5. LossIsRecorded'
    BY DEF LossIsRecorded, TypeOK
  <2>6. QED
    BY <1>b, <2>2, <2>3, <2>4, <2>5 DEF Timing
<1>8. ASSUME NEW k \in Kind, StartAdd(p, k) PROVE Timing'
  <2> USE <1>0, <1>a, <1>8 DEF StartAdd, GoTo, ReadClock
  <2>2. LagBound'
    BY DEF LagBound, TypeOK, Pending
  <2>3. DeadlineBound'
    BY DEF DeadlineBound, LagBound, TypeOK, AtLeast
  <2>4. HeldRowsStand'
    BY DEF HeldRowsStand, LossIsRecorded, TypeOK, Working
  <2>5. LossIsRecorded'
    BY DEF LossIsRecorded, TypeOK
  <2>6. QED
    BY <1>b, <2>2, <2>3, <2>4, <2>5 DEF Timing
<1>9. ASSUME NEW k \in Kind, TryAdd(p, k) PROVE Timing'
  <2> USE <1>0, <1>a, <1>9 DEF TryAdd, GoTo, ReadClock
  <2>2. LagBound'
    BY DEF LagBound, TypeOK, Pending
  <2>3. DeadlineBound'
    BY DEF DeadlineBound, LagBound, TypeOK, AtLeast
  <2>4. HeldRowsStand'
    <3>1. CASE Takeable(k, lag[p])
      <4>1. /\ row' = [row EXCEPT ![k] = TakenBy(p)]
            /\ held' = [held EXCEPT ![p] = @ \cup {k}]
        BY <3>1
      <4>2. TakenBy(p).token = p /\ (deadline[p] > 0 => TakenBy(p).expires >= deadline[p])
        BY TakenRow DEF DeadlineBound, TypeOK, AtLeast
      <4>3. row'[k] = TakenBy(p) /\ \A j \in Kind \ {k} : row'[j] = row[j]
        BY <4>1 DEF TypeOK
      <4>4. held'[p] = held[p] \cup {k} /\ deadline'[p] = deadline[p] /\ lost'[p] = lost[p]
        BY <4>1 DEF TypeOK
      <4>5. Stands(p)
        BY DEF HeldRowsStand, Stands
      <4>6. Stands(p)'
        BY <4>2, <4>3, <4>4, <4>5 DEF Stands, Working
      <4>7. \A q \in Proc \ {p} : /\ pc'[q] = pc[q] /\ held'[q] = held[q]
                                  /\ lost'[q] = lost[q] /\ deadline'[q] = deadline[q]
        BY DEF TypeOK
      <4>8. QED
        BY <1>b, <4>6, <4>7, OthersStand
    <3>2. CASE ~Takeable(k, lag[p])
      <4>1. row' = row /\ held' = held
        BY <3>2 DEF TypeOK
      <4>2. QED
        BY <4>1 DEF HeldRowsStand, TypeOK, Working
    <3>3. QED
      BY <3>1, <3>2
  <2>5. LossIsRecorded'
    BY DEF LossIsRecorded, TypeOK
  <2>6. QED
    BY <1>b, <2>2, <2>3, <2>4, <2>5 DEF Timing
<1>10. CASE StartRenew(p)
  <2> USE <1>0, <1>a, <1>10 DEF StartRenew, GoTo, ReadClock
  <2>2. LagBound'
    BY DEF LagBound, TypeOK, Pending
  <2>3. DeadlineBound'
    BY DEF DeadlineBound, LagBound, TypeOK, AtLeast
  <2>4. HeldRowsStand'
    BY DEF HeldRowsStand, LossIsRecorded, TypeOK, Working
  <2>5. LossIsRecorded'
    BY DEF LossIsRecorded, TypeOK
  <2>6. QED
    BY <1>b, <2>2, <2>3, <2>4, <2>5 DEF Timing
<1>11. CASE Renew(p)
  <2> USE <1>0, <1>a, <1>11 DEF Renew, GoTo, ReadClock
  <2>2. LagBound'
    BY DEF LagBound, TypeOK, Pending
  <2>3. DeadlineBound'
    BY DEF DeadlineBound, LagBound, TypeOK, AtLeast
  <2>4. HeldRowsStand'
    <3>1. CASE NoticesLoss(p)
      <4>1. Stands(p)'
        BY <3>1 DEF Stands, TypeOK
      <4>2. \A q \in Proc \ {p} : /\ pc'[q] = pc[q] /\ held'[q] = held[q]
                                  /\ lost'[q] = lost[q] /\ deadline'[q] = deadline[q]
        BY <3>1 DEF TypeOK
      <4>3. QED
        BY <1>b, <4>1, <4>2, OthersStand
    <3>2. CASE ~NoticesLoss(p)
      <4>1. \A k \in held[p] : row[k].token = p
        BY <3>2, CountIsExact DEF Working
      <4>2. \A k \in Kind : /\ row'[k].token = row[k].token
                            /\ row[k].token = p => row'[k].expires = AtLeast(Ttl - lag[p], Floor)
        BY RenewedRows
      <4>3. deadline' = [deadline EXCEPT ![p] = AtLeast(Ttl - lag[p], 0)] /\ lost' = lost
        BY <3>2
      <4>4. Stands(p)'
        BY <4>1, <4>2, <4>3 DEF Stands, TypeOK, Working, AtLeast, LagBound
      <4>5. \A q \in Proc \ {p} : /\ pc'[q] = pc[q] /\ held'[q] = held[q]
                                  /\ lost'[q] = lost[q] /\ deadline'[q] = deadline[q]
        BY <3>2 DEF TypeOK
      <4>6. QED
        BY <1>b, <4>4, <4>5, OthersStand
    <3>3. QED
      BY <3>1, <3>2
  <2>5. LossIsRecorded'
    BY DEF LossIsRecorded, TypeOK
  <2>6. QED
    BY <1>b, <2>2, <2>3, <2>4, <2>5 DEF Timing
<1>12. CASE RenewBusy(p)
  <2> USE <1>0, <1>a, <1>12 DEF RenewBusy, GoTo, ReadClock
  <2>2. LagBound'
    BY DEF LagBound, TypeOK, Pending
  <2>3. DeadlineBound'
    BY DEF DeadlineBound, LagBound, TypeOK, AtLeast
  <2>4. HeldRowsStand'
    BY DEF HeldRowsStand, LossIsRecorded, TypeOK, Working
  <2>5. LossIsRecorded'
    BY DEF LossIsRecorded, TypeOK
  <2>6. QED
    BY <1>b, <2>2, <2>3, <2>4, <2>5 DEF Timing
<1>13. CASE Drop(p)
  <2> USE <1>0, <1>a, <1>13 DEF Drop, GoTo, ReadClock
  <2>2. LagBound'
    BY DEF LagBound, TypeOK, Pending
  <2>3. DeadlineBound'
    BY DEF DeadlineBound, LagBound, TypeOK, AtLeast
  <2>4. HeldRowsStand'
    <3>1. Stands(p)'
      BY DEF Stands, LossIsRecorded, TypeOK, Working
    <3>2. \A q \in Proc \ {p} : /\ pc'[q] = pc[q] /\ held'[q] = held[q]
                                /\ lost'[q] = lost[q] /\ deadline'[q] = deadline[q]
      BY DEF TypeOK
    <3>3. QED
      BY <1>b, <3>1, <3>2, OthersStand
  <2>5. LossIsRecorded'
    BY DEF LossIsRecorded, TypeOK
  <2>6. QED
    BY <1>b, <2>2, <2>3, <2>4, <2>5 DEF Timing
<1>14. CASE AddBusy(p)
  <2> USE <1>0, <1>a, <1>14 DEF AddBusy, GoTo, ReadClock
  <2>2. LagBound'
    BY DEF LagBound, TypeOK, Pending
  <2>3. DeadlineBound'
    BY DEF DeadlineBound, LagBound, TypeOK, AtLeast
  <2>4. HeldRowsStand'
    BY DEF HeldRowsStand, LossIsRecorded, TypeOK, Working
  <2>5. LossIsRecorded'
    BY DEF LossIsRecorded, TypeOK
  <2>6. QED
    BY <1>b, <2>2, <2>3, <2>4, <2>5 DEF Timing
<1>15. CASE FnEnds(p)
  <2> USE <1>0, <1>a, <1>15 DEF FnEnds, GoTo, ReadClock
  <2>2. LagBound'
    BY DEF LagBound, TypeOK, Pending
  <2>3. DeadlineBound'
    BY DEF DeadlineBound, LagBound, TypeOK, AtLeast
  <2>4. HeldRowsStand'
    BY DEF HeldRowsStand, LossIsRecorded, TypeOK, Working
  <2>5. LossIsRecorded'
    BY DEF LossIsRecorded, TypeOK
  <2>6. QED
    BY <1>b, <2>2, <2>3, <2>4, <2>5 DEF Timing
<1>16. CASE Finish(p)
  <2> USE <1>0, <1>a, <1>16 DEF Finish, Leave, GoTo, ReadClock
  <2>2. LagBound'
    BY DEF LagBound, TypeOK, Pending
  <2>3. DeadlineBound'
    BY DEF DeadlineBound, LagBound, TypeOK, AtLeast
  <2>4. HeldRowsStand'
    <3>1. Stands(p)'
      BY DEF Stands, LossIsRecorded, TypeOK, Working
    <3>2. \A q \in Proc \ {p} : /\ pc'[q] = pc[q] /\ held'[q] = held[q]
                                /\ lost'[q] = lost[q] /\ deadline'[q] = deadline[q]
      BY DEF TypeOK
    <3>3. QED
      BY <1>b, <3>1, <3>2, OthersStand
  <2>5. LossIsRecorded'
    BY DEF LossIsRecorded, TypeOK
  <2>6. QED
    BY <1>b, <2>2, <2>3, <2>4, <2>5 DEF Timing
<1>17. CASE Crash(p)
  <2> USE <1>0, <1>a, <1>17 DEF Crash, Leave, GoTo, ReadClock
  <2>2. LagBound'
    BY DEF LagBound, TypeOK, Pending
  <2>3. DeadlineBound'
    BY DEF DeadlineBound, LagBound, TypeOK, AtLeast
  <2>4. HeldRowsStand'
    <3>1. Stands(p)'
      BY DEF Stands, LossIsRecorded, TypeOK, Working
    <3>2. \A q \in Proc \ {p} : /\ pc'[q] = pc[q] /\ held'[q] = held[q]
                                /\ lost'[q] = lost[q] /\ deadline'[q] = deadline[q]
      BY DEF TypeOK
    <3>3. QED
      BY <1>b, <3>1, <3>2, OthersStand
  <2>5. LossIsRecorded'
    BY DEF LossIsRecorded, TypeOK
  <2>6. QED
    BY <1>b, <2>2, <2>3, <2>4, <2>5 DEF Timing
<1>18. CASE Stop(p)
  <2> USE <1>0, <1>a, <1>18 DEF Stop, Leave, GoTo, ReadClock
  <2>2. LagBound'
    BY DEF LagBound, TypeOK, Pending
  <2>3. DeadlineBound'
    BY DEF DeadlineBound, LagBound, TypeOK, AtLeast
  <2>4. HeldRowsStand'
    <3>1. Stands(p)'
      BY DEF Stands, LossIsRecorded, TypeOK, Working
    <3>2. \A q \in Proc \ {p} : /\ pc'[q] = pc[q] /\ held'[q] = held[q]
                                /\ lost'[q] = lost[q] /\ deadline'[q] = deadline[q]
      BY DEF TypeOK
    <3>3. QED
      BY <1>b, <3>1, <3>2, OthersStand
  <2>5. LossIsRecorded'
    BY DEF LossIsRecorded, TypeOK
  <2>6. QED
    BY <1>b, <2>2, <2>3, <2>4, <2>5 DEF Timing
<1>19. QED
  BY <1>1, <1>2, <1>3, <1>4, <1>5, <1>6, <1>7, <1>8, <1>9, <1>10, <1>11, <1>12, <1>13, <1>14, <1>15, <1>16, <1>17, <1>18 DEF Step

\* A tick of a steady clock preserves the timing: it never passes the wait
\* of a pending UPDATE.
LEMMA TimingTick == ASSUME Shape, Timing, Tick PROVE Timing'
<1> USE Durations
<1>0. /\ TypeOK /\ LagBound /\ ExpiryBound /\ DeadlineBound /\ HeldRowsStand /\ LossIsRecorded
  BY DEF Shape, Timing
<1>1. /\ \A k \in Kind : /\ row[k].expires \in Int
                        /\ row'[k].token = row[k].token
                        /\ row'[k].expires = AtLeast(row[k].expires - 1, Floor)
      /\ \A p \in Proc : /\ deadline[p] \in Int /\ lag[p] \in Int
                        /\ deadline'[p] = AtLeast(deadline[p] - 1, 0)
                        /\ lag'[p] = IF pc[p] \in Pending THEN lag[p] + 1 ELSE lag[p]
      /\ pc' = pc /\ held' = held /\ lost' = lost
  BY <1>0 DEF Tick, Elapse, TypeOK, Row
<1>2. ExpiryBound'
  BY <1>0, <1>1 DEF ExpiryBound, AtLeast, Floor
<1>3. LagBound'
  BY <1>0, <1>1 DEF LagBound, Tick
<1>4. DeadlineBound'
  BY <1>0, <1>1 DEF DeadlineBound, LagBound, AtLeast
<1>5. HeldRowsStand'
  BY <1>0, <1>1 DEF HeldRowsStand, AtLeast, Floor
<1>6. LossIsRecorded'
  BY <1>0, <1>1 DEF LossIsRecorded
<1>7. QED
  BY <1>2, <1>3, <1>4, <1>5, <1>6 DEF Timing

\* Shape and timing are inductive together under a steady clock.
LEMMA SteadyNext == Shape /\ Timing /\ [Next]_vars => (Shape /\ Timing)'
<1> SUFFICES ASSUME Shape, Timing, [Next]_vars PROVE Shape' /\ Timing'
  OBVIOUS
<1>1. Shape'
  BY ShapeNext DEF NextSteppedClock
<1>2. ASSUME NEW p \in Proc, Step(p) PROVE Timing'
  BY <1>1, <1>2, TimingStep
<1>3. CASE Tick
  BY <1>1, <1>3, TimingTick
<1>4. CASE UNCHANGED vars
  BY <1>1, <1>4 DEF vars, Timing, LagBound, ExpiryBound, DeadlineBound, HeldRowsStand, LossIsRecorded
<1>5. QED
  BY <1>1, <1>2, <1>3, <1>4 DEF Next

\* The inductive invariant of the leases under a steady clock.
THEOREM SteadyInvariant == Spec => [](Shape /\ Timing)
BY ShapeInit, TimingInit, SteadyNext, PTL DEF Spec

\* A holder whose renewals are in time has its rows to itself.
LEMMA HoldsOwns ==
  ASSUME Timing, NEW p \in Proc, NEW k \in Kind, Holds(p, k)
  PROVE  row[k].token = p
BY DEF Timing, HeldRowsStand, Holds

\* Two holders of one kind would both own its one row.
LEMMA TimingExcludes == Timing => MutualExclusion
<1> SUFFICES ASSUME Timing, NEW p \in Proc, NEW q \in Proc, NEW k \in Kind,
                    Holds(p, k), Holds(q, k)
             PROVE  p = q
  BY DEF MutualExclusion
<1>1. QED
  BY HoldsOwns

\* At most one process at a time counts on being the only one to do a kind
\* of delivery work: withLease never runs two of them side by side for as
\* long as what each last wrote to its rows has not run out.
THEOREM MutualExclusionHolds == Spec => []MutualExclusion
BY TimingExcludes, SteadyInvariant, PTL


\* A row that has not run out is freed by the call that owns it, or because
\* that call's process ended, and never passes to another call directly.
LEMMA OwnRowsStep ==
  ASSUME Shape, NEW p \in Proc, Step(p),
         NEW k \in Kind, row[k].token = p, row'[k].token # p
  PROVE  /\ row'[k].token = None
         /\ pc[p] \in {"backout", "drop", "done"} \/ pc'[p] = "idle"
<1> DEFINE Goal == /\ row'[k].token = None
                   /\ pc[p] \in {"backout", "drop", "done"} \/ pc'[p] = "idle"
<1>0. TypeOK /\ p \in Proc /\ PidOfToken /\ p # None
  BY NoneIsNoProc DEF Shape
<1>1. CASE Begin(p) \/ Retry(p) \/ StartRenew(p) \/ RenewBusy(p) \/ AddBusy(p)
           \/ FnEnds(p) \/ \E j \in Kind : Refused(p, j) \/ StartAdd(p, j)
  BY <1>1 DEF Begin, Retry, StartRenew, RenewBusy, AddBusy, FnEnds, Refused, StartAdd
<1>2. CASE GiveUp(p) \/ AcquireBusy(p)
  BY <1>0, <1>2, AbandonRows DEF GiveUp, AcquireBusy, Leave, GoTo, TypeOK
<1>3. CASE BackOut(p) \/ Drop(p)
  BY <1>0, <1>3, ReleasedRows DEF BackOut, Drop
<1>4. ASSUME NEW j \in Kind, TryKind(p, j) \/ TryAdd(p, j) PROVE Goal
  <2>1. row' = row \/ row' = [row EXCEPT ![j] = TakenBy(p)]
    BY <1>4 DEF TryKind, TryAdd
  <2>2. row'[k] = row[k] \/ row'[k] = TakenBy(p)
    BY <1>0, <2>1 DEF TypeOK
  <2>3. QED
    BY <1>0, <2>2, TakenRow
<1>5. CASE Renew(p)
  BY <1>0, <1>5, RenewedRows DEF Renew
<1>6. CASE Finish(p)
  BY <1>0, <1>6, ReleasedRows, AbandonRows DEF Finish
<1>7. CASE Crash(p)
  <2>1. row[k].pid = p
    BY <1>0 DEF PidOfToken
  <2>2. QED
    BY <1>0, <1>7, <2>1, BereavedRows DEF Crash, Leave, GoTo, TypeOK
<1>8. CASE Stop(p)
  <2>1. row[k].pid = p
    BY <1>0 DEF PidOfToken
  <2>2. row'[k] = FreeRow
    BY <1>8, <2>1 DEF Stop
  <2>3. QED
    BY <1>0, <1>8, <2>2, FreeRowType DEF Stop, Leave, GoTo, TypeOK
<1>9. QED
  BY <1>1, <1>2, <1>3, <1>4, <1>5, <1>6, <1>7, <1>8 DEF Step

\* What a row may do in one step while it has not run out.
NotStolen(k) ==
  LET o == row[k].token IN
  o # None /\ row[k].expires > 0 /\ row'[k].token # o
    => /\ row'[k].token = None
       /\ pc[o] \in {"backout", "drop", "done"} \/ pc'[o] = "idle"

\* No statement takes a row that has not run out away from another call.
LEMMA StepDoesNotSteal ==
  ASSUME Shape, Timing, [Next]_vars, NEW k \in Kind
  PROVE  NotStolen(k)
<1>0. TypeOK /\ LagBound /\ ExpiryBound
  BY DEF Shape, Timing
<1> SUFFICES ASSUME row[k].token # None, row[k].expires > 0,
                    row'[k].token # row[k].token
             PROVE  /\ row'[k].token = None
                    /\ \/ pc[row[k].token] \in {"backout", "drop", "done"}
                       \/ pc'[row[k].token] = "idle"
  BY DEF NotStolen
<1>1. row[k].token \in Proc
  BY <1>0 DEF TypeOK, Row
<1>2. ASSUME NEW p \in Proc, Step(p) PROVE p = row[k].token
  BY <1>0, <1>1, <1>2, RowsStep
<1>3. CASE Tick
  BY <1>0, <1>3 DEF Tick, Elapse, TypeOK, Row
<1>4. CASE UNCHANGED vars
  BY <1>4 DEF vars
<1>5. QED
  BY <1>1, <1>2, <1>3, <1>4, OwnRowsStep DEF Next

\* No contender takes the row of a call that is still within its lease, at
\* any interleaving of clock readings and write locks (tryAcquireKind).
THEOREM LiveLeaseNeverStolen == Spec => LiveLeaseNotStolen
<1>1. Shape /\ Timing /\ [Next]_vars => [\A k \in Kind : NotStolen(k)]_vars
  BY StepDoesNotSteal
<1>2. [\A k \in Kind : NotStolen(k)]_vars
        => [\A k \in Kind :
             LET o == row[k].token IN
             o # None /\ row[k].expires > 0 /\ row'[k].token # o
               => /\ row'[k].token = None
                  /\ pc[o] \in {"backout", "drop", "done"} \/ pc'[o] = "idle"]_vars
  BY DEF NotStolen
<1>3. QED
  BY <1>1, <1>2, SteadyInvariant, PTL DEF Spec, LiveLeaseNotStolen

-----------------------------------------------------------------------------
(* Refinement.                                                             *)

\* A statement of p changes nothing another process knows of its own lease.
LEMMA OthersUntouched ==
  ASSUME TypeOK, NEW p \in Proc, Step(p), NEW q \in Proc \ {p}
  PROVE  /\ pc'[q] = pc[q] /\ held'[q] = held[q]
         /\ lost'[q] = lost[q] /\ deadline'[q] = deadline[q]
BY DEF TypeOK, Step, Begin, Retry, GiveUp, BackOut, AcquireBusy, TryKind, Refused,
   StartAdd, TryAdd, StartRenew, Renew, RenewBusy, Drop, AddBusy, FnEnds, Finish,
   Crash, Stop, Attempt, Leave, GoTo, ReadClock

\* Who holds a kind after a step: whoever held it before, less those whose
\* right lapsed, and at most one who was granted it.
LEMMA HoldsNext ==
  ASSUME Shape, Timing', [Next]_vars, NEW k \in Kind
  PROVE  Abstract!Lapse(k) \/ Abstract!Grant(k)
<1>0. TypeOK
  BY DEF Shape
<1>1. ASSUME NEW p \in Proc, Step(p)
      PROVE  Abstract!Lapse(k) \/ Abstract!Grant(k)
  <2>1. \A q \in Proc \ {p} : Holds(q, k)' <=> Holds(q, k)
    BY <1>0, <1>1, OthersUntouched DEF Holds
  <2>2. CASE Holds(p, k)' /\ ~Holds(p, k)
    <3>0. MutualExclusion'
      BY TimingExcludes, PTL
    <3>1. \A q \in Proc : Holds(q, k)' => q = p
      BY <2>2, <3>0 DEF MutualExclusion
    <3>2. \A q \in Proc : ~Holds(q, k)
      BY <2>1, <2>2, <3>1
    <3>3. Ownership'[k] = {p} /\ Ownership[k] = {}
      BY <2>2, <3>1, <3>2 DEF Ownership
    <3>4. QED
      BY <3>3 DEF Abstract!Grant
  <2>3. CASE ~(Holds(p, k)' /\ ~Holds(p, k))
    <3>1. \A q \in Proc : Holds(q, k)' => Holds(q, k)
      BY <2>1, <2>3
    <3>2. QED
      BY <3>1 DEF Abstract!Lapse, Ownership
  <2>4. QED
    BY <2>2, <2>3
<1>2. CASE Tick
  <2>1. \A q \in Proc : Holds(q, k)' => Holds(q, k)
    BY <1>0, <1>2 DEF Tick, Elapse, TypeOK, Holds, AtLeast
  <2>2. QED
    BY <2>1 DEF Abstract!Lapse, Ownership
<1>3. CASE UNCHANGED vars
  <2>1. \A q \in Proc : Holds(q, k)' <=> Holds(q, k)
    BY <1>3 DEF vars, Holds
  <2>2. QED
    BY <2>1 DEF Abstract!Lapse, Ownership
<1>4. QED
  BY <1>1, <1>2, <1>3 DEF Next

\* withLease implements the abstract exclusive lease: the right to a kind of
\* work is granted only when nobody has it, and otherwise only lapses.
THEOREM Refinement == Spec => ImplementsExclusiveLease
<1>1. Init => Abstract!Init
  BY DEF Init, Abstract!Init, Ownership, Holds, Working
<1>2. Shape /\ Timing' /\ [Next]_vars => [Abstract!Next]_Ownership
  <2> SUFFICES ASSUME Shape, Timing', [Next]_vars PROVE Abstract!Next
    OBVIOUS
  <2>1. Ownership' \in [Kind -> SUBSET Proc]
    BY DEF Ownership
  <2>2. QED
    BY <2>1, HoldsNext DEF Abstract!Next
<1>3. QED
  BY <1>1, <1>2, SteadyInvariant, PTL DEF Spec, ImplementsExclusiveLease, Abstract!Spec

-----------------------------------------------------------------------------
(* What AbandonedRowComesFree and TheftIsNoticed rest on.                  *)

\* Two calls that both believe they have a kind: one of them finds out at its
\* next renewal.
OverlapIsNoticeable ==
  \A p, q \in Proc : \A k \in Kind :
    /\ p # q
    /\ pc[p] \in Working /\ ~lost[p] /\ k \in held[p]
    /\ pc[q] \in Working /\ ~lost[q] /\ k \in held[q]
    => NoticesLoss(p) \/ NoticesLoss(q)

\* p runs fn and one of the kinds it counts on is not its own.
Robbed(p) == pc[p] \in Working /\ \E k \in held[p] : row[k].token # p

\* A call never gets a row back that was taken from it: its renewals find too few
\* of them until it is told, and the first that reaches the table tells it.
TheftStands ==
  [][\A p \in Proc : Robbed(p) =>
       /\ Robbed(p)' \/ pc'[p] \notin Working
       /\ Renew(p) => lost'[p]]_vars

\* Only the call whose token is in a row, or comes into it, makes it last longer.
OnlyOwnersExtend ==
  [][\A k \in Kind : row'[k].expires > row[k].expires /\ row'[k].expires > 0
       => row'[k].token \in Proc /\ pc[row'[k].token] \in Pending]_vars

\* A call asks only for a kind it does not have yet.
AddsNew == \A p \in Proc : pc[p] = "add" => untried[p] \cap held[p] = {}

\* What a statement of p may do to a row.
RowWay(p, k) ==
  \/ row'[k] = row[k]
  \/ row'[k].token = None /\ (row'[k].expires = row[k].expires \/ row'[k].expires <= 0)
  \/ row'[k].token = p /\ pc[p] \in {"acquire", "add"} /\ k \in untried[p]
  \/ row'[k].token = p /\ row[k].token = p /\ pc[p] = "renew"

\* There is no other way.
LEMMA RowWays ==
  ASSUME Shape, NEW p \in Proc, Step(p), NEW k \in Kind
  PROVE  RowWay(p, k)
<1>0. TypeOK /\ PidOfToken
  BY DEF Shape
<1>1. CASE Begin(p) \/ Retry(p) \/ StartRenew(p) \/ RenewBusy(p) \/ AddBusy(p)
           \/ FnEnds(p) \/ \E j \in Kind : Refused(p, j) \/ StartAdd(p, j)
  BY <1>1 DEF Begin, Retry, StartRenew, RenewBusy, AddBusy, FnEnds, Refused, StartAdd, RowWay
<1>2. CASE row' = Abandon(p)
  <2>1. CASE row[k].token = p
    BY <1>0, <1>2, <2>1, AbandonRows DEF RowWay
  <2>2. CASE row[k].token # p
    BY <1>2, <2>2 DEF RowWay, Abandon
  <2>3. QED
    BY <2>1, <2>2
<1>3. CASE row' = Released(p) \/ row' = row
  BY <1>0, <1>3, ReleasedRows DEF RowWay
<1>4. ASSUME NEW j \in Kind, TryKind(p, j) \/ TryAdd(p, j) PROVE RowWay(p, k)
  <2>1. /\ row' = row \/ row' = [row EXCEPT ![j] = TakenBy(p)]
        /\ pc[p] \in {"acquire", "add"} /\ j \in untried[p]
    BY <1>4 DEF TryKind, TryAdd, InTurn
  <2>2. row'[k] = row[k] \/ (k = j /\ row'[k] = TakenBy(p))
    BY <1>0, <2>1 DEF TypeOK
  <2>3. QED
    BY <1>0, <2>1, <2>2, TakenRow DEF RowWay
<1>5. CASE Renew(p)
  <2>1. row' = Renewed(p) /\ pc[p] = "renew"
    BY <1>5 DEF Renew
  <2>2. CASE row[k].token = p
    BY <1>0, <2>1, <2>2, RenewedRows DEF RowWay
  <2>3. CASE row[k].token # p
    BY <2>1, <2>3 DEF Renewed, RowWay
  <2>4. QED
    BY <2>2, <2>3
<1>6. CASE Crash(p)
  BY <1>0, <1>6, BereavedRows DEF Crash, RowWay
<1>7. CASE Stop(p)
  BY <1>7, FreeRowType DEF Stop, RowWay
<1>8. QED
  BY <1>1, <1>2, <1>3, <1>4, <1>5, <1>6, <1>7
     DEF Step, GiveUp, AcquireBusy, BackOut, Drop, Finish

\* Only the process itself changes what it has in hand, and fn forgets no kind.
LEMMA HeldStays ==
  ASSUME Shape, NEW p \in Proc, Step(p), pc[p] \in Working, pc'[p] \in Working
  PROVE  held[p] \subseteq held'[p]
<1>0. TypeOK
  BY DEF Shape
<1>1. CASE \/ StartRenew(p) \/ Renew(p) \/ RenewBusy(p) \/ Drop(p) \/ AddBusy(p) \/ FnEnds(p) \/ BackOut(p)
           \/ \E k \in Kind : StartAdd(p, k) \/ Refused(p, k)
  BY <1>1 DEF StartRenew, Renew, RenewBusy, Drop, AddBusy, FnEnds, BackOut, StartAdd, Refused
<1>2. ASSUME NEW k \in Kind, TryAdd(p, k) \/ TryKind(p, k) PROVE held[p] \subseteq held'[p]
  <2>1. held' = held \/ held' = [held EXCEPT ![p] = @ \cup {k}]
    BY <1>2 DEF TryAdd, TryKind
  <2>2. QED
    BY <1>0, <2>1 DEF TypeOK
<1>3. CASE Begin(p) \/ Retry(p) \/ GiveUp(p) \/ AcquireBusy(p) \/ Finish(p)
  BY <1>3 DEF Begin, Retry, GiveUp, AcquireBusy, Finish, Working
<1>4. ~Crash(p) /\ ~Stop(p)
  BY <1>0 DEF Crash, Stop, Leave, GoTo, TypeOK, Working
<1>5. QED
  BY <1>1, <1>2, <1>3, <1>4 DEF Step

\* tryAdd returns at once for a kind it has.
LEMMA AddsNewNext == Shape /\ AddsNew /\ [NextSteppedClock]_vars => AddsNew'
<1> SUFFICES ASSUME Shape, AddsNew, [NextSteppedClock]_vars, NEW q \in Proc, pc'[q] = "add"
             PROVE  untried'[q] \cap held'[q] = {}
  BY DEF AddsNew
<1>0. TypeOK
  BY DEF Shape
<1>1. ASSUME UNCHANGED <<pc, held, untried>> PROVE untried'[q] \cap held'[q] = {}
  BY <1>1 DEF AddsNew
<1>2. ASSUME NEW p \in Proc, Step(p), p # q PROVE untried'[q] \cap held'[q] = {}
  <2>1. pc'[q] = pc[q] /\ held'[q] = held[q]
    BY <1>0, <1>2, OthersUntouched
  <2>2. untried'[q] = untried[q]
    BY <1>0, <1>2 DEF TypeOK, Step, Begin, Retry, GiveUp, BackOut, AcquireBusy, TryKind, Refused,
       StartAdd, TryAdd, StartRenew, Renew, RenewBusy, Drop, AddBusy, FnEnds, Finish,
       Crash, Stop, Attempt, Leave
  <2>3. QED
    BY <2>1, <2>2 DEF AddsNew
<1>3. ASSUME Step(q) PROVE untried'[q] \cap held'[q] = {}
  <2>1. CASE \E k \in Kind : StartAdd(q, k)
    BY <1>0, <2>1 DEF StartAdd, TypeOK
  <2>2. CASE ~\E k \in Kind : StartAdd(q, k)
    <3>1. (\E x \in Stage \ {"add"} : GoTo(q, x)) \/ (pc' = pc /\ pc[q] = "acquire")
      BY <1>3, <2>2 DEF Step, Begin, Retry, GiveUp, BackOut, AcquireBusy, TryKind, Refused,
         TryAdd, StartRenew, Renew, RenewBusy, Drop, AddBusy, FnEnds, Finish,
         Crash, Stop, Attempt, Leave, Stage
    <3>2. QED
      BY <1>0, <3>1 DEF GoTo, TypeOK
  <2>3. QED
    BY <2>1, <2>2
<1>4. CASE Tick \/ (\E d \in ClockStep : StepClock(d)) \/ UNCHANGED vars
  BY <1>1, <1>4 DEF Tick, StepClock, vars
<1>5. QED
  BY <1>2, <1>3, <1>4 DEF NextSteppedClock, Next

\* Whoever was robbed stays so.
LEMMA RobbedStays ==
  ASSUME Shape, AddsNew, [NextSteppedClock]_vars, NEW q \in Proc, Robbed(q), pc'[q] \in Working
  PROVE  Robbed(q)'
<1>0. TypeOK
  BY DEF Shape
<1>1. PICK k \in held[q] : row[k].token # q
  BY DEF Robbed
<1>2. k \in Kind /\ pc[q] \in Working
  BY <1>0, <1>1 DEF TypeOK, Robbed
<1>3. ASSUME NEW p \in Proc, Step(p)
      PROVE  row'[k].token # q /\ k \in held'[q]
  <2>1. RowWay(p, k)
    BY <1>2, <1>3, RowWays
  <2>2. CASE p # q
    BY <1>0, <1>1, <1>3, <2>1, <2>2, OthersUntouched, NoneIsNoProc DEF RowWay
  <2>3. CASE p = q
    <3>1. k \in held'[q]
      BY <1>1, <1>2, <1>3, <2>3, HeldStays
    <3>2. ~(pc[p] \in {"acquire", "add"} /\ k \in untried[p])
      BY <1>1, <1>2, <2>3 DEF AddsNew, Working
    <3>3. QED
      BY <1>1, <2>1, <2>3, <3>1, <3>2, NoneIsNoProc DEF RowWay
  <2>4. QED
    BY <2>2, <2>3
<1>4. ASSUME NEW d, Elapse(d), held' = held PROVE row'[k].token # q /\ k \in held'[q]
  <2>1. row'[k].token = row[k].token
    BY <1>0, <1>2, <1>4 DEF Elapse, TypeOK, Row
  <2>2. QED
    BY <1>1, <1>4, <2>1
<1>5. CASE UNCHANGED vars
  BY <1>1, <1>5 DEF vars, Robbed
<1>6. row'[k].token # q /\ k \in held'[q]
  BY <1>1, <1>3, <1>4, <1>5 DEF NextSteppedClock, Next, Tick, StepClock, vars
<1>7. QED
  BY <1>6 DEF Robbed

\* The first renewal of a robbed call that gets the write lock tells it.
LEMMA RenewalTells ==
  ASSUME Shape, NEW p \in Proc, Robbed(p), Renew(p)
  PROVE  lost'[p]
<1>1. NoticesLoss(p)
  BY CountIsExact DEF Robbed
<1>2. lost' = [lost EXCEPT ![p] = TRUE]
  BY <1>1 DEF Renew
<1>3. QED
  BY <1>2 DEF Shape, TypeOK

\* However the wall clock is moved, two calls that believe in the same kind do
\* not both find as many rows as they count on (withLease.renew).
THEOREM OverlapShows == SpecSteppedClock => []OverlapIsNoticeable
<1>1. Shape => OverlapIsNoticeable
  BY CountIsExact DEF OverlapIsNoticeable
<1>2. QED
  BY <1>1, ShapeSteppedClock, PTL

\* A theft is for good, and the next renewal that runs finds it, under any clock
\* (withLease.renew and tryAdd).
THEOREM TheftIsFinal == SpecSteppedClock => TheftStands
<1>1. Init => AddsNew
  BY DEF Init, AddsNew
<1> DEFINE Stands1 == \A p \in Proc : Robbed(p) =>
                        /\ Robbed(p)' \/ pc'[p] \notin Working
                        /\ Renew(p) => lost'[p]
<1>2. Shape /\ AddsNew /\ [NextSteppedClock]_vars => [Stands1]_vars
  BY RobbedStays, RenewalTells
<1>3. TheftStands <=> [][Stands1]_vars
  BY DEF TheftStands
<1> HIDE DEF Stands1
<1>4. QED
  BY <1>1, <1>2, <1>3, AddsNewNext, ShapeSteppedClock, PTL DEF SpecSteppedClock

\* A row no call owns never comes to last longer, and none lasts longer than a
\* TTL, so that an abandoned row is free after that (tryAcquireKind and renew).
THEOREM AbandonedRunsOut == Spec => []ExpiryBound /\ OnlyOwnersExtend
<1> DEFINE Extends == \A k \in Kind : row'[k].expires > row[k].expires /\ row'[k].expires > 0
                        => row'[k].token \in Proc /\ pc[row'[k].token] \in Pending
<1>1. Shape /\ [Next]_vars => [Extends]_vars
  <2> SUFFICES ASSUME Shape, [Next]_vars, NEW k \in Kind,
                      row'[k].expires > row[k].expires, row'[k].expires > 0
               PROVE  row'[k].token \in Proc /\ pc[row'[k].token] \in Pending
    OBVIOUS
  <2>0. row[k].expires \in Int /\ row \in [Kind -> Row]
    BY DEF Shape, TypeOK, Row
  <2>1. ASSUME NEW p \in Proc, Step(p)
        PROVE  row'[k].token \in Proc /\ pc[row'[k].token] \in Pending
    <3>1. RowWay(p, k)
      BY <2>1, RowWays
    <3>2. row'[k] # row[k]
      BY <2>0
    <3>3. ~(row'[k].expires = row[k].expires \/ row'[k].expires <= 0)
      <4>1. row'[k].expires \in Int
        <5>1. Shape'
          BY ShapeNext DEF NextSteppedClock
        <5>2. QED
          BY <5>1 DEF Shape, TypeOK, Row
      <4>2. QED
        BY <2>0, <4>1
    <3>4. QED
      BY <3>1, <3>2, <3>3 DEF RowWay, Pending
  <2>2. CASE Tick
    <3>1. row'[k].expires = AtLeast(row[k].expires - 1, Floor)
      BY <2>0, <2>2 DEF Tick, Elapse, Row
    <3>2. QED
      BY <2>0, <3>1, Durations DEF AtLeast, Floor
  <2>3. CASE UNCHANGED vars
    BY <2>0, <2>3 DEF vars
  <2>4. QED
    BY <2>1, <2>2, <2>3 DEF Next
<1>2. OnlyOwnersExtend <=> [][Extends]_vars
  BY DEF OnlyOwnersExtend
<1>3. Timing => ExpiryBound
  BY DEF Timing
<1> HIDE DEF Extends
<1>4. QED
  BY <1>1, <1>2, <1>3, SteadyInvariant, PTL DEF Spec
=============================================================================
