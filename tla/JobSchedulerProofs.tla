------------------------- MODULE JobSchedulerProofs -------------------------
(***************************************************************************)
(* Proofs about JobScheduler: its types, that each replica launches a      *)
(* request at most once, that two replicas run the job at the same time    *)
(* only if the pool of one of them closed the session of the lock under an *)
(* invocation, and that the lock implements ExclusiveLease for the replicas*)
(* whose lock was not cut off like that.                                   *)
(***************************************************************************)
EXTENDS JobScheduler, FiniteSetTheorems, TLAPS

\* One session holds the lock, however often.
OneSession == \A c, d \in Conn : holds[c] > 0 /\ holds[d] > 0 => c = d

\* It was not given back more often than the invocations of its replica ended:
\* an unlock in another session of the pool frees nothing.  Only a replica
\* whose session was closed under an invocation may be without.
Covered ==
  \A i \in Replica \ severed : Locked(i) # {} =>
    \E c \in Pool(i) : holds[c] >= Cardinality(Locked(i))

Inv == TypeOK /\ OneSession /\ Covered

-----------------------------------------------------------------------------
(* Types.                                                                  *)

\* An invocation that does not run is of some replica.
LEMMA NoRunType == NoRun \in RunState
BY ReplicasOk DEF NoRun, RunState

LEMMA QuietType == Quiet \in PollState
BY DEF Quiet, PollState

LEMMA TypeInit == Init => TypeOK
<1> SUFFICES ASSUME Init PROVE TypeOK
  OBVIOUS
<1>1. poll \in [Replica -> PollState] /\ run \in [Run -> RunState]
  BY NoRunType, QuietType DEF Init
<1>2. /\ requests \in 0..MaxRequests /\ minute \in 0..MaxMinutes
      /\ lastRan \in [Replica -> 0..MaxMinutes] /\ holds \in [Conn -> Nat]
  BY BoundsOk DEF Init
<1> QED
  BY <1>1, <1>2 DEF Init, TypeOK

LEMMA TypeNext == TypeOK /\ [Next]_vars => TypeOK'
<1> SUFFICES ASSUME TypeOK, [Next]_vars PROVE TypeOK'
  OBVIOUS
<1> USE NoRunType, BoundsOk DEF TypeOK, config, time, lock
<1>0. \A r \in Run, stage \in {"idle", "create", "body", "unlock"} :
        GoTo(r, stage) => run' \in [Run -> RunState]
  BY DEF GoTo, RunState
<1>1. CASE Request
  BY <1>1 DEF Request
<1>2. CASE Switch
  BY <1>2 DEF Switch
<1>3. CASE MinuteComes
  BY <1>3 DEF MinuteComes
<1>4. CASE MinutePasses
  BY <1>4 DEF MinutePasses
<1>5. ASSUME NEW i \in Replica, PollConfig(i) PROVE TypeOK'
  <2>1. poll' \in [Replica -> PollState]
    BY <1>5 DEF PollConfig, PollState
  <2>2. run' \in [Run -> RunState]
    BY <1>5 DEF PollConfig, Launch, RunState
  <2>3. lastRan' \in [Replica -> 0..MaxMinutes]
    BY <1>5 DEF PollConfig
  <2>4. QED
    BY <1>5, <2>1, <2>2, <2>3 DEF PollConfig
<1>6. ASSUME NEW i \in Replica, PollRuns(i) PROVE TypeOK'
  <2>1. poll' = [poll EXCEPT ![i] = Quiet] \/ poll' = [poll EXCEPT ![i].pc = "clear"]
    BY <1>6 DEF PollRuns
  <2>2. poll' \in [Replica -> PollState]
    BY <2>1, QuietType DEF PollState
  <2>3. QED
    BY <1>6, <2>2 DEF PollRuns
<1>7. ASSUME NEW i \in Replica, ClearRequest(i) PROVE TypeOK'
  <2>1. poll' \in [Replica -> PollState]
    BY <1>7 DEF ClearRequest, PollState, Quiet
  <2>2. run' \in [Run -> RunState]
    BY <1>7 DEF ClearRequest, Launch, RunState, PollState
  <2>3. requestedAt' \in Nat /\ answered' \subseteq Replica \X Nat
    BY <1>7 DEF ClearRequest, PollState
  <2>4. QED
    BY <1>7, <2>1, <2>2, <2>3 DEF ClearRequest
<1>8. ASSUME NEW r \in Run, TryLock(r) PROVE TypeOK'
  <2>1. run' \in [Run -> RunState]
    BY <1>0, <1>8 DEF TryLock
  <2>2. holds' \in [Conn -> Nat]
    BY <1>8 DEF TryLock, Pool
  <2>3. QED
    BY <1>8, <2>1, <2>2 DEF TryLock
<1>9. ASSUME NEW r \in Run, CreateRow(r) PROVE TypeOK'
  <2>1. run' \in [Run -> RunState]
    BY <1>0, <1>9 DEF CreateRow
  <2>2. QED
    BY <1>9, <2>1 DEF CreateRow
<1>10. ASSUME NEW r \in Run, BodyEnds(r) PROVE TypeOK'
  BY <1>0, <1>10 DEF BodyEnds
<1>11. ASSUME NEW r \in Run, Unlock(r) PROVE TypeOK'
  <2>1. run' \in [Run -> RunState]
    BY <1>0, <1>11 DEF Unlock
  <2>2. holds' \in [Conn -> Nat]
    BY <1>11 DEF Unlock, Pool
  <2>3. QED
    BY <1>11, <2>1, <2>2 DEF Unlock, Mended
<1>12. ASSUME NEW c \in Conn, CloseIdle(c) PROVE TypeOK'
  BY <1>12, PoolsOk DEF CloseIdle
<1>13. ASSUME NEW i \in Replica, Crash(i) PROVE TypeOK'
  BY <1>13 DEF Crash, Mended, Quiet, PollState
<1>14. CASE UNCHANGED vars
  BY <1>14 DEF vars
<1> QED
  BY <1>1, <1>2, <1>3, <1>4, <1>5, <1>6, <1>7, <1>8, <1>9, <1>10, <1>11, <1>12, <1>13, <1>14
  DEF Next, Poll, Proceed

\* Every variable keeps its type, for any number of replicas, sessions and
\* invocations: scheduler.ts, job-run.ts.
THEOREM TypeCorrect == Spec => []TypeOK
BY TypeInit, TypeNext, PTL DEF Spec

-----------------------------------------------------------------------------
(* The lock.                                                               *)

\* There are finitely many invocations that hold the lock, and as many as
\* there are is a number.
LEMMA LockedFinite == \A i \in Replica : IsFiniteSet(Locked(i)) /\ Cardinality(Locked(i)) \in Nat
<1>1. \A i \in Replica : Locked(i) \subseteq Run
  BY DEF Locked
<1> QED
  BY <1>1, RunsOk, FS_Subset, FS_CardinalityType

\* A step that neither touches the lock nor lets an invocation take it or give
\* it back keeps the invariant.
LEMMA LockKept ==
  ASSUME OneSession, Covered, UNCHANGED lock,
         \A i \in Replica : Locked(i)' = Locked(i)
  PROVE  OneSession' /\ Covered'
BY DEF OneSession, Covered, Pool, lock

\* An invocation that is launched does not have the lock.
LEMMA LaunchLocksNothing ==
  ASSUME TypeOK, NEW i \in Replica, NEW q \in Nat, Launch(i, q), NEW j \in Replica
  PROVE  Locked(j)' = Locked(j)
BY DEF TypeOK, Launch, Locked, RunState

\* The lock is taken in a session that holds it already, or by the first.
LEMMA LockTaken ==
  ASSUME Inv, NEW r \in Run, NEW c \in Pool(run[r].on), run[r].pc = "lock",
         \A d \in Conn \ {c} : holds[d] = 0,
         GoTo(r, "create"), holds' = [holds EXCEPT ![c] = @ + 1], UNCHANGED severed
  PROVE  OneSession' /\ Covered'
<1> USE DEF Inv, TypeOK
<1>0. PICK i \in Replica : i = run[r].on
  BY DEF RunState
<1>1. c \in Conn /\ PoolOf[c] = i
  BY <1>0 DEF Pool
<1>2. OneSession'
  BY <1>1 DEF OneSession
<1>3. /\ Locked(i)' = Locked(i) \cup {r} /\ r \notin Locked(i)
      /\ \A j \in Replica \ {i} : Locked(j)' = Locked(j)
  BY <1>0 DEF GoTo, Locked, RunState
<1>4. Cardinality(Locked(i)') = Cardinality(Locked(i)) + 1
  BY <1>1, <1>3, LockedFinite, FS_AddElement
<1>5. ASSUME i \notin severed PROVE holds'[c] >= Cardinality(Locked(i)')
  <2>1. CASE Locked(i) = {}
    BY <1>1, <1>4, <2>1, FS_EmptySet
  <2>2. CASE Locked(i) # {}
    <3>1. PICK d \in Pool(i) : holds[d] >= Cardinality(Locked(i))
      BY <1>1, <1>5, <2>2 DEF Covered
    <3>2. Cardinality(Locked(i)) # 0
      BY <1>1, <2>2, LockedFinite, FS_EmptySet
    <3>3. d = c
      BY <1>1, <3>1, <3>2, LockedFinite DEF Pool
    <3>4. QED
      BY <1>1, <1>4, <3>1, <3>3, LockedFinite
  <2>3. QED
    BY <2>1, <2>2
<1>6. ASSUME NEW j \in Replica \ severed, j # i PROVE Locked(j) = {}
  <2>1. SUFFICES ASSUME Locked(j) # {} PROVE FALSE
    OBVIOUS
  <2>2. PICK d \in Pool(j) : holds[d] >= Cardinality(Locked(j))
    BY <1>6, <2>1 DEF Covered
  <2>3. Cardinality(Locked(j)) \in Nat /\ Cardinality(Locked(j)) # 0
    BY <1>6, <2>1, LockedFinite, FS_EmptySet
  <2>4. d \in Conn /\ d # c /\ holds[d] = 0
    BY <1>1, <1>6, <2>2 DEF Pool
  <2>5. QED
    BY <2>2, <2>3, <2>4
<1>7. Covered'
  <2>1. \A j \in Replica \ severed : j # i => Locked(j)' = {}
    BY <1>3, <1>6
  <2>2. c \in Pool(i) /\ (i \notin severed => holds'[c] >= Cardinality(Locked(i)'))
    BY <1>1, <1>5 DEF Pool
  <2>3. QED
    BY <2>1, <2>2 DEF Covered, Pool
<1> QED
  BY <1>2, <1>7

\* An unlock frees what one invocation took, or nothing.
LEMMA LockGivenBack ==
  ASSUME Inv, NEW r \in Run, Unlock(r)
  PROVE  OneSession' /\ Covered'
<1> USE DEF Inv, TypeOK
<1>1. PICK i \in Replica : i = run[r].on
  BY DEF RunState
<1>2. /\ \A d \in Conn : holds'[d] \in {holds[d], holds[d] - 1} /\ holds'[d] \in Nat
      /\ \A d \in Conn : PoolOf[d] # i => holds'[d] = holds[d]
  BY <1>1 DEF Unlock, Pool
<1>3. OneSession'
  BY <1>2 DEF OneSession
<1>4. /\ Locked(i)' = Locked(i) \ {r} /\ r \in Locked(i)
      /\ \A j \in Replica \ {i} : Locked(j)' = Locked(j)
  <2>1. run' = [run EXCEPT ![r] = NoRun] /\ NoRun.pc = "idle" /\ run[r].pc = "unlock"
    BY DEF Unlock, GoTo, NoRun
  <2>2. QED
    BY <1>1, <2>1 DEF Locked
<1>5. Cardinality(Locked(i)') = Cardinality(Locked(i)) - 1
  BY <1>1, <1>4, LockedFinite, FS_RemoveElement
<1>6. ASSUME i \notin severed
      PROVE  \E c \in Pool(i) : holds'[c] >= Cardinality(Locked(i)')
  <2>1. PICK c \in Pool(i) : holds[c] >= Cardinality(Locked(i))
    BY <1>1, <1>4, <1>6 DEF Covered
  <2>2. holds'[c] >= Cardinality(Locked(i)')
    BY <1>1, <1>2, <1>5, <2>1, LockedFinite DEF Pool
  <2>3. QED
    BY <2>1, <2>2
<1>7. \A j \in Replica : Locked(j)' # {} /\ j \notin severed' => j \notin severed
  BY DEF Unlock, Mended
<1>8. ASSUME NEW j \in Replica \ severed, j # i, Locked(j) # {}
      PROVE  \E d \in Pool(j) : holds'[d] >= Cardinality(Locked(j)')
  <2>1. PICK d \in Pool(j) : holds[d] >= Cardinality(Locked(j))
    BY <1>8 DEF Covered
  <2>2. holds'[d] = holds[d] /\ Locked(j)' = Locked(j)
    BY <1>2, <1>4, <1>8, <2>1 DEF Pool
  <2>3. QED
    BY <2>1, <2>2
<1>9. Covered'
  <2>1. SUFFICES ASSUME NEW j \in Replica \ severed', Locked(j)' # {}
                 PROVE  \E d \in Pool(j) : holds'[d] >= Cardinality(Locked(j)')
    BY DEF Covered, Pool
  <2>2. CASE j = i
    BY <1>6, <1>7, <2>1, <2>2
  <2>3. CASE j # i
    BY <1>4, <1>7, <1>8, <2>1, <2>3
  <2>4. QED
    BY <2>2, <2>3
<1> QED
  BY <1>3, <1>9

\* With a replica its sessions and its invocations are gone.
LEMMA LockDies ==
  ASSUME Inv, NEW i \in Replica, Crash(i)
  PROVE  OneSession' /\ Covered'
<1> USE DEF Inv, TypeOK
<1>1. /\ \A d \in Conn : holds'[d] \in {0, holds[d]}
      /\ \A d \in Conn : PoolOf[d] # i => holds'[d] = holds[d]
  BY DEF Crash
<1>2. OneSession'
  BY <1>1 DEF OneSession
<1>3. Locked(i)' = {} /\ \A j \in Replica \ {i} : Locked(j)' = Locked(j) \/ Locked(j)' = {}
  BY NoRunType DEF Crash, Locked, NoRun, RunState
<1>4. ASSUME NEW j \in Replica \ severed', Locked(j)' # {}
      PROVE  \E c \in Pool(j) : holds'[c] >= Cardinality(Locked(j)')
  <2>1. j # i /\ Locked(j)' = Locked(j) /\ j \notin severed
    BY <1>3, <1>4 DEF Crash, Mended
  <2>2. PICK c \in Pool(j) : holds[c] >= Cardinality(Locked(j))
    BY <1>4, <2>1 DEF Covered
  <2>3. QED
    BY <1>1, <2>1, <2>2 DEF Pool
<1>5. Covered'
  BY <1>4 DEF Covered, Pool
<1> QED
  BY <1>2, <1>5

LEMMA InvNext == Inv /\ [Next]_vars => Inv'
<1> SUFFICES ASSUME Inv, [Next]_vars PROVE OneSession' /\ Covered'
  BY TypeNext DEF Inv
<1> USE DEF Inv
<1>1. ASSUME UNCHANGED <<run, lock>> PROVE OneSession' /\ Covered'
  BY <1>1, LockKept DEF Locked
<1>2. CASE Request \/ Switch \/ MinuteComes \/ MinutePasses \/ UNCHANGED vars
  BY <1>1, <1>2 DEF Request, Switch, MinuteComes, MinutePasses, vars
<1>3. ASSUME NEW i \in Replica, Poll(i) PROVE OneSession' /\ Covered'
  <2>1. CASE UNCHANGED run
    BY <1>1, <1>3, <2>1 DEF Poll, PollConfig, PollRuns, ClearRequest
  <2>2. ASSUME NEW q \in Nat, Launch(i, q) PROVE OneSession' /\ Covered'
    <3>1. UNCHANGED lock
      BY <1>3 DEF Poll, PollConfig, PollRuns, ClearRequest
    <3>2. QED
      BY <2>2, <3>1, LaunchLocksNothing, LockKept
  <2>3. UNCHANGED run \/ \E q \in Nat : Launch(i, q)
    <3>1. poll[i].requested \in Nat
      BY DEF TypeOK, PollState
    <3>2. QED
      BY <1>3, <3>1 DEF Poll, PollConfig, PollRuns, ClearRequest
  <2>4. QED
    BY <2>1, <2>2, <2>3
<1>4. ASSUME NEW r \in Run, TryLock(r) PROVE OneSession' /\ Covered'
  <2>1. CASE GoTo(r, "idle") /\ UNCHANGED holds
    <3>1. \A i \in Replica : Locked(i)' = Locked(i)
      BY <1>4, <2>1 DEF TryLock, GoTo, Locked, NoRun, TypeOK, RunState
    <3>2. QED
      BY <1>4, <2>1, <3>1, LockKept DEF TryLock, lock
  <2>2. CASE ~(GoTo(r, "idle") /\ UNCHANGED holds)
    <3>1. PICK c \in Pool(run[r].on) :
            /\ \A d \in Conn \ {c} : holds[d] = 0
            /\ GoTo(r, "create") /\ holds' = [holds EXCEPT ![c] = @ + 1]
      BY <1>4, <2>2 DEF TryLock
    <3>2. QED
      BY <1>4, <3>1, LockTaken DEF TryLock
  <2>3. QED
    BY <2>1, <2>2
<1>5. ASSUME NEW r \in Run, CreateRow(r) \/ BodyEnds(r) PROVE OneSession' /\ Covered'
  <2>1. UNCHANGED lock /\ run[r].pc \in {"create", "body"}
        /\ (GoTo(r, "body") \/ GoTo(r, "unlock"))
    BY <1>5 DEF CreateRow, BodyEnds
  <2>2. \A i \in Replica : Locked(i)' = Locked(i)
    BY <2>1 DEF GoTo, Locked, TypeOK, RunState
  <2>3. QED
    BY <2>1, <2>2, LockKept
<1>6. ASSUME NEW c \in Conn, CloseIdle(c) PROVE OneSession' /\ Covered'
  <2>1. /\ \A i \in Replica : Locked(i)' = Locked(i)
        /\ \A i \in Replica \ severed' :
             i \notin severed /\ (PoolOf[c] = i => Locked(i) = {})
        /\ holds' = [holds EXCEPT ![c] = 0]
    BY <1>6 DEF CloseIdle, Locked
  <2>2. OneSession'
    BY <2>1 DEF OneSession, TypeOK
  <2>3. Covered'
    BY <2>1 DEF Covered, Pool, TypeOK
  <2>4. QED
    BY <2>2, <2>3
<1> QED
  BY <1>2, <1>3, <1>4, <1>5, <1>6, LockGivenBack, LockDies DEF Next, Proceed

\* Where one session holds the lock and no invocation goes without, one replica
\* runs the job.
LEMMA InvExcludes == Inv => NoOverlapAcrossReplicas
<1>1. SUFFICES ASSUME Inv, NEW r \in Working, NEW s \in Working,
                      run[r].on \notin severed, run[s].on \notin severed
               PROVE  run[r].on = run[s].on
  BY DEF NoOverlapAcrossReplicas
<1>2. /\ run[r].on \in Replica /\ run[s].on \in Replica
      /\ r \in Locked(run[r].on) /\ s \in Locked(run[s].on)
  BY <1>1 DEF Inv, TypeOK, RunState, Working, Locked
<1>3. ASSUME NEW i \in Replica \ severed, Locked(i) # {} PROVE \E c \in Pool(i) : holds[c] > 0
  <2>1. PICK c \in Pool(i) : holds[c] >= Cardinality(Locked(i))
    BY <1>1, <1>3 DEF Inv, Covered
  <2>2. Cardinality(Locked(i)) \in Nat /\ Cardinality(Locked(i)) # 0
    BY <1>3, LockedFinite, FS_EmptySet
  <2>3. holds[c] \in Nat
    BY <1>1 DEF Inv, TypeOK, Pool
  <2>4. QED
    BY <2>1, <2>2, <2>3
<1>4. PICK c \in Pool(run[r].on) : holds[c] > 0
  BY <1>1, <1>2, <1>3
<1>5. PICK d \in Pool(run[s].on) : holds[d] > 0
  BY <1>1, <1>2, <1>3
<1>6. QED
  BY <1>1, <1>4, <1>5 DEF Inv, OneSession, Pool

\* It holds to begin with, and stays.
LEMMA InvAlways == Spec => []Inv
<1>1. Init => Inv
  <2>1. Init => OneSession /\ Covered
    BY DEF Init, OneSession, Covered, Locked, NoRun
  <2>2. QED
    BY <2>1, TypeInit DEF Inv
<1>2. Inv /\ [Next]_vars => Inv'
  BY InvNext
<1> QED
  BY <1>1, <1>2, PTL DEF Spec

\* Two replicas run the job at the same time only where a pool has closed the
\* session of the lock under an invocation of one of them, whatever fails and
\* dies, in whichever session of the pool a statement runs, and whenever idle
\* sessions are closed (withJobRun).
THEOREM LockExcludesReplicas == Spec => []NoOverlapAcrossReplicas
BY InvAlways, InvExcludes, PTL

-----------------------------------------------------------------------------
(* Requests.                                                               *)

\* Requests are numbered in the order they are made in; the one that stands,
\* and the one a poll has read, has not been answered by this replica, and
\* what a replica has answered can only come up again under a newer number.
Unanswered ==
  /\ requestedAt <= clock
  /\ \A i \in Replica, q \in Nat : <<i, q>> \in answered => q <= clock
  /\ \A i \in Replica : requestedAt # 0 => <<i, requestedAt>> \notin answered
  /\ \A i \in Replica : poll[i].pc # "idle" =>
       poll[i].requested <= clock /\ <<i, poll[i].requested>> \notin answered

\* An invocation that is asked for by a request is the only one of its replica.
OneRunPerRequest ==
  /\ \A r \in Run : run[r].pc # "idle" /\ run[r].asked # 0
                    => <<run[r].on, run[r].asked>> \in answered
  /\ \A r, s \in Run : /\ run[r].pc # "idle" /\ run[s].pc # "idle"
                        /\ run[r].on = run[s].on /\ run[r].asked = run[s].asked
                        /\ run[r].asked # 0
                        => r = s

RequestInv == TypeOK /\ Unanswered /\ OneRunPerRequest

\* An invocation moves on, or ends.
Moves(r) == \E stage \in {"idle", "create", "body", "unlock"} : GoTo(r, stage)

\* What a step may do to requests, polls and invocations, besides answering.
LEMMA StepKinds ==
  ASSUME TypeOK, [Next]_vars
  PROVE  \/ Request
         \/ \E i \in Replica : PollConfig(i) \/ PollRuns(i) \/ ClearRequest(i) \/ Crash(i)
         \/ /\ UNCHANGED <<requestedAt, poll, answered>> /\ clock' \in {clock, clock + 1}
            /\ UNCHANGED run \/ \E r \in Run : run[r].pc # "idle" /\ Moves(r)
<1>1. CASE Switch \/ MinuteComes \/ MinutePasses \/ UNCHANGED vars \/ \E c \in Conn : CloseIdle(c)
  BY <1>1 DEF Switch, MinuteComes, MinutePasses, CloseIdle, vars, config, time
<1>2. ASSUME NEW r \in Run, Proceed(r)
      PROVE  /\ UNCHANGED <<requestedAt, poll, answered>> /\ clock' \in {clock, clock + 1}
             /\ run[r].pc # "idle" /\ Moves(r)
  <2>1. UNCHANGED <<requestedAt, poll, answered>>
    BY <1>2 DEF Proceed, TryLock, CreateRow, BodyEnds, Unlock, config
  <2>2. clock' \in {clock, clock + 1}
    BY <1>2 DEF Proceed, TryLock, CreateRow, BodyEnds, Unlock, time
  <2>3. run[r].pc # "idle" /\ Moves(r)
    BY <1>2 DEF Proceed, TryLock, CreateRow, BodyEnds, Unlock, Moves
  <2>4. QED
    BY <2>1, <2>2, <2>3
<1>3. QED
  BY <1>1, <1>2 DEF Next, Poll

\* The poll under way in replica i ends, or is at another stage, with the
\* request it has read.
LEMMA PollGoesOn ==
  ASSUME TypeOK, NEW i \in Replica, PollRuns(i)
  PROVE  /\ \A j \in Replica :
              poll'[j].pc = "idle" \/ (poll[j].pc # "idle" /\ poll'[j].requested = poll[j].requested)
         /\ UNCHANGED <<requestedAt, clock, answered, run>>
<1>1. poll' = [poll EXCEPT ![i] = Quiet] \/ poll' = [poll EXCEPT ![i].pc = "clear"]
  BY DEF PollRuns
<1>2. poll[i].pc # "idle"
  BY DEF PollRuns
<1>3. ASSUME NEW j \in Replica
      PROVE  poll'[j].pc = "idle" \/ (poll[j].pc # "idle" /\ poll'[j].requested = poll[j].requested)
  <2>1. CASE poll' = [poll EXCEPT ![i] = Quiet]
    BY <1>2, <2>1 DEF TypeOK, Quiet
  <2>2. CASE poll' = [poll EXCEPT ![i].pc = "clear"]
    BY <1>2, <2>2 DEF TypeOK, PollState
  <2>3. QED
    BY <1>1, <2>1, <2>2
<1> QED
  BY <1>3 DEF PollRuns, config, time

LEMMA UnansweredNext == TypeOK /\ Unanswered /\ [Next]_vars => Unanswered'
<1> SUFFICES ASSUME TypeOK, Unanswered, [Next]_vars PROVE Unanswered'
  OBVIOUS
<1> USE DEF Unanswered
<1>0. /\ requestedAt \in Nat /\ clock \in Nat
      /\ \A i \in Replica : poll[i].requested \in Nat
  BY DEF TypeOK, PollState
<1>1. CASE Request
  BY <1>0, <1>1 DEF Request
<1>2. ASSUME NEW i \in Replica, PollConfig(i) PROVE Unanswered'
  <2>1. UNCHANGED <<requestedAt, clock, answered>>
    BY <1>2 DEF PollConfig, config, time
  <2>2. CASE requestedAt = 0
    <3>1. UNCHANGED poll
      BY <1>2, <2>2 DEF PollConfig
    <3>2. QED
      BY <2>1, <3>1
  <2>3. CASE requestedAt # 0
    <3>1. poll' = [poll EXCEPT ![i] = [pc |-> "runs", enabled |-> enabled,
                                       requested |-> requestedAt]]
      BY <1>2, <2>3 DEF PollConfig
    <3>2. /\ poll'[i].requested = requestedAt
          /\ \A j \in Replica \ {i} : poll'[j] = poll[j]
      BY <3>1 DEF TypeOK
    <3>3. QED
      BY <2>1, <2>3, <3>2
  <2>4. QED
    BY <2>2, <2>3
<1>3. ASSUME NEW i \in Replica, PollRuns(i) PROVE Unanswered'
  BY <1>3, PollGoesOn
<1>4. ASSUME NEW i \in Replica, ClearRequest(i) PROVE Unanswered'
  <2>1. /\ clock' = clock /\ poll[i].pc = "clear"
        /\ poll'[i].pc = "idle" /\ \A j \in Replica \ {i} : poll'[j] = poll[j]
    BY <1>4 DEF ClearRequest, time, TypeOK, Quiet
  <2>2. CASE UNCHANGED <<requestedAt, answered>>
    BY <2>1, <2>2
  <2>3. CASE requestedAt' = 0 /\ UNCHANGED answered
    BY <1>0, <2>1, <2>3
  <2>4. CASE requestedAt' = 0 /\ answered' = answered \cup {<<i, poll[i].requested>>}
    BY <1>0, <2>1, <2>4
  <2>5. QED
    BY <1>4, <2>2, <2>3, <2>4 DEF ClearRequest
<1>5. ASSUME NEW i \in Replica, Crash(i) PROVE Unanswered'
  <2>1. UNCHANGED <<requestedAt, clock, answered>>
    BY <1>5 DEF Crash, config, time
  <2>2. poll'[i].pc = "idle" /\ \A j \in Replica \ {i} : poll'[j] = poll[j]
    BY <1>5 DEF Crash, Quiet, TypeOK
  <2>3. QED
    BY <2>1, <2>2
<1>6. CASE UNCHANGED <<requestedAt, poll, answered>> /\ clock' \in {clock, clock + 1}
  BY <1>0, <1>6
<1> QED
  BY <1>1, <1>2, <1>3, <1>4, <1>5, <1>6, StepKinds

\* A launch for a request that this replica has not answered, or for none,
\* brings no second invocation for a request.
LEMMA LaunchIsAlone ==
  ASSUME TypeOK, OneRunPerRequest, NEW i \in Replica, NEW q \in Nat, Launch(i, q),
         q # 0 => <<i, q>> \notin answered /\ answered' = answered \cup {<<i, q>>},
         answered \subseteq answered'
  PROVE  OneRunPerRequest'
<1>1. PICK r \in Run : /\ run[r].pc = "idle"
                       /\ run' = [run EXCEPT ![r] = [pc |-> "lock", on |-> i, asked |-> q]]
  BY DEF Launch
<1>2. /\ run'[r].on = i /\ run'[r].asked = q /\ run'[r].pc = "lock"
      /\ \A s \in Run \ {r} : run'[s] = run[s]
  BY <1>1 DEF TypeOK
<1>3. ASSUME NEW s \in Run, run'[s].pc # "idle", run'[s].asked # 0
      PROVE  <<run'[s].on, run'[s].asked>> \in answered'
  BY <1>2, <1>3 DEF OneRunPerRequest
<1>4. ASSUME NEW s \in Run, s # r, run'[s].pc # "idle", run'[s].on = i, run'[s].asked = q, q # 0
      PROVE  FALSE
  BY <1>2, <1>4 DEF OneRunPerRequest
<1>5. ASSUME NEW s \in Run, NEW t \in Run,
             run'[s].pc # "idle", run'[t].pc # "idle", run'[s].on = run'[t].on,
             run'[s].asked = run'[t].asked, run'[s].asked # 0
      PROVE  s = t
  BY <1>2, <1>4, <1>5 DEF OneRunPerRequest
<1> QED
  BY <1>3, <1>5 DEF OneRunPerRequest

LEMMA OneRunNext == RequestInv /\ [Next]_vars => OneRunPerRequest'
<1> SUFFICES ASSUME TypeOK, Unanswered, OneRunPerRequest, [Next]_vars PROVE OneRunPerRequest'
  BY DEF RequestInv
<1>1. ASSUME UNCHANGED run, answered \subseteq answered' PROVE OneRunPerRequest'
  BY <1>1 DEF OneRunPerRequest
<1>2. ASSUME UNCHANGED answered,
             \A s \in Run : \/ run'[s].pc = "idle"
                           \/ /\ run[s].pc # "idle"
                              /\ run'[s].on = run[s].on /\ run'[s].asked = run[s].asked
      PROVE  OneRunPerRequest'
  BY <1>2 DEF OneRunPerRequest
<1>3. CASE Request
  BY <1>1, <1>3 DEF Request
<1>4. ASSUME NEW i \in Replica, PollConfig(i) PROVE OneRunPerRequest'
  <2>1. UNCHANGED answered /\ (UNCHANGED run \/ Launch(i, 0))
    BY <1>4 DEF PollConfig
  <2>2. QED
    BY <1>1, <2>1, LaunchIsAlone
<1>5. ASSUME NEW i \in Replica, PollRuns(i) PROVE OneRunPerRequest'
  BY <1>1, <1>5, PollGoesOn
<1>6. ASSUME NEW i \in Replica, ClearRequest(i) PROVE OneRunPerRequest'
  <2>1. poll[i].pc # "idle" /\ poll[i].requested \in Nat
    BY <1>6 DEF ClearRequest, TypeOK, PollState
  <2>2. CASE UNCHANGED <<run, answered>>
    BY <1>1, <2>2
  <2>3. CASE Launch(i, poll[i].requested) /\ answered' = answered \cup {<<i, poll[i].requested>>}
    BY <2>1, <2>3, LaunchIsAlone DEF Unanswered
  <2>4. QED
    BY <1>6, <2>2, <2>3 DEF ClearRequest
<1>7. ASSUME NEW i \in Replica, Crash(i) PROVE OneRunPerRequest'
  BY <1>2, <1>7 DEF Crash, NoRun, TypeOK
<1>8. ASSUME NEW r \in Run, run[r].pc # "idle", Moves(r), UNCHANGED answered
      PROVE  OneRunPerRequest'
  BY <1>2, <1>8 DEF Moves, GoTo, NoRun, TypeOK, RunState
<1> QED
  BY <1>1, <1>3, <1>4, <1>5, <1>6, <1>7, <1>8, StepKinds

LEMMA RequestInvAlways == Spec => []RequestInv
<1>1. Init => RequestInv
  <2>1. Init => Unanswered /\ OneRunPerRequest
    BY DEF Init, Unanswered, OneRunPerRequest, Quiet, NoRun
  <2>2. QED
    BY <2>1, TypeInit DEF RequestInv
<1>2. RequestInv /\ [Next]_vars => RequestInv'
  BY TypeNext, UnansweredNext, OneRunNext DEF RequestInv
<1> QED
  BY <1>1, <1>2, PTL DEF Spec

\* No replica has two invocations for one request under way, although polls
\* overlap with requests, clears and each other, and the clear may fail
\* (startScheduler).
THEOREM NoDoubleFire == Spec => []OneRunPerRequest
BY RequestInvAlways, PTL DEF RequestInv

\* A replica launches a request at most once, although the statement that
\* clears it may fail: whatever it launches a run for it had not answered.
THEOREM RequestsLaunchOnce == Spec => RequestLaunchesOnce
<1> DEFINE Once ==
      \A r \in Run :
        LET launched == run'[r]
        IN  run[r].pc = "idle" /\ launched.pc = "lock" /\ launched.asked # 0
              => <<launched.on, launched.asked>> \notin answered
<1>1. ASSUME RequestInv, [Next]_vars PROVE Once
  <2>1. SUFFICES ASSUME NEW r \in Run, run[r].pc = "idle", run'[r].pc = "lock", run'[r].asked # 0
                 PROVE  <<run'[r].on, run'[r].asked>> \notin answered
    OBVIOUS
  <2> USE <1>1 DEF RequestInv
  <2>2. ASSUME NEW i \in Replica, NEW q \in Nat, Launch(i, q)
        PROVE  run'[r].on = i /\ run'[r].asked = q
    BY <2>1, <2>2 DEF Launch, TypeOK
  <2>3. CASE UNCHANGED run
    BY <2>1, <2>3
  <2>4. ASSUME NEW i \in Replica, PollConfig(i) PROVE FALSE
    <3>1. UNCHANGED run \/ Launch(i, 0)
      BY <2>4 DEF PollConfig
    <3>2. QED
      BY <2>1, <2>2, <2>3, <3>1
  <2>5. ASSUME NEW i \in Replica, ClearRequest(i)
        PROVE  <<run'[r].on, run'[r].asked>> \notin answered
    <3>1. poll[i].pc # "idle" /\ poll[i].requested \in Nat
      BY <2>5 DEF ClearRequest, TypeOK, PollState
    <3>2. UNCHANGED run \/ Launch(i, poll[i].requested)
      BY <2>5 DEF ClearRequest
    <3>3. QED
      BY <2>2, <2>3, <3>1, <3>2 DEF Unanswered
  <2>6. ASSUME NEW i \in Replica, Crash(i) PROVE FALSE
    BY <2>1, <2>6 DEF Crash, NoRun, TypeOK
  <2>7. ASSUME NEW s \in Run, run[s].pc # "idle", Moves(s) PROVE FALSE
    BY <2>1, <2>7 DEF Moves, GoTo, NoRun, TypeOK, RunState
  <2>8. QED
    BY <2>1, <2>3, <2>4, <2>5, <2>6, <2>7, StepKinds, PollGoesOn DEF Request
<1>2. QED
  BY <1>1, RequestInvAlways, PTL DEF Spec, RequestLaunchesOnce

-----------------------------------------------------------------------------
(* The abstract lease.                                                     *)

\* The replicas that run the job and may count on being the only one: those
\* whose pool has not closed the session of the lock.
Runners == [k \in {"job"} |-> {run[r].on : r \in Working} \ severed]

Lease == INSTANCE ExclusiveLease WITH Kind <- {"job"}, Proc <- Replica, owner <- Runners

\* No step but TryLock lets an invocation run the job.
LEMMA WorkingGrows ==
  ASSUME TypeOK, [Next]_vars, NEW s \in Working', s \notin Working
  PROVE  s \in Run /\ TryLock(s)
<1> USE DEF Working, TypeOK
<1>1. s \in Run /\ run'[s].pc \in {"create", "body"} /\ run[s].pc \notin {"create", "body"}
  OBVIOUS
<1>2. ~UNCHANGED run
  BY <1>1
<1>3. ~(Request \/ Switch \/ MinuteComes \/ MinutePasses \/ UNCHANGED vars
        \/ \E c \in Conn : CloseIdle(c))
  BY <1>2 DEF Request, Switch, MinuteComes, MinutePasses, CloseIdle, vars
<1>4. ASSUME NEW i \in Replica, Poll(i) \/ Crash(i) PROVE FALSE
  <2>1. ASSUME NEW q, Launch(i, q) PROVE FALSE
    BY <1>1, <2>1 DEF Launch
  <2>2. ~Poll(i)
    BY <1>2, <2>1 DEF Poll, PollConfig, PollRuns, ClearRequest
  <2>3. ~Crash(i)
    BY <1>1 DEF Crash, NoRun
  <2>4. QED
    BY <1>4, <2>2, <2>3
<1>5. ASSUME NEW r \in Run, CreateRow(r) \/ BodyEnds(r) \/ Unlock(r) PROVE FALSE
  BY <1>1, <1>5 DEF CreateRow, BodyEnds, Unlock, GoTo, NoRun, RunState
<1>6. ASSUME NEW r \in Run, TryLock(r) PROVE r = s
  BY <1>1, <1>6 DEF TryLock, GoTo, NoRun, RunState
<1> QED
  BY <1>1, <1>3, <1>4, <1>5, <1>6 DEF Next, Proceed

\* An invocation under way stays with its replica.
LEMMA StaysWithReplica ==
  ASSUME TypeOK, [Next]_vars, NEW r \in Run, run[r].pc # "idle", run'[r].pc # "idle"
  PROVE  run'[r].on = run[r].on
<1> USE DEF TypeOK
<1>1. CASE UNCHANGED run
  BY <1>1
<1>2. ASSUME NEW i \in Replica, NEW q, Launch(i, q) PROVE run'[r].on = run[r].on
  BY <1>2 DEF Launch
<1>3. ASSUME NEW i \in Replica, PollConfig(i) \/ ClearRequest(i) PROVE run'[r].on = run[r].on
  BY <1>1, <1>2, <1>3 DEF PollConfig, ClearRequest
<1>4. ASSUME NEW i \in Replica, Crash(i) PROVE run'[r].on = run[r].on
  BY <1>4 DEF Crash, NoRun
<1>5. ASSUME NEW s \in Run, Moves(s) PROVE run'[r].on = run[r].on
  BY <1>5 DEF Moves, GoTo, NoRun, RunState
<1> QED
  BY <1>1, <1>3, <1>4, <1>5, StepKinds, PollGoesOn DEF Request

\* A replica that runs the job is restored to no right it has lost.
LEMMA RunsCutOff ==
  ASSUME TypeOK, TypeOK', [Next]_vars, NEW r \in Working', run'[r].on \notin severed'
  PROVE  run'[r].on \notin severed
<1>0. PICK i \in Replica : i = run'[r].on
  BY DEF Working, TypeOK, RunState
<1>1. Locked(i)' # {}
  BY <1>0 DEF Working, Locked
<1>2. CASE severed \subseteq severed'
  BY <1>2
<1>3. CASE Mended
  BY <1>0, <1>1, <1>3 DEF Mended
<1>4. severed \subseteq severed' \/ Mended
  BY DEF Next, Poll, Proceed, Request, Switch, MinuteComes, MinutePasses, PollConfig, PollRuns,
         ClearRequest, TryLock, CreateRow, BodyEnds, Unlock, CloseIdle, Crash, vars, lock
<1> QED
  BY <1>2, <1>3, <1>4

\* Which replica runs the job is decided as ExclusiveLease has it: nobody gets
\* to run it before the replica that did is through, be its lock left behind,
\* given back in another session, or lost with the process.  A pool that closes
\* the session of the lock takes that right from its replica, which is not told
\* and goes on (withJobRun).
THEOREM JobLeaseRefinement == Spec => Lease!Spec
<1> DEFINE Runs == {run[r].on : r \in Working} \ severed
<1>1. Init => Lease!Init
  BY DEF Init, Lease!Init, Runners, Working, NoRun
<1>2. ASSUME Inv, [Next]_vars PROVE Lease!Next
  <2> USE <1>2
  <2>1. TypeOK /\ TypeOK' /\ NoOverlapAcrossReplicas'
    <3>1. NoOverlapAcrossReplicas'
      BY InvNext, InvExcludes, PTL
    <3>2. QED
      BY <3>1, InvNext DEF Inv
  <2>2. Runners' \in [{"job"} -> SUBSET Replica]
    BY <2>1 DEF Runners, Working, TypeOK, RunState
  <2>3. CASE Working' \subseteq Working
    <3>1. \A r \in Working' : run'[r].on = run[r].on
      BY <2>1, <2>3, StaysWithReplica DEF Working
    <3>2. \A r \in Working' : run'[r].on \notin severed' => run'[r].on \notin severed
      BY <2>1, RunsCutOff
    <3>3. Runs' \subseteq Runs
      BY <2>3, <3>1, <3>2
    <3>4. QED
      BY <2>2, <3>3 DEF Lease!Next, Lease!Lapse, Runners
  <2>4. ASSUME NEW s \in Working', s \notin Working PROVE Lease!Next
    <3>1. s \in Run /\ TryLock(s)
      BY <2>1, <2>4, WorkingGrows
    <3>2. UNCHANGED severed
      BY <3>1 DEF TryLock
    <3>3. run'[s].on = run[s].on
      BY <2>1, <2>4, <3>1, StaysWithReplica DEF TryLock, Working
    <3>4. ASSUME NEW r \in Working PROVE r \in Working' /\ run'[r] = run[r]
      BY <2>1, <3>1, <2>4 DEF TryLock, GoTo, Working, TypeOK
    <3>5. ASSUME NEW r \in Working', r # s PROVE r \in Working /\ run'[r] = run[r]
      BY <2>1, <3>1, <3>5 DEF TryLock, GoTo, Working, TypeOK
    <3>6. CASE run[s].on \in severed
      <4>1. Runs' = Runs
        BY <2>4, <3>2, <3>3, <3>4, <3>5, <3>6
      <4>2. QED
        BY <2>2, <4>1 DEF Lease!Next, Lease!Lapse, Runners
    <3>7. CASE run[s].on \notin severed
      <4>1. \A r \in Working' : run'[r].on \notin severed => run'[r].on = run[s].on
        BY <2>1, <2>4, <3>2, <3>3, <3>7 DEF NoOverlapAcrossReplicas
      <4>2. Runs' = {run[s].on}
        BY <2>4, <3>2, <3>3, <3>7, <4>1
      <4>3. Runs = {} \/ Runs = {run[s].on}
        BY <3>4, <4>1
      <4>4. run[s].on \in Replica
        BY <2>1, <3>1 DEF TypeOK, RunState
      <4>5. QED
        BY <2>2, <4>2, <4>3, <4>4 DEF Lease!Next, Lease!Lapse, Lease!Grant, Runners
    <3>8. QED
      BY <3>6, <3>7
  <2>5. QED
    BY <2>3, <2>4
<1>3. QED
  BY <1>1, <1>2, InvAlways, PTL DEF Spec, Lease!Spec
=============================================================================
