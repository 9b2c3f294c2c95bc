----------------------- MODULE TranscriptUploadProofs -----------------------
(***************************************************************************)
(* Proofs about TranscriptUpload: its types, that it implements            *)
(* TranscriptStore, that fresh transcripts are kept and erased ones stay   *)
(* erased, that rows do not dangle, and that the lock admits one request   *)
(* at a time and is always released to somebody.                           *)
(*                                                                         *)
(* The queues carry the argument: what is acknowledged is the body of the  *)
(* request at the head of the lock, requests stand in the order in which   *)
(* they were sent, and the client sends no body older than the last. All   *)
(* that the actions do to the queues comes to seven kinds of moves.        *)
(***************************************************************************)
EXTENDS TranscriptUpload, SequenceTheorems, TLAPS

\* Handlers that are past their turn of the lock hold it.
Late == {"assembled", "processed", "put"}

\* A request stands in the queue its stage says, once, and only the first of
\* those at the lock has come further.
Queues ==
  /\ \A k \in 1..Len(inbox) : req[inbox[k]].stage = "reading"
  /\ \A k \in 1..Len(lock) : req[lock[k]].stage \notin {"free", "reading"}
  /\ \A j, k \in 1..Len(inbox) : inbox[j] = inbox[k] => j = k
  /\ \A j, k \in 1..Len(lock) : lock[j] = lock[k] => j = k
  /\ \A i \in Slot : req[i].stage \in Late => lock # <<>> /\ lock[1] = i

\* Requests carry bodies of the client, and make of their chunks either that
\* body or garbage, which goes no further.
Contents ==
  /\ ~client.done => client.body # 0
  /\ promised <= client.body
  /\ \A i \in Slot : req[i].stage # "free" =>
       /\ req[i].body # 0 /\ req[i].body <= client.body
       /\ req[i].stage \in Late => req[i].content \in {0, req[i].body}
       /\ req[i].stage \in {"processed", "put"} => req[i].content # 0
       /\ req[i].stage = "put" => object \in {0, req[i].content}

\* In the order of the queues bodies only grow, and the newest one acknowledged
\* is not newer than those to come.
Order ==
  ~overtaken =>
    /\ \A j, k \in 1..Len(inbox) : j <= k => req[inbox[j]].body <= req[inbox[k]].body
    /\ \A j, k \in 1..Len(lock) : j <= k => req[lock[j]].body <= req[lock[k]].body
    /\ \A j \in 1..Len(lock), k \in 1..Len(inbox) : req[lock[j]].body <= req[inbox[k]].body
    /\ \A k \in 1..Len(inbox) : promised <= req[inbox[k]].body
    /\ \A k \in 1..Len(lock) : promised <= req[lock[k]].body

\* A sweep that no upload overlaps finds the row as it has read it.
Sweeps ==
  /\ sweep.at # "idle" /\ ~sweep.busy => ~Uploading
  /\ sweep.at = "purge" /\ ~sweep.busy => row.expired \/ ~row.uploaded
  /\ sweep.at = "collect" /\ ~sweep.busy => ~row.uploaded
  /\ ~row.exists => ~row.uploaded

\* Whatever takes an object from under a row, or from under an upload about to
\* record it, is a deletion or has overlapped an upload.
Pointers ==
  /\ row.uploaded /\ ~row.expired /\ object = 0 => crossed \/ eraser # "none"
  /\ \A i \in Slot : req[i].stage = "put" /\ object = 0 =>
       crossed \/ eraser # "none" \/ ~row.exists

Inv == TypeOK /\ Queues /\ Contents /\ Order /\ Sweeps /\ Pointers

USE DEF queues, jobs, storage, ghosts

-----------------------------------------------------------------------------
(* The queues.                                                             *)

\* What taking one out of the middle leaves.
LEMMA Removal ==
  ASSUME NEW S, NEW s \in Seq(S), NEW k \in 1..Len(s)
  PROVE  /\ RemoveAt(s, k) \in Seq(S)
         /\ Len(RemoveAt(s, k)) = Len(s) - 1
         /\ \A j \in 1..(Len(s) - 1) : RemoveAt(s, k)[j] = s[IF j < k THEN j ELSE j + 1]
  <1> DEFINE a == SubSeq(s, 1, k - 1)
             b == SubSeq(s, k + 1, Len(s))
  <1>1. /\ a \in Seq(S) /\ Len(a) = k - 1
        /\ \A j \in 1..(k - 1) : a[j] = s[j]
    <2>1. \A j \in 1..(k - 1) : s[j] \in S
      OBVIOUS
    <2> QED BY <2>1, SubSeqProperties
  <1>2. /\ b \in Seq(S) /\ Len(b) = Len(s) - k
        /\ \A j \in 1..(Len(s) - k) : b[j] = s[k + j]
    <2>1. \A j \in (k + 1)..Len(s) : s[j] \in S
      OBVIOUS
    <2> QED BY <2>1, SubSeqProperties
  <1>3. RemoveAt(s, k) = a \o b
    BY DEF RemoveAt
  <1> HIDE DEF a, b
  <1>4. /\ a \o b \in Seq(S) /\ Len(a \o b) = Len(s) - 1
        /\ \A j \in 1..(Len(s) - 1) : (a \o b)[j] = IF j <= k - 1 THEN a[j] ELSE b[j - (k - 1)]
    BY <1>1, <1>2, ConcatProperties
  <1>5. \A j \in 1..(Len(s) - 1) : (a \o b)[j] = s[IF j < k THEN j ELSE j + 1]
    BY <1>1, <1>2, <1>4
  <1> QED BY <1>3, <1>4, <1>5

\* The requests behind the first.
LEMMA Rest ==
  ASSUME NEW S, NEW s \in Seq(S), s # <<>>
  PROVE  /\ Tail(s) \in Seq(S)
         /\ Len(Tail(s)) = Len(s) - 1
         /\ \A j \in 1..(Len(s) - 1) : Tail(s)[j] = s[j + 1]
  BY HeadTailProperties

\* The moves: a request arrives, enters the lock, is answered without it, gets
\* on under it, and leaves it.
Arrives(i) ==
  /\ req[i] = Free /\ ~client.done
  /\ req' = [req EXCEPT ![i] = [Free EXCEPT !.stage = "reading", !.body = client.body,
                                           !.chunk = client.offset]]
  /\ inbox' = Append(inbox, i) /\ UNCHANGED <<lock, promised, object, overtaken>>

Enters(i, k) ==
  /\ inbox[k] = i /\ inbox' = RemoveAt(inbox, k) /\ overtaken' = (overtaken \/ k # 1)
  /\ req' = [req EXCEPT ![i].stage = "locked", ![i].uploaded = row.uploaded]
  /\ lock' = Append(lock, i) /\ UNCHANGED <<promised, object>>

IsDenied(i, k) ==
  /\ inbox[k] = i /\ inbox' = RemoveAt(inbox, k) /\ overtaken' = (overtaken \/ k # 1)
  /\ req' = [req EXCEPT ![i] = Free] /\ UNCHANGED <<lock, promised, object>>

IsFirst(i) == lock # <<>> /\ Head(lock) = i /\ req[i].stage \notin {"free", "reading"}

GetsOn(i) ==
  /\ IsFirst(i)
  /\ \E t \in Request :
       /\ t.stage \in Late /\ t.body = req[i].body /\ t.content \in {0, t.body}
       /\ t.stage \in {"processed", "put"} => t.content # 0
       /\ object' = IF t.stage = "put" THEN t.content ELSE object
       /\ req' = [req EXCEPT ![i] = t]
  /\ UNCHANGED <<inbox, lock, promised, overtaken>>

Leaves(i) ==
  /\ IsFirst(i)
  /\ req' = [req EXCEPT ![i] = Free] /\ lock' = Tail(lock)
  /\ promised' \in {promised, req[i].body} /\ UNCHANGED <<inbox, object, overtaken>>

Resets ==
  /\ req' = [i \in Slot |-> Free] /\ inbox' = <<>> /\ lock' = <<>>
  /\ UNCHANGED <<promised, object, overtaken>>

\* Nothing moves; an object may be removed, and promises with it.
Rests ==
  /\ UNCHANGED <<queues, overtaken>>
  /\ \/ UNCHANGED <<object, promised>>
     \/ object' = 0 /\ promised' = 0

Move ==
  \/ Resets \/ Rests
  \/ \E i \in Slot : \/ Arrives(i) \/ GetsOn(i) \/ Leaves(i)
                     \/ \E k \in 1..Len(inbox) : Enters(i, k) \/ IsDenied(i, k)

-----------------------------------------------------------------------------
(* Types.                                                                  *)

\* Types hold at first, and through every step.
LEMMA TypeInit == Init => TypeOK
  <1> SUFFICES ASSUME Init PROVE TypeOK
    OBVIOUS
  <1>1. Free \in Request
    BY BodyOk DEF Free, Request, Stage
  <1>2. <<>> \in Seq(Slot) /\ <<>> \in Seq(Body) /\ Len(<<>>) = 0
    OBVIOUS
  <1>3. sweep \in [at : SweepStage, known : BOOLEAN, busy : BOOLEAN]
    BY DEF Init, Idle, SweepStage
  <1>4. /\ client \in [body : 0..MaxBody, offset : 0..1, done : BOOLEAN, waits : Slot \cup {0}]
        /\ row \in [exists : BOOLEAN, uploaded : BOOLEAN, expired : BOOLEAN]
    BY BodyOk DEF Init
  <1>5. req \in [Slot -> Request]
    BY <1>1 DEF Init
  <1>6. /\ inbox \in Seq(Slot) /\ lock \in Seq(Slot)
        /\ scratch \in Seq(Body) /\ Len(scratch) <= 2
    BY <1>2 DEF Init
  <1>7. /\ setting \in Scenario /\ object \in 0..MaxBody /\ promised \in 0..MaxBody
        /\ eraser \in {"none", "requested", "remove", "delete"}
        /\ overtaken \in BOOLEAN /\ crossed \in BOOLEAN
    <2>1. 0 \in 0..MaxBody
      BY BodyOk
    <2>2. object \in 0..MaxBody /\ promised \in 0..MaxBody
      BY <2>1 DEF Init
    <2>3. overtaken \in BOOLEAN /\ crossed \in BOOLEAN
      BY DEF Init
    <2> QED BY <2>2, <2>3 DEF Init
  <1> QED BY <1>3, <1>4, <1>5, <1>6, <1>7 DEF TypeOK

\* A request record.
LEMMA RequestFields ==
  ASSUME NEW r \in Request
  PROVE  /\ r.stage \in Stage /\ r.body \in 0..MaxBody /\ r.chunk \in 0..1
         /\ r.uploaded \in BOOLEAN /\ r.content \in 0..MaxBody
  BY DEF Request

\* What the client hears keeps its types.
LEMMA HearsTypes ==
  ASSUME TypeOK, NEW i \in Slot, NEW status, Hears(i, status)
  PROVE  client' \in [body : 0..MaxBody, offset : 0..1, done : BOOLEAN, waits : Slot \cup {0}]
  <1>1. CASE client.waits # i
    BY <1>1 DEF Hears, TypeOK
  <1>2. CASE client.waits = i
    <2> DEFINE off == CASE status = 202 -> 1 [] status = 409 -> 0 [] OTHER -> client.offset
               done == client.done \/ status = 201
    <2>1. client' = [client EXCEPT !.waits = 0, !.offset = off, !.done = done]
      BY <1>2 DEF Hears
    <2>2. off \in 0..1
      <3>1. client.offset \in 0..1
        BY DEF TypeOK
      <3> QED BY <3>1
    <2>3. done \in BOOLEAN
      OBVIOUS
    <2> HIDE DEF off, done
    <2> QED BY <2>1, <2>2, <2>3 DEF TypeOK
  <1> QED BY <1>1, <1>2

\* An answer keeps the types of what it touches.
LEMMA AnswerTypes ==
  ASSUME TypeOK, NEW i \in Slot, NEW status, Answer(i, status), lock # <<>>
  PROVE  /\ client' \in [body : 0..MaxBody, offset : 0..1, done : BOOLEAN, waits : Slot \cup {0}]
         /\ req' \in [Slot -> Request]
         /\ lock' \in Seq(Slot) /\ inbox' \in Seq(Slot)
  <1>1. Hears(i, status)
    BY DEF Answer, Reply
  <1>2. Free \in Request
    BY BodyOk DEF Free, Request, Stage
  <1>3. Tail(lock) \in Seq(Slot)
    BY Rest DEF TypeOK
  <1> QED BY <1>1, <1>2, <1>3, HearsTypes DEF Answer, Reply, TypeOK

\* Types hold through every step.
LEMMA TypeStep == TypeOK /\ Queues /\ Contents /\ [Next]_vars => TypeOK'
  <1> SUFFICES ASSUME TypeOK, Queues, Contents, [Next]_vars PROVE TypeOK'
    OBVIOUS
  <1> USE BodyOk
  <1> DEFINE Client == [body : 0..MaxBody, offset : 0..1, done : BOOLEAN, waits : Slot \cup {0}]
             Row == [exists : BOOLEAN, uploaded : BOOLEAN, expired : BOOLEAN]
             Sweep == [at : SweepStage, known : BOOLEAN, busy : BOOLEAN]
  <1>f. Free \in Request
    BY DEF Free, Request, Stage
  <1>s. \A x \in SweepStage : [sweep EXCEPT !.at = x] \in Sweep
    BY DEF TypeOK
  <1>i. Idle \in Sweep
    BY DEF Idle, SweepStage
  <1>1. CASE NextBody
    <2>1. client' \in Client
      BY <1>1 DEF NextBody, TypeOK
    <2> QED BY <1>1, <2>1 DEF NextBody, TypeOK
  <1>2. CASE GiveUp
    <2>1. client' \in Client
      BY <1>2 DEF GiveUp, TypeOK
    <2> QED BY <1>2, <2>1 DEF GiveUp, TypeOK
  <1>3. ASSUME NEW i \in Slot, Send(i) PROVE TypeOK'
    <2>1. client' \in Client
      BY <1>3 DEF Send, TypeOK
    <2>2. client.body \in 0..MaxBody /\ client.offset \in 0..1
      BY DEF TypeOK
    <2>3. [Free EXCEPT !.stage = "reading", !.body = client.body, !.chunk = client.offset] \in Request
      BY <1>f, <2>2 DEF Request, Stage
    <2>4. req' \in [Slot -> Request]
      BY <1>3, <2>3 DEF Send, TypeOK
    <2>5. inbox' \in Seq(Slot)
      BY <1>3 DEF Send, TypeOK
    <2> QED BY <1>3, <2>1, <2>4, <2>5 DEF Send, TypeOK
  <1>4. ASSUME NEW i \in Slot, ReadRow(i) PROVE TypeOK'
    <2>1. inbox' \in Seq(Slot) /\ overtaken' \in BOOLEAN
      <3>1. PICK k \in DOMAIN inbox : inbox' = RemoveAt(inbox, k) /\ overtaken' = (overtaken \/ k # 1)
        BY <1>4 DEF ReadRow
      <3>2. inbox \in Seq(Slot) /\ k \in 1..Len(inbox)
        BY <3>1 DEF TypeOK
      <3> QED BY <3>1, <3>2, Removal
    <2>2. sweep' \in Sweep
      BY <1>4 DEF ReadRow, TypeOK
    <2>3. lock' \in Seq(Slot)
      <3>1. lock' = Append(lock, i) \/ lock' = lock
        BY <1>4 DEF ReadRow
      <3>2. lock \in Seq(Slot) /\ Append(lock, i) \in Seq(Slot)
        BY AppendProperties DEF TypeOK
      <3> QED BY <3>1, <3>2
    <2>4. client' \in Client
      BY <1>4, HearsTypes DEF ReadRow, Reply, TypeOK
    <2>5. req' \in [Slot -> Request]
      <3>1. req[i] \in Request /\ row.uploaded \in BOOLEAN
        BY DEF TypeOK
      <3>2. [req[i] EXCEPT !.stage = "locked", !.uploaded = row.uploaded] \in Request
        BY <3>1 DEF Request, Stage
      <3>3. \/ req' = [req EXCEPT ![i] = [req[i] EXCEPT !.stage = "locked", !.uploaded = row.uploaded]]
            \/ req' = [req EXCEPT ![i] = Free]
        BY <1>4 DEF ReadRow, Reply, TypeOK
      <3> QED BY <3>2, <3>3, <1>f DEF TypeOK
    <2> QED BY <1>4, <2>1, <2>2, <2>3, <2>4, <2>5 DEF ReadRow, TypeOK
  <1>5. ASSUME NEW i \in Slot, WriteChunk(i) PROVE TypeOK'
    <2>1. lock # <<>> /\ req[i] \in Request /\ req[i].stage = "locked"
      BY <1>5 DEF WriteChunk, Holds, TypeOK
    <2>2. req[i].body \in Body
      BY <2>1, RequestFields DEF Contents, Body
    <2> DEFINE parts == IF req[i].chunk = 0 THEN <<req[i].body>> ELSE Append(scratch, req[i].body)
    <2>3. parts \in Seq(Body) /\ parts # <<>>
      <3>1. <<req[i].body>> \in Seq(Body) /\ <<req[i].body>> # <<>>
        BY <2>2
      <3>2. Append(scratch, req[i].body) \in Seq(Body) /\ Append(scratch, req[i].body) # <<>>
        <4>1. scratch \in Seq(Body)
          BY DEF TypeOK
        <4> QED BY <2>2, <4>1, AppendProperties
      <3> QED BY <3>1, <3>2
    <2>4. CASE req[i].chunk # 0 /\ Len(scratch) # req[i].chunk
      <3>1. Answer(i, 409) /\ UNCHANGED scratch
        BY <1>5, <2>4 DEF WriteChunk
      <3> QED BY <1>5, <2>1, <3>1, AnswerTypes DEF WriteChunk, TypeOK
    <2>5. CASE ~(req[i].chunk # 0 /\ Len(scratch) # req[i].chunk) /\ LastChunk(i)
      <3>1. /\ req' = [req EXCEPT ![i].stage = "assembled", ![i].content = Assembled(parts)]
            /\ scratch' = <<>> /\ UNCHANGED <<client, inbox, lock>>
        BY <1>5, <2>5 DEF WriteChunk
      <3>2. Assembled(parts) \in 0..MaxBody
        <4>1. Len(parts) \in 1..Len(parts)
          BY <2>3
        <4>2. parts[Len(parts)] \in Body
          BY <2>3, <4>1
        <4> HIDE DEF parts
        <4> QED BY <4>2 DEF Assembled, Last, Body
      <3> DEFINE c == Assembled(parts)
      <3> HIDE DEF parts, c
      <3>3. [req[i] EXCEPT !.stage = "assembled", !.content = c] \in Request
        BY <2>1, <3>2 DEF Request, Stage, c
      <3>4. req' = [req EXCEPT ![i] = [req[i] EXCEPT !.stage = "assembled", !.content = c]]
        BY <3>1 DEF TypeOK, c
      <3>5. req' \in [Slot -> Request]
        BY <3>3, <3>4 DEF TypeOK
      <3>6. scratch' \in Seq(Body) /\ Len(scratch') <= 2
        BY <3>1
      <3> QED BY <1>5, <3>1, <3>5, <3>6 DEF WriteChunk, TypeOK
    <2>6. CASE ~(req[i].chunk # 0 /\ Len(scratch) # req[i].chunk) /\ ~LastChunk(i)
      <3>1. scratch' = parts /\ Answer(i, 202)
        BY <1>5, <2>6 DEF WriteChunk
      <3>2. Len(parts) <= 2
        <4>1. CASE req[i].chunk = 0
          BY <4>1
        <4>2. CASE req[i].chunk # 0
          <5>1. Len(scratch) = req[i].chunk
            BY <4>2, <2>6
          <5>2. req[i].chunk \in 0..1
            BY <2>1, RequestFields
          <5>3. Len(Append(scratch, req[i].body)) = Len(scratch) + 1
            BY <2>2, AppendProperties DEF TypeOK
          <5> QED BY <4>2, <5>1, <5>2, <5>3
        <4> QED BY <4>1, <4>2
      <3> QED BY <1>5, <2>1, <2>3, <3>1, <3>2, AnswerTypes DEF WriteChunk, TypeOK
    <2> QED BY <2>4, <2>5, <2>6
  <1>6. ASSUME NEW i \in Slot, Skip(i) PROVE TypeOK'
    <2>1. lock # <<>> /\ Answer(i, 201) /\ req[i] \in Request
      BY <1>6 DEF Skip, Holds, Acknowledge, TypeOK
    <2>2. promised' \in 0..MaxBody
      BY <1>6, <2>1, RequestFields DEF Skip, Acknowledge, TypeOK
    <2> QED BY <1>6, <2>1, <2>2, AnswerTypes DEF Skip, TypeOK
  <1>7. ASSUME NEW i \in Slot, Process(i) PROVE TypeOK'
    <2>1. lock # <<>> /\ req[i] \in Request
      BY <1>7 DEF Process, Holds, TypeOK
    <2>2. CASE req[i].content = 0
      <3>1. Answer(i, 500)
        BY <1>7, <2>2 DEF Process
      <3> QED BY <1>7, <2>1, <3>1, AnswerTypes DEF Process, TypeOK
    <2>3. CASE req[i].content # 0
      <3>1. [req[i] EXCEPT !.stage = "processed"] \in Request
        BY <2>1 DEF Request, Stage
      <3>2. req' = [req EXCEPT ![i] = [req[i] EXCEPT !.stage = "processed"]]
        BY <1>7, <2>3 DEF Process, TypeOK
      <3>3. req' \in [Slot -> Request]
        BY <3>1, <3>2 DEF TypeOK
      <3> QED BY <1>7, <2>3, <3>3 DEF Process, TypeOK
    <2> QED BY <2>2, <2>3
  <1>8. ASSUME NEW i \in Slot, Put(i) PROVE TypeOK'
    <2>1. req[i] \in Request
      BY DEF TypeOK
    <2>2. [req[i] EXCEPT !.stage = "put"] \in Request
      BY <2>1 DEF Request, Stage
    <2>3. req' = [req EXCEPT ![i] = [req[i] EXCEPT !.stage = "put"]]
      BY <1>8 DEF Put, TypeOK
    <2>4. req' \in [Slot -> Request] /\ object' \in 0..MaxBody
      BY <1>8, <2>1, <2>2, <2>3, RequestFields DEF Put, TypeOK
    <2> QED BY <1>8, <2>4 DEF Put, TypeOK
  <1>9. ASSUME NEW i \in Slot, PutFails(i) \/ RecordFails(i) PROVE TypeOK'
    <2>1. /\ lock # <<>> /\ (Answer(i, 503) \/ Answer(i, 500))
          /\ UNCHANGED <<setting, scratch, storage, jobs, ghosts>>
      BY <1>9 DEF PutFails, RecordFails, Holds
    <2> QED BY <2>1, AnswerTypes DEF TypeOK
  <1>10. ASSUME NEW i \in Slot, Record(i) PROVE TypeOK'
    <2>1. lock # <<>> /\ Answer(i, 201) /\ req[i] \in Request
      BY <1>10 DEF Record, Holds, Acknowledge, TypeOK
    <2>2. promised' \in 0..MaxBody
      BY <1>10, <2>1, RequestFields DEF Record, Acknowledge, TypeOK
    <2>3. row' \in Row
      BY <1>10 DEF Record, TypeOK
    <2> QED BY <1>10, <2>1, <2>2, <2>3, AnswerTypes DEF Record, TypeOK
  <1>11. CASE Restart
    <2>1. client' \in Client
      BY <1>11 DEF Restart, TypeOK
    <2>2. req' \in [Slot -> Request] /\ inbox' \in Seq(Slot) /\ lock' \in Seq(Slot)
      BY <1>11, <1>f DEF Restart
    <2>3. scratch' \in Seq(Body) /\ Len(scratch') <= 2
      <3>1. CASE scratch' = scratch
        BY <3>1 DEF TypeOK
      <3>2. CASE scratch' = <<>>
        BY <3>2
      <3> QED BY <3>1, <3>2, <1>11 DEF Restart
    <2>4. sweep' \in Sweep /\ eraser' \in {"none", "requested", "remove", "delete"}
      BY <1>11, <1>i DEF Restart, TypeOK
    <2> QED BY <1>11, <2>1, <2>2, <2>3, <2>4 DEF Restart, TypeOK
  <1>12. CASE SweepScratch
    <2>1. scratch' \in Seq(Body) /\ Len(scratch') <= 2
      BY <1>12 DEF SweepScratch
    <2> QED BY <1>12, <2>1 DEF SweepScratch, TypeOK
  <1>13. CASE GrowOld
    <2>1. row' \in Row
      BY <1>13 DEF GrowOld, TypeOK
    <2> QED BY <1>13, <2>1 DEF GrowOld, TypeOK
  <1>14. CASE SweepStep
    <2>1. /\ sweep' \in Sweep /\ row' \in Row
          /\ object' \in 0..MaxBody /\ promised' \in 0..MaxBody /\ crossed' \in BOOLEAN
          /\ UNCHANGED <<setting, client, queues, scratch, eraser, overtaken>>
      <3>1. CASE SweepStarts
        <4>1. sweep' \in Sweep
          BY <3>1 DEF SweepStarts, SweepStage, TypeOK, Uploading
        <4> QED BY <3>1, <4>1 DEF SweepStarts, TypeOK
      <3>2. CASE SweepPurges \/ SweepCollects
        BY <3>2, <1>s, <1>i
           DEF SweepPurges, SweepCollects, RemoveObject, SweepTo, SweepEnds, SweepStage, TypeOK
      <3>3. CASE SweepClears
        <4>1. row' \in Row /\ sweep' \in Sweep
          BY <3>3, <1>s DEF SweepClears, SweepTo, SweepStage, TypeOK
        <4> QED BY <3>3, <4>1 DEF SweepClears, TypeOK
      <3>4. CASE SweepLists \/ SweepChecks \/ SweepPurgeFails \/ SweepCollectFails
        <4>1. sweep' \in Sweep
          BY <3>4, <1>s, <1>i DEF SweepLists, SweepChecks, SweepPurgeFails, SweepCollectFails,
                                  SweepTo, SweepEnds, SweepStage
        <4> QED BY <3>4, <4>1
                DEF SweepLists, SweepChecks, SweepPurgeFails, SweepCollectFails, TypeOK
      <3> QED BY <1>14, <3>1, <3>2, <3>3, <3>4 DEF SweepStep
    <2> QED BY <2>1 DEF TypeOK
  <1>15. CASE RequestErasure \/ EraserStep
    <2>1. /\ row' \in Row /\ object' \in 0..MaxBody /\ promised' \in 0..MaxBody
          /\ crossed' \in BOOLEAN /\ eraser' \in {"none", "requested", "remove", "delete"}
          /\ UNCHANGED <<setting, client, queues, scratch, sweep, overtaken>>
      <3>1. CASE EraserDeletes
        BY <3>1 DEF EraserDeletes, TypeOK
      <3>2. CASE RequestErasure \/ EraserStarts \/ EraserFails
        BY <3>2 DEF RequestErasure, EraserStarts, EraserFails, TypeOK
      <3>3. CASE EraserRemoves
        BY <3>3 DEF EraserRemoves, RemoveObject, TypeOK
      <3> QED BY <1>15, <3>1, <3>2, <3>3 DEF EraserStep
    <2> QED BY <2>1 DEF TypeOK
  <1>16. CASE UNCHANGED vars
    BY <1>16 DEF vars, TypeOK
  <1> QED BY <1>1, <1>2, <1>3, <1>4, <1>5, <1>6, <1>7, <1>8, <1>9, <1>10, <1>11, <1>12, <1>13,
             <1>14, <1>15, <1>16 DEF Next, Handle
-----------------------------------------------------------------------------
(* The moves.                                                              *)

\* The bodies of the client grow, and it owes none before the first.
LEMMA ClientGrows ==
  TypeOK /\ (~client.done => client.body # 0) /\ [Next]_vars =>
    client'.body >= client.body /\ (~client'.done => client'.body # 0)
  <1> SUFFICES ASSUME TypeOK, ~client.done => client.body # 0, [Next]_vars
               PROVE  client'.body >= client.body /\ (~client'.done => client'.body # 0)
    OBVIOUS
  <1>t. client.body \in Nat /\ client.done \in BOOLEAN
    BY BodyOk DEF TypeOK
  <1>1. \/ UNCHANGED client
        \/ client' = [body |-> client.body + 1, offset |-> 0, done |-> FALSE, waits |-> 0]
        \/ \E i \in Slot : client' = [client EXCEPT !.waits = i]
        \/ client' = [client EXCEPT !.waits = 0]
        \/ \E i \in Slot, status \in {404, 409, 202, 201, 500, 503} : Hears(i, status)
    <2>1. CASE NextBody \/ GiveUp \/ (\E i \in Slot : Send(i)) \/ Restart
      BY <2>1 DEF NextBody, GiveUp, Send, Restart
    <2>2. ASSUME NEW i \in Slot, Handle(i)
          PROVE  UNCHANGED client \/ \E status \in {404, 409, 202, 201, 500, 503} : Hears(i, status)
      BY <2>2 DEF Handle, ReadRow, WriteChunk, Skip, Process, Put, PutFails, Record, RecordFails,
                  Acknowledge, Answer, Reply
    <2>3. CASE SweepScratch \/ GrowOld \/ SweepStep \/ RequestErasure \/ EraserStep
      BY <2>3 DEF SweepScratch, GrowOld, SweepStep, SweepStarts, SweepPurges, SweepClears, SweepLists,
                  SweepChecks, SweepCollects, SweepPurgeFails, SweepCollectFails, RequestErasure,
                  EraserStep, EraserStarts, EraserRemoves, EraserDeletes, EraserFails
    <2>4. CASE UNCHANGED vars
      BY <2>4 DEF vars
    <2> QED BY <2>1, <2>2, <2>3, <2>4 DEF Next
  <1>2. ASSUME NEW i \in Slot, NEW status \in {404, 409, 202, 201, 500, 503}, Hears(i, status)
        PROVE  client'.body = client.body /\ (~client'.done => ~client.done)
    <2>1. CASE client.waits # i
      BY <1>2, <2>1 DEF Hears
    <2>2. CASE client.waits = i
      <3> DEFINE off == CASE status = 202 -> 1 [] status = 409 -> 0 [] OTHER -> client.offset
      <3>1. client' = [client EXCEPT !.waits = 0, !.offset = off, !.done = client.done \/ status = 201]
        BY <1>2, <2>2 DEF Hears
      <3> HIDE DEF off
      <3> QED BY <3>1 DEF TypeOK
    <2> QED BY <2>1, <2>2
  <1>3. CASE client' = [body |-> client.body + 1, offset |-> 0, done |-> FALSE, waits |-> 0]
    BY <1>3, <1>t
  <1>4. CASE \E i \in Slot \cup {0} : client' = [client EXCEPT !.waits = i]
    BY <1>4, <1>t DEF TypeOK
  <1> QED BY <1>1, <1>2, <1>3, <1>4, <1>t

\* Whatever happens is a move.
LEMMA Moves == TypeOK /\ Contents /\ [Next]_vars => Move
  <1> SUFFICES ASSUME TypeOK, Contents, [Next]_vars PROVE Move
    OBVIOUS
  <1>1. CASE NextBody \/ GiveUp \/ SweepScratch \/ GrowOld \/ UNCHANGED vars
    BY <1>1 DEF NextBody, GiveUp, SweepScratch, GrowOld, vars, Move, Rests
  <1>2. CASE SweepStep
    BY <1>2 DEF SweepStep, SweepStarts, SweepPurges, SweepClears, SweepLists, SweepChecks,
                SweepCollects, SweepPurgeFails, SweepCollectFails, RemoveObject, Move, Rests
  <1>3. CASE RequestErasure \/ EraserStep
    BY <1>3 DEF RequestErasure, EraserStep, EraserStarts, EraserRemoves, EraserDeletes,
                EraserFails, RemoveObject, Move, Rests
  <1>4. CASE Restart
    BY <1>4 DEF Restart, Move, Resets
  <1>5. ASSUME NEW i \in Slot, Send(i) PROVE Move
    BY <1>5 DEF Send, Move, Arrives
  <1>6. ASSUME NEW i \in Slot, ReadRow(i) PROVE Move
    <2>1. DOMAIN inbox = 1..Len(inbox)
      BY DEF TypeOK
    <2>2. CASE row.exists
      <3>1. \E k \in 1..Len(inbox) : Enters(i, k)
        BY <1>6, <2>1, <2>2 DEF ReadRow, Enters
      <3> QED BY <3>1 DEF Move
    <2>3. CASE ~row.exists
      <3>1. \E k \in 1..Len(inbox) : IsDenied(i, k)
        BY <1>6, <2>1, <2>3 DEF ReadRow, Reply, IsDenied
      <3> QED BY <3>1 DEF Move
    <2> QED BY <2>2, <2>3
  <1>7. ASSUME NEW i \in Slot, WriteChunk(i) PROVE Move
    <2>0. /\ IsFirst(i) /\ req[i] \in Request /\ req[i].body \in Body
          /\ UNCHANGED <<promised, overtaken, object>>
      <3>1. req[i].stage = "locked" /\ req[i] \in Request
        BY <1>7 DEF WriteChunk, Holds, TypeOK
      <3>2. req[i].body \in Body
        BY <3>1, RequestFields, BodyOk DEF Contents, Body
      <3> QED BY <1>7, <3>1, <3>2 DEF WriteChunk, Holds, IsFirst
    <2> DEFINE parts == IF req[i].chunk = 0 THEN <<req[i].body>> ELSE Append(scratch, req[i].body)
               c == Assembled(parts)
               t == [req[i] EXCEPT !.stage = "assembled", !.content = c]
    <2>1. CASE Answer(i, 409) \/ Answer(i, 202)
      BY <2>0, <2>1 DEF Answer, Reply, Leaves, Move
    <2>2. CASE /\ req' = [req EXCEPT ![i].stage = "assembled", ![i].content = Assembled(parts)]
               /\ UNCHANGED <<client, inbox, lock>>
      <3>1. c \in {0, req[i].body}
        <4>1. parts[Len(parts)] = req[i].body
          <5>1. CASE req[i].chunk = 0
            BY <5>1
          <5>2. CASE req[i].chunk # 0
            <6>1. scratch \in Seq(Body)
              BY DEF TypeOK
            <6> QED BY <5>2, <6>1, <2>0, AppendProperties
          <5> QED BY <5>1, <5>2
        <4> HIDE DEF parts
        <4> QED BY <4>1 DEF Assembled, Last
      <3>2. req' = [req EXCEPT ![i] = t]
        BY <2>2 DEF TypeOK
      <3> HIDE DEF parts, c
      <3>3. /\ t \in Request /\ t.stage = "assembled" /\ t.body = req[i].body /\ t.content = c
        <4>1. c \in 0..MaxBody
          BY <2>0, <3>1, BodyOk, RequestFields
        <4> QED BY <2>0, <4>1 DEF Request, Stage
      <3> HIDE DEF t
      <3>4. GetsOn(i)
        BY <2>0, <2>2, <3>1, <3>2, <3>3 DEF GetsOn, Late
      <3> QED BY <3>4 DEF Move
    <2> QED BY <1>7, <2>1, <2>2 DEF WriteChunk
  <1>8. ASSUME NEW i \in Slot, Skip(i) \/ Record(i) PROVE Move
    <2>1. /\ IsFirst(i) /\ Acknowledge(i) /\ UNCHANGED <<object, overtaken>>
          /\ req[i].content = req[i].body
      BY <1>8 DEF Skip, Record, Holds, IsFirst, Contents, Late
    <2> QED BY <2>1 DEF Acknowledge, Answer, Reply, Leaves, Move
  <1>9. ASSUME NEW i \in Slot, PutFails(i) \/ RecordFails(i) PROVE Move
    <2>1. IsFirst(i) /\ UNCHANGED <<promised, object, overtaken>> /\ (Answer(i, 503) \/ Answer(i, 500))
      BY <1>9 DEF PutFails, RecordFails, Holds, IsFirst
    <2> QED BY <2>1 DEF Answer, Reply, Leaves, Move
  <1>10. ASSUME NEW i \in Slot, Process(i) PROVE Move
    <2>1. /\ IsFirst(i) /\ req[i] \in Request /\ UNCHANGED <<promised, object, overtaken>>
          /\ req[i].content \in {0, req[i].body}
      BY <1>10 DEF Process, Holds, IsFirst, Contents, Late, TypeOK
    <2>2. CASE req[i].content = 0
      BY <1>10, <2>1, <2>2 DEF Process, Answer, Reply, Leaves, Move
    <2>3. CASE req[i].content # 0
      <3> DEFINE t == [req[i] EXCEPT !.stage = "processed"]
      <3>1. req' = [req EXCEPT ![i] = t] /\ UNCHANGED <<inbox, lock>>
        BY <1>10, <2>3 DEF Process, TypeOK
      <3>2. /\ t \in Request /\ t.stage = "processed"
            /\ t.body = req[i].body /\ t.content = req[i].content
        BY <2>1 DEF Request, Stage
      <3> HIDE DEF t
      <3>3. GetsOn(i)
        BY <2>1, <2>3, <3>1, <3>2 DEF GetsOn, Late
      <3> QED BY <3>3 DEF Move
    <2> QED BY <2>2, <2>3
  <1>11. ASSUME NEW i \in Slot, Put(i) PROVE Move
    <2>1. /\ IsFirst(i) /\ req[i] \in Request /\ UNCHANGED <<inbox, lock, promised, overtaken>>
          /\ req[i].content = req[i].body /\ req[i].content # 0 /\ object' = req[i].content
      BY <1>11 DEF Put, Holds, IsFirst, Contents, Late, TypeOK
    <2> DEFINE t == [req[i] EXCEPT !.stage = "put"]
    <2>2. req' = [req EXCEPT ![i] = t]
      BY <1>11 DEF Put, TypeOK
    <2>3. t \in Request /\ t.stage = "put" /\ t.body = req[i].body /\ t.content = req[i].content
      BY <2>1 DEF Request, Stage
    <2> HIDE DEF t
    <2>4. GetsOn(i)
      BY <2>1, <2>2, <2>3 DEF GetsOn, Late
    <2> QED BY <2>4 DEF Move
  <1> QED BY <1>1, <1>2, <1>3, <1>4, <1>5, <1>6, <1>7, <1>8, <1>9, <1>10, <1>11 DEF Next, Handle
-----------------------------------------------------------------------------
(* What moves keep.                                                        *)

\* Every request stands where its stage says.
LEMMA QueuesStep == TypeOK /\ Queues /\ Move => Queues'
  <1> SUFFICES ASSUME TypeOK, Queues, Move PROVE Queues'
    OBVIOUS
  <1>t. inbox \in Seq(Slot) /\ lock \in Seq(Slot) /\ req \in [Slot -> Request]
    BY DEF TypeOK
  <1>1. CASE Resets
    BY <1>1 DEF Resets, Queues, Free, Late
  <1>2. CASE Rests
    BY <1>2 DEF Rests, Queues
  <1>3. ASSUME NEW i \in Slot, Arrives(i) PROVE Queues'
    <2> DEFINE t == [Free EXCEPT !.stage = "reading", !.body = client.body, !.chunk = client.offset]
    <2>1. req' = [req EXCEPT ![i] = t] /\ t.stage = "reading" /\ req[i].stage = "free"
      BY <1>3 DEF Arrives, Free
    <2> HIDE DEF t
    <2>2. /\ Len(inbox') = Len(inbox) + 1 /\ inbox'[Len(inbox) + 1] = i
          /\ \A k \in 1..Len(inbox) : inbox'[k] = inbox[k] /\ inbox[k] # i
      BY <1>3, <1>t, <2>1, AppendProperties DEF Arrives, Queues
    <2>3. lock' = lock /\ \A k \in 1..Len(lock) : lock[k] # i
      BY <1>3, <2>1 DEF Arrives, Queues
    <2>4. \A k \in Slot : k # i => req'[k] = req[k]
      BY <2>1, <1>t
    <2>5. req'[i].stage = "reading"
      BY <2>1, <1>t
    <2>6. \A k \in 1..Len(inbox') : inbox'[k] \in Slot /\ (inbox'[k] = i => k = Len(inbox) + 1)
      BY <2>2, <1>t
    <2>7. \A k \in 1..Len(inbox') : req'[inbox'[k]].stage = "reading"
      BY <2>2, <2>4, <2>5, <2>6, <1>t DEF Queues
    <2>8. \A j, k \in 1..Len(inbox') : inbox'[j] = inbox'[k] => j = k
      BY <2>2, <2>6, <1>t DEF Queues
    <2>9. \A k \in 1..Len(lock') : req'[lock'[k]].stage \notin {"free", "reading"}
      BY <2>3, <2>4, <1>t DEF Queues
    <2>10. \A k \in Slot : req'[k].stage \in Late => lock' # <<>> /\ lock'[1] = k
      BY <2>3, <2>4, <2>5 DEF Queues, Late
    <2> QED BY <2>3, <2>7, <2>8, <2>9, <2>10 DEF Queues
  <1>4. ASSUME NEW i \in Slot, NEW k \in 1..Len(inbox), Enters(i, k) \/ IsDenied(i, k) PROVE Queues'
    <2>1. /\ inbox[k] = i /\ Len(inbox') = Len(inbox) - 1
          /\ \A j \in 1..(Len(inbox) - 1) : inbox'[j] = inbox[IF j < k THEN j ELSE j + 1]
      BY <1>4, <1>t, Removal DEF Enters, IsDenied
    <2>2. req[i].stage = "reading"
      BY <2>1 DEF Queues
    <2>3. \A j \in Slot : j # i => req'[j] = req[j]
      BY <1>4, <1>t DEF Enters, IsDenied
    <2>4. \A j \in 1..Len(inbox') : /\ inbox'[j] \in Slot /\ inbox'[j] # i
                                     /\ req'[inbox'[j]].stage = "reading"
      <3> TAKE j \in 1..Len(inbox')
      <3> DEFINE n == IF j < k THEN j ELSE j + 1
      <3>1. n \in 1..Len(inbox) /\ n # k /\ inbox'[j] = inbox[n]
        BY <2>1, <1>t
      <3> HIDE DEF n
      <3> QED BY <3>1, <2>1, <2>3, <1>t DEF Queues
    <2>5. \A j, l \in 1..Len(inbox') : inbox'[j] = inbox'[l] => j = l
      <3> TAKE j, l \in 1..Len(inbox')
      <3> HAVE inbox'[j] = inbox'[l]
      <3> DEFINE n == IF j < k THEN j ELSE j + 1
                 m == IF l < k THEN l ELSE l + 1
      <3>1. n \in 1..Len(inbox) /\ inbox'[j] = inbox[n]
        BY <2>1, <1>t
      <3>2. m \in 1..Len(inbox) /\ inbox'[l] = inbox[m]
        BY <2>1, <1>t
      <3>3. n = m
        <4> HIDE DEF n, m
        <4> QED BY <3>1, <3>2 DEF Queues
      <3> QED BY <3>3, <2>1, <1>t
    <2>6. \A j \in 1..Len(lock) : lock[j] \in Slot /\ lock[j] # i
      BY <2>2, <1>t DEF Queues
    <2>7. CASE Enters(i, k)
      <3>1. req'[i].stage = "locked"
        BY <2>7, <1>t DEF Enters, Request
      <3>2. /\ Len(lock') = Len(lock) + 1 /\ lock'[Len(lock) + 1] = i
            /\ \A j \in 1..Len(lock) : lock'[j] = lock[j]
        BY <2>7, <1>t, AppendProperties DEF Enters
      <3>3. \A j \in 1..Len(lock') : j \in 1..Len(lock) \/ j = Len(lock) + 1
        BY <3>2, <1>t
      <3>4. \A j \in 1..Len(lock') : req'[lock'[j]].stage \notin {"free", "reading"}
        BY <3>1, <3>2, <3>3, <2>3, <2>6 DEF Queues
      <3>5. \A j, l \in 1..Len(lock') : lock'[j] = lock'[l] => j = l
        BY <3>2, <3>3, <2>6 DEF Queues
      <3>6. \A j \in Slot : req'[j].stage \in Late => lock' # <<>> /\ lock'[1] = j
        <4>1. \A j \in Slot : req'[j].stage \in Late => lock # <<>> /\ lock[1] = j
          BY <3>1, <2>3 DEF Queues, Late
        <4>2. lock # <<>> => 1 \in 1..Len(lock)
          BY <1>t
        <4>3. lock' # <<>>
          BY <2>7, <1>t, AppendProperties DEF Enters
        <4> QED BY <4>1, <4>2, <4>3, <3>2
      <3> QED BY <3>4, <3>5, <3>6, <2>4, <2>5 DEF Queues
    <2>8. CASE IsDenied(i, k)
      <3>1. req'[i].stage = "free" /\ lock' = lock
        BY <2>8, <1>t DEF IsDenied, Free
      <3>2. \A j \in 1..Len(lock') : req'[lock'[j]].stage \notin {"free", "reading"}
        BY <3>1, <2>3, <2>6 DEF Queues
      <3>3. \A j \in Slot : req'[j].stage \in Late => lock' # <<>> /\ lock'[1] = j
        BY <3>1, <2>3 DEF Queues, Late
      <3> QED BY <3>1, <3>2, <3>3, <2>4, <2>5 DEF Queues
    <2> QED BY <1>4, <2>7, <2>8
  <1>5. ASSUME NEW i \in Slot, GetsOn(i) PROVE Queues'
    <2>1. lock # <<>> /\ lock[1] = i /\ req[i].stage \notin {"free", "reading"} /\ 1 \in 1..Len(lock)
      BY <1>5, <1>t DEF GetsOn, IsFirst
    <2>2. req'[i].stage \in Late /\ \A j \in Slot : j # i => req'[j] = req[j]
      BY <1>5, <1>t DEF GetsOn
    <2>3. inbox' = inbox /\ lock' = lock
      BY <1>5 DEF GetsOn
    <2>4. \A k \in 1..Len(inbox') : req'[inbox'[k]].stage = "reading"
      BY <2>1, <2>2, <2>3, <1>t DEF Queues
    <2>5. \A k \in 1..Len(lock') : req'[lock'[k]].stage \notin {"free", "reading"}
      BY <2>1, <2>2, <2>3, <1>t DEF Queues, Late
    <2>6. \A j \in Slot : req'[j].stage \in Late => lock' # <<>> /\ lock'[1] = j
      BY <2>1, <2>2, <2>3 DEF Queues
    <2> QED BY <2>3, <2>4, <2>5, <2>6 DEF Queues
  <1>6. ASSUME NEW i \in Slot, Leaves(i) PROVE Queues'
    <2>1. lock # <<>> /\ lock[1] = i /\ req[i].stage \notin {"free", "reading"} /\ 1 \in 1..Len(lock)
      BY <1>6, <1>t DEF Leaves, IsFirst
    <2>2. req'[i].stage = "free" /\ \A j \in Slot : j # i => req'[j] = req[j]
      BY <1>6, <1>t DEF Leaves, Free
    <2>3. /\ inbox' = inbox /\ Len(lock') = Len(lock) - 1
          /\ \A j \in 1..(Len(lock) - 1) : lock'[j] = lock[j + 1]
      BY <1>6, <1>t, <2>1, Rest DEF Leaves
    <2>4. \A k \in 1..Len(inbox') : req'[inbox'[k]].stage = "reading"
      BY <2>1, <2>2, <2>3, <1>t DEF Queues
    <2>5. \A j \in 1..Len(lock') : j + 1 \in 1..Len(lock) /\ lock'[j] = lock[j + 1]
      BY <2>3, <1>t
    <2>6. \A j \in 1..Len(lock') : req'[lock'[j]].stage \notin {"free", "reading"}
      <3> TAKE j \in 1..Len(lock')
      <3>1. lock[j + 1] # i /\ lock[j + 1] \in Slot
        BY <2>1, <2>5, <1>t DEF Queues
      <3> QED BY <3>1, <2>2, <2>5 DEF Queues
    <2>7. \A j, l \in 1..Len(lock') : lock'[j] = lock'[l] => j = l
      <3> TAKE j, l \in 1..Len(lock')
      <3> HAVE lock'[j] = lock'[l]
      <3>1. j + 1 = l + 1
        BY <2>5 DEF Queues
      <3> QED BY <3>1
    <2>8. \A j \in Slot : req'[j].stage \notin Late
      BY <2>1, <2>2 DEF Queues, Late
    <2> QED BY <2>3, <2>4, <2>6, <2>7, <2>8 DEF Queues
  <1> QED BY <1>1, <1>2, <1>3, <1>4, <1>5, <1>6 DEF Move

\* No request is for a body the client does not have yet, and none goes on
\* with anything but its body.
LEMMA ContentsStep == TypeOK /\ Queues /\ Contents /\ Move /\ [Next]_vars => Contents'
  <1> SUFFICES ASSUME TypeOK, Queues, Contents, Move, [Next]_vars PROVE Contents'
    OBVIOUS
  <1>t. /\ inbox \in Seq(Slot) /\ lock \in Seq(Slot) /\ req \in [Slot -> Request]
        /\ client.body \in Nat /\ promised \in Nat /\ object \in Nat
        /\ \A i \in Slot : req[i].body \in Nat /\ req[i].content \in Nat
    BY BodyOk, RequestFields DEF TypeOK
  <1>c. client'.body >= client.body /\ (~client'.done => client'.body # 0)
    BY ClientGrows DEF Contents
  <1>b. client'.body \in Nat
    BY TypeStep, BodyOk DEF TypeOK
  <1>p. promised <= client.body
    BY DEF Contents
  <1> DEFINE Good(r, o) ==
        r.stage # "free" =>
          /\ r.body # 0 /\ r.body <= client'.body
          /\ r.stage \in Late => r.content \in {0, r.body}
          /\ r.stage \in {"processed", "put"} => r.content # 0
          /\ r.stage = "put" => o \in {0, r.content}
  <1>g. ASSUME NEW i \in Slot PROVE Good(req[i], object) /\ Good(req[i], 0)
    BY <1>t, <1>c, <1>b DEF Contents
  <1>q. ASSUME promised' \in Nat, promised' <= client'.body,
               \A i \in Slot : Good(req'[i], object')
        PROVE  Contents'
    BY <1>q, <1>c DEF Contents
  <1>1. CASE Resets
    <2>1. \A i \in Slot : req'[i].stage = "free"
      BY <1>1 DEF Resets, Free
    <2> QED BY <1>1, <1>q, <1>t, <1>c, <1>b, <1>p, <2>1 DEF Resets
  <1>2. CASE Rests
    <2>1. \A i \in Slot : Good(req'[i], object')
      BY <1>2, <1>g DEF Rests
    <2>2. promised' \in Nat /\ promised' <= client'.body
      BY <1>2, <1>t, <1>c, <1>b, <1>p DEF Rests
    <2> QED BY <2>1, <2>2, <1>q
  <1>3. ASSUME NEW i \in Slot, Arrives(i) PROVE Contents'
    <2> DEFINE t == [Free EXCEPT !.stage = "reading", !.body = client.body, !.chunk = client.offset]
    <2>1. req' = [req EXCEPT ![i] = t] /\ t.stage = "reading" /\ t.body = client.body
      BY <1>3 DEF Arrives, Free
    <2> HIDE DEF t
    <2>2. client.body # 0
      BY <1>3 DEF Arrives, Contents
    <2>3. \A j \in Slot : Good(req'[j], object')
      BY <1>3, <1>g, <1>t, <1>c, <2>1, <2>2 DEF Arrives, Late
    <2> QED BY <1>3, <1>q, <1>t, <1>c, <1>b, <1>p, <2>3 DEF Arrives
  <1>4. ASSUME NEW i \in Slot, NEW k \in 1..Len(inbox), Enters(i, k) \/ IsDenied(i, k) PROVE Contents'
    <2>1. req[i].stage = "reading"
      BY <1>4 DEF Enters, IsDenied, Queues
    <2>2. \A j \in Slot : j # i => req'[j] = req[j]
      BY <1>4, <1>t DEF Enters, IsDenied
    <2>3. req'[i].stage = "free" \/ (req'[i].stage = "locked" /\ req'[i].body = req[i].body)
      BY <1>4, <1>t DEF Enters, IsDenied, Request, Free
    <2>4. Good(req'[i], object')
      BY <1>g, <2>1, <2>3 DEF Late
    <2>5. \A j \in Slot : Good(req'[j], object')
      BY <1>4, <1>g, <2>2, <2>4 DEF Enters, IsDenied
    <2> QED BY <1>4, <1>q, <1>t, <1>c, <1>b, <1>p, <2>5 DEF Enters, IsDenied
  <1>5. ASSUME NEW i \in Slot, GetsOn(i) PROVE Contents'
    <2>1. PICK t \in Request :
            /\ t.stage \in Late /\ t.body = req[i].body /\ t.content \in {0, t.body}
            /\ t.stage \in {"processed", "put"} => t.content # 0
            /\ object' = IF t.stage = "put" THEN t.content ELSE object
            /\ req' = [req EXCEPT ![i] = t]
      BY <1>5 DEF GetsOn
    <2>2. lock[1] = i /\ req[i].stage # "free"
      BY <1>5, <1>t DEF GetsOn, IsFirst
    <2>3. Good(req'[i], object')
      BY <2>1, <2>2, <1>g, <1>t
    <2>4. \A j \in Slot : j # i => req'[j] = req[j] /\ req[j].stage \notin Late
      BY <2>1, <2>2, <1>t DEF Queues
    <2>5. \A j \in Slot : Good(req'[j], object')
      BY <2>3, <2>4, <1>g DEF Late
    <2> QED BY <1>5, <1>q, <1>t, <1>c, <1>b, <1>p, <2>5 DEF GetsOn
  <1>6. ASSUME NEW i \in Slot, Leaves(i) PROVE Contents'
    <2>1. req'[i].stage = "free" /\ \A j \in Slot : j # i => req'[j] = req[j]
      BY <1>6, <1>t DEF Leaves, Free
    <2>2. \A j \in Slot : Good(req'[j], object')
      BY <1>6, <2>1, <1>g DEF Leaves
    <2>3. promised' \in Nat /\ promised' <= client'.body
      <3>1. req[i].body <= client.body
        BY <1>6 DEF Leaves, IsFirst, Contents
      <3> QED BY <1>6, <3>1, <1>t, <1>c, <1>b, <1>p DEF Leaves
    <2> QED BY <1>q, <2>2, <2>3
  <1> QED BY <1>1, <1>2, <1>3, <1>4, <1>5, <1>6 DEF Move

\* The queues stay in order.
LEMMA OrderStep == TypeOK /\ Queues /\ Contents /\ Order /\ Move => Order'
  <1> SUFFICES ASSUME TypeOK, Queues, Contents, Order, Move, ~overtaken' PROVE Order'
    BY DEF Order
  <1>t. /\ inbox \in Seq(Slot) /\ lock \in Seq(Slot) /\ req \in [Slot -> Request]
        /\ client.body \in Nat /\ promised \in Nat /\ overtaken \in BOOLEAN
        /\ \A i \in Slot : req[i].body \in Nat
    BY BodyOk, RequestFields DEF TypeOK
  <1>o. ~overtaken
    BY <1>t DEF Move, Resets, Rests, Arrives, GetsOn, Leaves, Enters, IsDenied
  <1>b. \A j \in 1..Len(inbox) : inbox[j] \in Slot /\ req[inbox[j]].stage = "reading"
    BY <1>t DEF Queues
  <1>l. \A j \in 1..Len(lock) : lock[j] \in Slot /\ req[lock[j]].stage \notin {"free", "reading"}
    BY <1>t DEF Queues
  <1>1. CASE Resets
    BY <1>1 DEF Resets, Order
  <1>2. CASE Rests
    <2>1. inbox' = inbox /\ lock' = lock /\ req' = req /\ promised' <= promised
      BY <1>2, <1>t DEF Rests
    <2>2. promised' \in Nat
      BY <1>2, <1>t DEF Rests
    <2> QED BY <2>1, <2>2, <1>o, <1>t, <1>b, <1>l DEF Order
  <1>3. ASSUME NEW i \in Slot, Arrives(i) PROVE Order'
    <2> DEFINE t == [Free EXCEPT !.stage = "reading", !.body = client.body, !.chunk = client.offset]
    <2>1. req' = [req EXCEPT ![i] = t] /\ t.body = client.body /\ req[i].stage = "free"
      BY <1>3 DEF Arrives, Free
    <2> HIDE DEF t
    <2>2. \A j \in Slot : j # i => req'[j] = req[j]
      BY <2>1, <1>t
    <2>3. req'[i].body = client.body
      BY <2>1, <1>t
    <2>4. /\ Len(inbox') = Len(inbox) + 1 /\ inbox'[Len(inbox) + 1] = i
          /\ \A k \in 1..Len(inbox) : inbox'[k] = inbox[k]
      BY <1>3, <1>t, AppendProperties DEF Arrives
    <2>5. \A k \in 1..Len(inbox) : req'[inbox'[k]].body = req[inbox[k]].body
      BY <2>1, <2>2, <2>4, <1>b
    <2>6. req'[inbox'[Len(inbox) + 1]].body = client.body
      BY <2>3, <2>4
    <2>7. lock' = lock /\ promised' = promised
          /\ \A k \in 1..Len(lock) : req'[lock'[k]].body = req[lock[k]].body
      BY <1>3, <2>1, <2>2, <1>l DEF Arrives
    <2>8. /\ \A k \in 1..Len(inbox) : req[inbox[k]].body <= client.body
          /\ \A k \in 1..Len(lock) : req[lock[k]].body <= client.body
          /\ promised <= client.body
      BY <1>b, <1>l DEF Contents
    <2>9. \A k \in 1..Len(inbox') : k \in 1..Len(inbox) \/ k = Len(inbox) + 1
      BY <2>4, <1>t
    <2>10. \A j, k \in 1..Len(inbox') : j <= k => req'[inbox'[j]].body <= req'[inbox'[k]].body
      BY <2>5, <2>6, <2>8, <2>9, <1>o, <1>t, <1>b DEF Order
    <2>11. \A k \in 1..Len(inbox') : promised' <= req'[inbox'[k]].body
      BY <2>5, <2>6, <2>7, <2>8, <2>9, <1>o DEF Order
    <2>12. \A j \in 1..Len(lock'), k \in 1..Len(inbox') : req'[lock'[j]].body <= req'[inbox'[k]].body
      BY <2>5, <2>6, <2>7, <2>8, <2>9, <1>o DEF Order
    <2>13. \A j, k \in 1..Len(lock') : j <= k => req'[lock'[j]].body <= req'[lock'[k]].body
      BY <2>7, <1>o DEF Order
    <2>14. \A k \in 1..Len(lock') : promised' <= req'[lock'[k]].body
      BY <2>7, <1>o DEF Order
    <2> QED BY <2>10, <2>11, <2>12, <2>13, <2>14 DEF Order
  <1>4. ASSUME NEW i \in Slot, NEW k \in 1..Len(inbox), Enters(i, k) \/ IsDenied(i, k) PROVE Order'
    <2>1. k = 1
      BY <1>4 DEF Enters, IsDenied
    <2>2. /\ inbox[1] = i /\ Len(inbox') = Len(inbox) - 1
          /\ \A j \in 1..(Len(inbox) - 1) : inbox'[j] = inbox[IF j < 1 THEN j ELSE j + 1]
      BY <1>4, <1>t, <2>1, Removal DEF Enters, IsDenied
    <2>3. \A j \in 1..Len(inbox') : j + 1 \in 1..Len(inbox) /\ inbox'[j] = inbox[j + 1]
      BY <2>2, <1>t
    <2>4. \A j \in Slot : j # i => req'[j] = req[j]
      BY <1>4, <1>t DEF Enters, IsDenied
    <2>5. \A j \in 1..Len(inbox') : inbox[j + 1] # i
      <3> TAKE j \in 1..Len(inbox')
      <3>1. j + 1 # 1
        OBVIOUS
      <3> QED BY <2>1, <2>2, <2>3, <3>1 DEF Queues
    <2>6. \A j \in 1..Len(inbox') : req'[inbox'[j]].body = req[inbox[j + 1]].body
      BY <2>3, <2>4, <2>5, <1>b
    <2>7. promised' = promised
      BY <1>4 DEF Enters, IsDenied
    <2>8. \A j \in 1..Len(lock) : lock[j] # i
      BY <2>1, <2>2, <1>b, <1>l
    <2>9. \A j, l \in 1..Len(inbox') : j <= l => req'[inbox'[j]].body <= req'[inbox'[l]].body
      <3> TAKE j, l \in 1..Len(inbox')
      <3> HAVE j <= l
      <3>1. j + 1 <= l + 1
        OBVIOUS
      <3> QED BY <3>1, <2>3, <2>6, <1>o DEF Order
    <2>10. \A j \in 1..Len(inbox') : promised' <= req'[inbox'[j]].body
      BY <2>3, <2>6, <2>7, <1>o DEF Order
    <2>11. CASE IsDenied(i, k)
      <3>1. lock' = lock /\ \A j \in 1..Len(lock) : req'[lock'[j]].body = req[lock[j]].body
        BY <2>11, <2>4, <2>8, <1>l DEF IsDenied
      <3>2. \A j \in 1..Len(lock'), l \in 1..Len(inbox') : req'[lock'[j]].body <= req'[inbox'[l]].body
        BY <3>1, <2>3, <2>6, <1>o DEF Order
      <3>3. /\ \A j, l \in 1..Len(lock') : j <= l => req'[lock'[j]].body <= req'[lock'[l]].body
            /\ \A j \in 1..Len(lock') : promised' <= req'[lock'[j]].body
        BY <3>1, <2>7, <1>o DEF Order
      <3> QED BY <3>2, <3>3, <2>9, <2>10 DEF Order
    <2>12. CASE Enters(i, k)
      <3>1. req'[i].body = req[i].body
        BY <2>12, <1>t DEF Enters, Request
      <3>2. /\ Len(lock') = Len(lock) + 1 /\ lock'[Len(lock) + 1] = i
            /\ \A j \in 1..Len(lock) : lock'[j] = lock[j]
        BY <2>12, <1>t, AppendProperties DEF Enters
      <3>3. \A j \in 1..Len(lock) : req'[lock'[j]].body = req[lock[j]].body
        BY <3>2, <2>4, <2>8, <1>l
      <3>4. req'[lock'[Len(lock) + 1]].body = req[inbox[1]].body
        BY <3>1, <3>2, <2>2
      <3>5. \A j \in 1..Len(lock') : j \in 1..Len(lock) \/ j = Len(lock) + 1
        BY <3>2, <1>t
      <3>6. 1 \in 1..Len(inbox)
        BY <2>1
      <3>7. \A j \in 1..Len(lock') : promised' <= req'[lock'[j]].body
        BY <3>3, <3>4, <3>5, <3>6, <2>7, <1>o DEF Order
      <3>8. \A j, l \in 1..Len(lock') : j <= l => req'[lock'[j]].body <= req'[lock'[l]].body
        BY <3>3, <3>4, <3>5, <3>6, <1>o, <1>t, <1>b DEF Order
      <3>9. \A j \in 1..Len(lock'), l \in 1..Len(inbox') : req'[lock'[j]].body <= req'[inbox'[l]].body
        <4> TAKE j \in 1..Len(lock'), l \in 1..Len(inbox')
        <4>1. CASE j \in 1..Len(lock)
          BY <4>1, <3>3, <2>3, <2>6, <1>o DEF Order
        <4>2. CASE j = Len(lock) + 1
          <5>1. 1 <= l + 1
            OBVIOUS
          <5> QED BY <4>2, <5>1, <3>4, <3>6, <2>3, <2>6, <1>o DEF Order
        <4> QED BY <4>1, <4>2, <3>5
      <3> QED BY <3>7, <3>8, <3>9, <2>9, <2>10 DEF Order
    <2> QED BY <1>4, <2>11, <2>12
  <1>5. ASSUME NEW i \in Slot, GetsOn(i) PROVE Order'
    <2>1. /\ inbox' = inbox /\ lock' = lock /\ promised' = promised
          /\ \A j \in Slot : req'[j].body = req[j].body
      BY <1>5, <1>t DEF GetsOn
    <2>2. \A j \in 1..Len(inbox) : req'[inbox'[j]].body = req[inbox[j]].body
      BY <2>1, <1>b
    <2>3. \A j \in 1..Len(lock) : req'[lock'[j]].body = req[lock[j]].body
      BY <2>1, <1>l
    <2>4. Len(inbox') = Len(inbox) /\ Len(lock') = Len(lock)
      BY <2>1
    <2>5. /\ \A j \in 1..Len(inbox') : promised' <= req'[inbox'[j]].body
          /\ \A j, k \in 1..Len(inbox') : j <= k => req'[inbox'[j]].body <= req'[inbox'[k]].body
      BY <2>1, <2>2, <2>4, <1>o DEF Order
    <2>6. /\ \A j \in 1..Len(lock') : promised' <= req'[lock'[j]].body
          /\ \A j, k \in 1..Len(lock') : j <= k => req'[lock'[j]].body <= req'[lock'[k]].body
      BY <2>1, <2>3, <2>4, <1>o DEF Order
    <2>7. \A j \in 1..Len(lock'), k \in 1..Len(inbox') : req'[lock'[j]].body <= req'[inbox'[k]].body
      BY <2>2, <2>3, <2>4, <1>o DEF Order
    <2> QED BY <2>5, <2>6, <2>7 DEF Order
  <1>6. ASSUME NEW i \in Slot, Leaves(i) PROVE Order'
    <2>1. lock # <<>> /\ lock[1] = i /\ 1 \in 1..Len(lock)
      BY <1>6, <1>t DEF Leaves, IsFirst
    <2>2. \A j \in Slot : j # i => req'[j] = req[j]
      BY <1>6, <1>t DEF Leaves
    <2>3. /\ inbox' = inbox /\ Len(lock') = Len(lock) - 1
          /\ \A j \in 1..(Len(lock) - 1) : lock'[j] = lock[j + 1]
      BY <1>6, <1>t, <2>1, Rest DEF Leaves
    <2>4. \A j \in 1..Len(lock') : j + 1 \in 1..Len(lock) /\ lock'[j] = lock[j + 1]
      BY <2>3, <1>t
    <2>5. \A j \in 1..Len(lock') : lock[j + 1] # i
      <3> TAKE j \in 1..Len(lock')
      <3>1. j + 1 # 1
        OBVIOUS
      <3> QED BY <2>1, <2>4, <3>1 DEF Queues
    <2>6. \A j \in 1..Len(lock') : req'[lock'[j]].body = req[lock[j + 1]].body
      BY <2>2, <2>4, <2>5, <1>l
    <2>7. \A j \in 1..Len(inbox) : req'[inbox'[j]].body = req[inbox[j]].body
      <3>1. \A j \in 1..Len(inbox) : inbox[j] # i
        BY <2>1, <1>b, <1>l
      <3> QED BY <2>2, <2>3, <3>1, <1>b
    <2>8. promised' \in {promised, req[lock[1]].body}
      BY <1>6, <2>1 DEF Leaves
    <2>9. \A j, l \in 1..Len(lock') : j <= l => req'[lock'[j]].body <= req'[lock'[l]].body
      <3> TAKE j, l \in 1..Len(lock')
      <3> HAVE j <= l
      <3>1. j + 1 <= l + 1
        OBVIOUS
      <3> QED BY <3>1, <2>4, <2>6, <1>o DEF Order
    <2>10. \A j \in 1..Len(lock') : promised' <= req'[lock'[j]].body
      <3> TAKE j \in 1..Len(lock')
      <3>1. 1 <= j + 1
        OBVIOUS
      <3> QED BY <3>1, <2>1, <2>4, <2>6, <2>8, <1>o DEF Order
    <2>11. \A j \in 1..Len(inbox') : promised' <= req'[inbox'[j]].body
      BY <2>1, <2>3, <2>7, <2>8, <1>o DEF Order
    <2>12. \A j \in 1..Len(lock'), l \in 1..Len(inbox') : req'[lock'[j]].body <= req'[inbox'[l]].body
      BY <2>3, <2>4, <2>6, <2>7, <1>o DEF Order
    <2>13. \A j, l \in 1..Len(inbox') : j <= l => req'[inbox'[j]].body <= req'[inbox'[l]].body
      BY <2>3, <2>7, <1>o DEF Order
    <2> QED BY <2>9, <2>10, <2>11, <2>12, <2>13 DEF Order
  <1> QED BY <1>1, <1>2, <1>3, <1>4, <1>5, <1>6 DEF Move
-----------------------------------------------------------------------------
(* Sweeps, deletions and rows.                                             *)

\* A handler that has the lock is an upload under way, and touches of the jobs'
\* business the row at most.
LEMMA UnderLock ==
  ASSUME TypeOK, NEW i \in Slot, Handle(i), ~ReadRow(i)
  PROVE  /\ Uploading /\ UNCHANGED <<jobs, crossed>>
         /\ \/ UNCHANGED row
            \/ row.exists /\ req[i].stage = "put" /\ UNCHANGED object
               /\ row' = [row EXCEPT !.uploaded = TRUE, !.expired = FALSE]
  <1>1. \E stage \in {"locked", "assembled", "processed", "put"} : Holds(i, stage)
    BY DEF Handle, WriteChunk, Skip, Process, Put, PutFails, Record, RecordFails
  <1>2. Uploading
    BY <1>1 DEF Holds, Uploading
  <1>3. UNCHANGED <<jobs, crossed>>
    BY DEF Handle, WriteChunk, Skip, Process, Put, PutFails, Record, RecordFails, Acknowledge
  <1>4. CASE Record(i)
    BY <1>4, <1>2, <1>3 DEF Record, Holds
  <1>5. CASE ~Record(i)
    BY <1>5, <1>2, <1>3 DEF Handle, WriteChunk, Skip, Process, Put, PutFails, RecordFails
  <1> QED BY <1>4, <1>5

\* A sweep that no upload overlaps keeps finding the row as it has read it.
LEMMA SweepsStep == TypeOK /\ Sweeps /\ [Next]_vars => Sweeps'
  <1> SUFFICES ASSUME TypeOK, Sweeps, [Next]_vars PROVE Sweeps'
    OBVIOUS
  <1>t. /\ row \in [exists : BOOLEAN, uploaded : BOOLEAN, expired : BOOLEAN]
        /\ sweep \in [at : SweepStage, known : BOOLEAN, busy : BOOLEAN]
        /\ req \in [Slot -> Request]
    BY DEF TypeOK
  <1>1. CASE NextBody \/ GiveUp \/ SweepScratch \/ RequestErasure \/ EraserStarts
             \/ EraserRemoves \/ EraserFails \/ UNCHANGED vars
    BY <1>1 DEF NextBody, GiveUp, SweepScratch, RequestErasure, EraserStarts, EraserRemoves,
                EraserFails, vars, Sweeps, Uploading
  <1>2. ASSUME NEW i \in Slot, Send(i) PROVE Sweeps'
    <2>1. \A j \in Slot : req'[j] = req[j] \/ req'[j].stage = "reading"
      BY <1>2, <1>t DEF Send, Free
    <2> QED BY <1>2, <2>1 DEF Send, Sweeps, Uploading
  <1>3. ASSUME NEW i \in Slot, ReadRow(i) PROVE Sweeps'
    <2>1. sweep'.at # "idle" => sweep'.busy
      BY <1>3, <1>t DEF ReadRow
    <2> QED BY <1>3, <2>1 DEF ReadRow, Sweeps
  <1>4. ASSUME NEW i \in Slot, Handle(i), ~ReadRow(i) PROVE Sweeps'
    <2>1. /\ Uploading /\ sweep' = sweep
          /\ row' = row \/ (row.exists /\ row'.exists)
      BY <1>4, <1>t, UnderLock
    <2> QED BY <2>1, <1>t DEF Sweeps, SweepStage
  <1>5. CASE Restart
    <2>1. sweep'.at = "idle" /\ row' = row
      BY <1>5 DEF Restart, Idle
    <2> QED BY <2>1 DEF Sweeps
  <1>6. CASE GrowOld
    BY <1>6, <1>t DEF GrowOld, Sweeps
  <1>7. CASE SweepStarts
    <2>1. /\ sweep'.at \in {"purge", "list"} /\ sweep'.busy = Uploading /\ UNCHANGED <<req, row>>
          /\ sweep'.at = "purge" => row.expired
      BY <1>7 DEF SweepStarts
    <2>2. Uploading' = Uploading
      BY <2>1 DEF Uploading
    <2> QED BY <2>1, <2>2 DEF Sweeps
  <1>8. CASE SweepPurges \/ SweepLists \/ SweepPurgeFails \/ SweepChecks
    <2>1. /\ UNCHANGED <<req, row>>
          /\ sweep'.at # "idle" => sweep.at # "idle" /\ sweep'.busy = sweep.busy
          /\ sweep'.at # "purge"
          /\ sweep'.at = "collect" => ~row.uploaded
      BY <1>8, <1>t DEF SweepPurges, SweepLists, SweepPurgeFails, SweepChecks, SweepTo, SweepEnds, Idle
    <2>2. Uploading' = Uploading
      BY <2>1 DEF Uploading
    <2> QED BY <2>1, <2>2 DEF Sweeps
  <1>9. CASE SweepClears
    <2>1. /\ UNCHANGED req /\ sweep'.at = "list" /\ sweep'.busy = sweep.busy /\ sweep.at = "clear"
          /\ row'.exists /\ ~row'.uploaded
      BY <1>9, <1>t DEF SweepClears, SweepTo
    <2>2. Uploading' = Uploading
      BY <2>1 DEF Uploading
    <2> QED BY <2>1, <2>2 DEF Sweeps
  <1>10. CASE SweepCollects \/ SweepCollectFails
    <2>1. sweep'.at = "idle" /\ row' = row
      BY <1>10 DEF SweepCollects, SweepCollectFails, SweepEnds, Idle
    <2> QED BY <2>1 DEF Sweeps
  <1>11. CASE EraserDeletes
    <2>1. UNCHANGED <<req, sweep>> /\ ~row'.uploaded
      BY <1>11 DEF EraserDeletes
    <2>2. Uploading' = Uploading
      BY <2>1 DEF Uploading
    <2> QED BY <2>1, <2>2 DEF Sweeps
  <1> QED BY <1>1, <1>2, <1>3, <1>4, <1>5, <1>6, <1>7, <1>8, <1>9, <1>10, <1>11
          DEF Next, SweepStep, EraserStep, Handle

\* Nothing takes an object from under a row or an upload unseen.
LEMMA PointersStep ==
  TypeOK /\ Queues /\ Contents /\ Sweeps /\ Pointers /\ [Next]_vars => Pointers'
  <1> SUFFICES ASSUME TypeOK, Queues, Contents, Sweeps, Pointers, [Next]_vars PROVE Pointers'
    OBVIOUS
  <1>t. /\ row \in [exists : BOOLEAN, uploaded : BOOLEAN, expired : BOOLEAN]
        /\ sweep \in [at : SweepStage, known : BOOLEAN, busy : BOOLEAN]
        /\ req \in [Slot -> Request] /\ crossed \in BOOLEAN
    BY DEF TypeOK
  <1> DEFINE NoNewPut == \A j \in Slot : req'[j].stage = "put" => req[j].stage = "put"
  <1>n. ASSUME UNCHANGED <<row, crossed>>, eraser # "none" => eraser' # "none", NoNewPut,
               object = 0 => object' = 0, object' = 0 => object = 0
        PROVE  Pointers'
    BY <1>n DEF Pointers
  <1>1. CASE NextBody \/ GiveUp \/ SweepScratch \/ RequestErasure \/ EraserStarts \/ EraserFails
             \/ SweepStarts \/ SweepPurgeFails \/ SweepLists \/ SweepChecks \/ SweepCollectFails
             \/ UNCHANGED vars
    BY <1>1, <1>n
       DEF NextBody, GiveUp, SweepScratch, RequestErasure, EraserStarts, EraserFails, SweepStarts,
           SweepPurgeFails, SweepLists, SweepChecks, SweepCollectFails, vars
  <1>2. ASSUME NEW i \in Slot, Send(i) PROVE Pointers'
    <2>1. NoNewPut
      BY <1>2, <1>t DEF Send, Free
    <2> QED BY <1>2, <1>n, <2>1 DEF Send
  <1>3. ASSUME NEW i \in Slot, ReadRow(i) PROVE Pointers'
    <2>1. NoNewPut
      <3>1. \A j \in Slot : req'[j] = req[j] \/ req'[j].stage \in {"locked", "free"}
        BY <1>3, <1>t DEF ReadRow, Reply, Free, Request
      <3> QED BY <3>1
    <2> QED BY <1>3, <1>n, <2>1 DEF ReadRow
  <1>4. ASSUME NEW i \in Slot, WriteChunk(i) \/ Skip(i) \/ Process(i) \/ PutFails(i) \/ RecordFails(i)
        PROVE  Pointers'
    <2>1. \A j \in Slot : req'[j] = req[j] \/ req'[j].stage \in {"assembled", "processed", "free"}
      BY <1>4, <1>t DEF WriteChunk, Skip, Process, PutFails, RecordFails, Acknowledge, Answer,
                        Reply, Free, Request
    <2>2. UNCHANGED <<row, crossed, eraser, object>>
      BY <1>4 DEF WriteChunk, Skip, Process, PutFails, RecordFails
    <2> QED BY <1>n, <2>1, <2>2
  <1>5. ASSUME NEW i \in Slot, Put(i) PROVE Pointers'
    <2>1. object' # 0
      BY <1>5 DEF Put, Holds, Contents
    <2> QED BY <2>1 DEF Pointers
  <1>6. ASSUME NEW i \in Slot, Record(i) PROVE Pointers'
    <2>1. req[i].stage = "put" /\ row.exists /\ UNCHANGED <<object, crossed, eraser>>
      BY <1>6 DEF Record, Holds
    <2>2. object = 0 => crossed \/ eraser # "none"
      BY <2>1 DEF Pointers
    <2> QED BY <2>1, <2>2 DEF Pointers
  <1>7. CASE Restart
    <2>1. \A j \in Slot : req'[j].stage = "free"
      BY <1>7 DEF Restart, Free
    <2> QED BY <1>7, <1>n, <2>1 DEF Restart
  <1>8. CASE GrowOld
    <2>1. row'.expired /\ \A j \in Slot : req'[j].stage # "put"
      BY <1>8, <1>t DEF GrowOld, Free
    <2> QED BY <2>1 DEF Pointers
  <1>9. CASE SweepPurges \/ SweepCollects
    <2>1. /\ crossed' = (crossed \/ sweep.busy) /\ UNCHANGED <<req, row>>
          /\ sweep.at \in {"purge", "collect"}
      BY <1>9 DEF SweepPurges, SweepCollects, RemoveObject
    <2>2. CASE sweep.busy
      BY <2>1, <2>2 DEF Pointers
    <2>3. CASE ~sweep.busy
      BY <2>1, <2>3 DEF Pointers, Sweeps, Uploading
    <2> QED BY <2>2, <2>3
  <1>10. CASE SweepClears
    <2>1. /\ ~row'.uploaded /\ row'.exists /\ row.exists /\ UNCHANGED <<req, object, crossed, eraser>>
      BY <1>10, <1>t DEF SweepClears
    <2> QED BY <2>1 DEF Pointers
  <1>11. CASE EraserRemoves
    BY <1>11 DEF EraserRemoves, Pointers
  <1>12. CASE EraserDeletes
    <2>1. ~row'.exists /\ ~row'.uploaded
      BY <1>12 DEF EraserDeletes
    <2> QED BY <2>1 DEF Pointers
  <1> QED BY <1>1, <1>2, <1>3, <1>4, <1>5, <1>6, <1>7, <1>8, <1>9, <1>10, <1>11, <1>12
          DEF Next, SweepStep, EraserStep, Handle
-----------------------------------------------------------------------------
(* The theorems.                                                           *)

\* The inductive invariant holds: see the definitions it is made of.
THEOREM Invariant == Spec => []Inv
  <1>1. Init => Inv
    <2> SUFFICES ASSUME Init PROVE Inv
      OBVIOUS
    <2>1. \A i \in Slot : req[i].stage = "free"
      BY DEF Init, Free
    <2>2. inbox = <<>> /\ lock = <<>>
      BY DEF Init
    <2>3. Queues /\ Order
      BY <2>1, <2>2 DEF Queues, Order, Late
    <2>4. Contents
      BY <2>1 DEF Init, Contents
    <2>5. Sweeps /\ Pointers
      BY <2>1 DEF Init, Sweeps, Pointers, Idle
    <2> QED BY <2>3, <2>4, <2>5, TypeInit DEF Inv
  <1>2. Inv /\ [Next]_vars => Inv'
    BY TypeStep, Moves, QueuesStep, ContentsStep, OrderStep, SweepsStep, PointersStep DEF Inv
  <1> QED BY <1>1, <1>2, PTL DEF Spec

\* Every variable keeps its type; the scratch file never holds more than two
\* chunks (routes/transcripts.ts).
THEOREM TypeCorrect == Spec => []TypeOK
  BY Invariant, PTL DEF Inv

\* With nothing under way, a row that points to a fresh transcript points to
\* one that is there, unless an upload and a sweep have overlapped.
THEOREM PointersHold == Spec => []PointerHolds
  <1>1. Inv => PointerHolds
    BY DEF Inv, Pointers, PointerHolds
  <1> QED BY <1>1, Invariant, PTL

\* A fresh transcript loses its object to the deletion of its user only, or to
\* a sweep that an upload has overlapped.
THEOREM FreshStays == Spec => FreshIsKept
  <1>1. Inv /\ [Next]_vars =>
          [object # 0 /\ object' = 0 /\ row.uploaded /\ ~row.expired => eraser # "none" \/ sweep.busy]_vars
    <2> SUFFICES ASSUME Inv, [Next]_vars, object # 0, object' = 0, row.uploaded, ~row.expired
                 PROVE  eraser # "none" \/ sweep.busy
      OBVIOUS
    <2>1. CASE SweepPurges \/ SweepCollects
      BY <2>1 DEF SweepPurges, SweepCollects, Inv, Sweeps
    <2>2. CASE EraserRemoves
      BY <2>2 DEF EraserRemoves
    <2>3. ASSUME NEW i \in Slot, Put(i) PROVE FALSE
      BY <2>3 DEF Put, Holds, Inv, Contents
    <2>4. UNCHANGED object => FALSE
      OBVIOUS
    <2>5. ASSUME NEW i \in Slot, Send(i) \/ Handle(i) PROVE FALSE
      BY <2>3, <2>4, <2>5 DEF Send, Handle, ReadRow, WriteChunk, Skip, Process, PutFails, Record,
                              RecordFails
    <2>6. CASE SweepStep
      BY <2>1, <2>4, <2>6 DEF SweepStep, SweepStarts, SweepClears, SweepLists, SweepChecks,
                              SweepPurgeFails, SweepCollectFails
    <2>7. CASE RequestErasure \/ EraserStep
      BY <2>2, <2>4, <2>7 DEF RequestErasure, EraserStep, EraserStarts, EraserDeletes, EraserFails
    <2>8. CASE NextBody \/ GiveUp \/ Restart \/ SweepScratch \/ GrowOld \/ UNCHANGED vars
      BY <2>4, <2>8 DEF NextBody, GiveUp, Restart, SweepScratch, GrowOld, vars
    <2> QED BY <2>5, <2>6, <2>7, <2>8 DEF Next
  <1> QED BY <1>1, Invariant, PTL DEF Spec, FreshIsKept

\* The endpoint implements TranscriptStore, as long as requests enter the lock
\* in the order in which they were sent: transcripts are stored whole, an
\* acknowledged one is in the store, and only a newer one replaces it until it
\* is removed.
THEOREM Implements == Spec => KeepsItsPromise
  <1> DEFINE k == IF overtaken THEN 0 ELSE object
             p == IF overtaken THEN 0 ELSE promised
  <1>1. Init => Promise!Init
    BY DEF Init, Promise!Init
  <1>2. Inv /\ [Next]_vars => [Promise!Next]_<<k, p>>
    <2> SUFFICES ASSUME Inv, [Next]_vars PROVE [Promise!Next]_<<k, p>>
      OBVIOUS
    <2>t. /\ TypeOK /\ Queues /\ Contents /\ overtaken \in BOOLEAN
          /\ req \in [Slot -> Request] /\ lock \in Seq(Slot)
          /\ \A i \in Slot : req[i].body \in 0..MaxBody /\ req[i].content \in 0..MaxBody
          /\ promised \in Nat /\ object \in Nat
      BY BodyOk, RequestFields DEF Inv, TypeOK
    <2>1. Move /\ overtaken' \in BOOLEAN
      BY Moves, TypeStep DEF Inv, TypeOK
    <2>2. CASE overtaken'
      BY <2>2, <2>t DEF Promise!Next, Promise!Remove
    <2>3. CASE ~overtaken' /\ object' = 0 /\ promised' = 0
      BY <2>3 DEF Promise!Next, Promise!Remove
    <2>4. CASE ~overtaken' /\ UNCHANGED <<object, promised>>
      <3>1. ~overtaken
        BY <2>1, <2>4, <2>t DEF Move, Resets, Rests, Arrives, Enters, IsDenied, GetsOn, Leaves
      <3> QED BY <2>4, <3>1
    <2>5. ASSUME NEW i \in Slot, Put(i), ~overtaken' PROVE [Promise!Next]_<<k, p>>
      <3>1. /\ ~overtaken /\ UNCHANGED promised /\ object' = req[i].content
            /\ lock # <<>> /\ lock[1] = i
            /\ req[i].content = req[i].body /\ req[i].content # 0
        BY <2>5, <2>t DEF Put, Holds, Contents, Late
      <3>2. 1 \in 1..Len(lock)
        BY <3>1, <2>t
      <3>3. promised <= req[i].body
        BY <3>1, <3>2 DEF Inv, Order
      <3>4. Promise!Store(req[i].content)
        BY <2>5, <3>1, <3>3, <2>t, BodyOk DEF Promise!Store
      <3>5. req[i].content \in Body
        BY <3>1, <2>t, BodyOk DEF Body
      <3> QED BY <3>4, <3>5 DEF Promise!Next
    <2>6. ASSUME NEW i \in Slot, Skip(i) \/ Record(i), ~overtaken' PROVE [Promise!Next]_<<k, p>>
      <3>1. /\ ~overtaken /\ UNCHANGED object /\ req[i].content # 0
            /\ promised' = IF object # 0 /\ req[i].content > promised THEN req[i].content ELSE promised
        BY <2>6, <2>t DEF Skip, Record, Acknowledge, Holds, Contents
      <3>2. object \in {0, req[i].content}
        BY <2>6 DEF Skip, Record, Holds, Inv, Contents
      <3>3. req[i].content \in Body
        BY <3>1, <2>t, BodyOk DEF Body
      <3>4. CASE object = 0
        BY <3>1, <3>4, <2>6
      <3>5. CASE object # 0
        <4>1. Promise!Acknowledge(req[i].content)
          BY <3>1, <3>2, <3>5, <2>6, <2>t, BodyOk DEF Promise!Acknowledge
        <4> QED BY <4>1, <3>3 DEF Promise!Next
      <3> QED BY <3>4, <3>5
    <2>7. \/ UNCHANGED <<object, promised>>
          \/ object' = 0 /\ promised' = 0
          \/ \E i \in Slot : Put(i) \/ Skip(i) \/ Record(i)
      <3>1. ASSUME NEW i \in Slot, Send(i) \/ Handle(i)
            PROVE  UNCHANGED <<object, promised>> \/ Put(i) \/ Skip(i) \/ Record(i)
        BY <3>1 DEF Send, Handle, ReadRow, WriteChunk, Process, PutFails, RecordFails
      <3>2. CASE SweepStep \/ RequestErasure \/ EraserStep
        BY <3>2 DEF SweepStep, SweepStarts, SweepPurges, SweepClears, SweepLists, SweepChecks,
                    SweepCollects, SweepPurgeFails, SweepCollectFails, RemoveObject, RequestErasure,
                    EraserStep, EraserStarts, EraserRemoves, EraserDeletes, EraserFails
      <3>3. CASE NextBody \/ GiveUp \/ Restart \/ SweepScratch \/ GrowOld \/ UNCHANGED vars
        BY <3>3 DEF NextBody, GiveUp, Restart, SweepScratch, GrowOld, vars
      <3> QED BY <3>1, <3>2, <3>3 DEF Next
    <2> QED BY <2>1, <2>2, <2>3, <2>4, <2>5, <2>6, <2>7
  <1> QED BY <1>1, <1>2, Invariant, PTL DEF Spec, KeepsItsPromise, Promise!Spec

-----------------------------------------------------------------------------
(* The locks.                                                              *)

\* At most one request of the session is past its first look at the scratch
\* file: the chain of promises in sessionLocks is a lock (withSessionLock).
OneAtWork == \A i, j \in Slot : req[i].stage \in Late /\ req[j].stage \in Late => i = j

\* OneAtWork holds in every behaviour.
THEOREM OneHandlerAtATime == Spec => []OneAtWork
  <1>1. Inv => OneAtWork
    BY DEF Inv, Queues, OneAtWork
  <1> QED BY <1>1, Invariant, PTL

\* Every request under way stands in one of the queues, and the client waits
\* for one of them only.
Lined ==
  /\ \A i \in Slot :
       /\ req[i].stage = "free" => req[i] = Free
       /\ req[i].stage = "reading" => \E k \in 1..Len(inbox) : inbox[k] = i
       /\ req[i].stage \notin {"free", "reading"} => \E k \in 1..Len(lock) : lock[k] = i
  /\ client.waits # 0 => client.waits \in Slot /\ req[client.waits].stage # "free"

\* Nobody waits in vain: a request that is not answered stands in a queue, the
\* one the lock is held by can go on, and a client that waits has such a
\* request.  No order of arrivals, answers, failures and restarts leaves a
\* lock that nobody releases (withSessionLock): what UploadCompletes needs, but
\* for the fairness.
NobodyWaitsInVain ==
  /\ \A i \in Slot : req[i] # Free =>
       (\E k \in DOMAIN inbox : inbox[k] = i) \/ (\E k \in DOMAIN lock : lock[k] = i)
  /\ \A k \in DOMAIN inbox : req[inbox[k]].stage = "reading"
  /\ lock # <<>> => \E stage \in {"locked"} \cup Late : Holds(Head(lock), stage)
  /\ client.waits # 0 => req[client.waits] # Free

\* A move leaves nobody outside of the queues.
LEMMA LinedMove == TypeOK /\ Queues /\ Lined /\ Move =>
    \A i \in Slot :
       /\ req'[i].stage = "free" => req'[i] = Free
       /\ req'[i].stage = "reading" => \E k \in 1..Len(inbox') : inbox'[k] = i
       /\ req'[i].stage \notin {"free", "reading"} => \E k \in 1..Len(lock') : lock'[k] = i
  <1> SUFFICES ASSUME TypeOK, Queues, Lined, Move, NEW j \in Slot
               PROVE  /\ req'[j].stage = "free" => req'[j] = Free
                      /\ req'[j].stage = "reading" => \E k \in 1..Len(inbox') : inbox'[k] = j
                      /\ req'[j].stage \notin {"free", "reading"} =>
                           \E k \in 1..Len(lock') : lock'[k] = j
    OBVIOUS
  <1> DEFINE Goal == /\ req'[j].stage = "free" => req'[j] = Free
                     /\ req'[j].stage = "reading" => \E k \in 1..Len(inbox') : inbox'[k] = j
                     /\ req'[j].stage \notin {"free", "reading"} =>
                          \E k \in 1..Len(lock') : lock'[k] = j
  <1>t. inbox \in Seq(Slot) /\ lock \in Seq(Slot) /\ req \in [Slot -> Request]
    BY DEF TypeOK
  <1>l. /\ req[j].stage = "free" => req[j] = Free
        /\ req[j].stage = "reading" => \E k \in 1..Len(inbox) : inbox[k] = j
        /\ req[j].stage \notin {"free", "reading"} => \E k \in 1..Len(lock) : lock[k] = j
    BY DEF Lined
  <1>1. CASE Resets
    BY <1>1 DEF Resets, Free
  <1>2. CASE Rests
    BY <1>2, <1>l DEF Rests
  <1>3. ASSUME NEW i \in Slot, Arrives(i) PROVE Goal
    <2> DEFINE t == [Free EXCEPT !.stage = "reading", !.body = client.body, !.chunk = client.offset]
    <2>1. req' = [req EXCEPT ![i] = t] /\ t.stage = "reading"
      BY <1>3 DEF Arrives, Free
    <2> HIDE DEF t
    <2>2. /\ Len(inbox') = Len(inbox) + 1 /\ inbox'[Len(inbox) + 1] = i
          /\ \A k \in 1..Len(inbox) : inbox'[k] = inbox[k]
      BY <1>3, <1>t, AppendProperties DEF Arrives
    <2>3. lock' = lock
      BY <1>3 DEF Arrives
    <2>4. \A k \in 1..Len(inbox) : k \in 1..Len(inbox')
      BY <2>2, <1>t
    <2>5. Len(inbox) + 1 \in 1..Len(inbox')
      BY <2>2, <1>t
    <2>6. CASE j = i
      BY <2>1, <2>2, <2>5, <2>6, <1>t
    <2>7. CASE j # i
      <3>1. req'[j] = req[j]
        BY <2>1, <2>7, <1>t
      <3> QED BY <3>1, <2>2, <2>3, <2>4, <1>l
    <2> QED BY <2>6, <2>7
  <1>4. ASSUME NEW i \in Slot, NEW k \in 1..Len(inbox), Enters(i, k) \/ IsDenied(i, k) PROVE Goal
    <2>1. /\ inbox[k] = i /\ Len(inbox') = Len(inbox) - 1
          /\ \A n \in 1..(Len(inbox) - 1) : inbox'[n] = inbox[IF n < k THEN n ELSE n + 1]
      BY <1>4, <1>t, Removal DEF Enters, IsDenied
    <2>2. ASSUME NEW n \in 1..Len(inbox), n # k
          PROVE  \E m \in 1..Len(inbox') : inbox'[m] = inbox[n]
      <3>1. CASE n < k
        <4>1. n \in 1..(Len(inbox) - 1)
          BY <3>1, <1>t
        <4> QED BY <2>1, <3>1, <4>1
      <3>2. CASE n > k
        <4>1. n - 1 \in 1..(Len(inbox) - 1) /\ ~(n - 1 < k) /\ (n - 1) + 1 = n
          BY <3>2, <1>t
        <4> QED BY <2>1, <4>1
      <3> QED BY <2>2, <3>1, <3>2
    <2>3. \A n \in 1..Len(lock) : \E m \in 1..Len(lock') : lock'[m] = lock[n]
      <3>1. CASE Enters(i, k)
        <4>1. Len(lock') = Len(lock) + 1 /\ \A m \in 1..Len(lock) : lock'[m] = lock[m]
          BY <3>1, <1>t, AppendProperties DEF Enters
        <4> QED BY <4>1, <1>t
      <3>2. CASE IsDenied(i, k)
        BY <3>2 DEF IsDenied
      <3> QED BY <1>4, <3>1, <3>2
    <2>4. CASE j # i
      <3>1. req'[j] = req[j]
        BY <1>4, <2>4, <1>t DEF Enters, IsDenied
      <3>2. req[j].stage = "reading" => \E m \in 1..Len(inbox') : inbox'[m] = j
        BY <1>l, <2>1, <2>2, <2>4
      <3>3. req[j].stage \notin {"free", "reading"} => \E m \in 1..Len(lock') : lock'[m] = j
        BY <1>l, <2>3
      <3> QED BY <1>l, <3>1, <3>2, <3>3
    <2>5. CASE j = i /\ Enters(i, k)
      <3>1. req'[j].stage = "locked"
        BY <2>5, <1>t DEF Enters, Request
      <3>2. Len(lock') = Len(lock) + 1 /\ lock'[Len(lock) + 1] = i
        BY <2>5, <1>t, AppendProperties DEF Enters
      <3>3. Len(lock) + 1 \in 1..Len(lock')
        BY <3>2, <1>t
      <3> QED BY <2>5, <3>1, <3>2, <3>3
    <2>6. CASE j = i /\ IsDenied(i, k)
      <3>1. req'[j] = Free
        BY <2>6, <1>t DEF IsDenied
      <3> QED BY <3>1 DEF Free
    <2> QED BY <1>4, <2>4, <2>5, <2>6
  <1>5. ASSUME NEW i \in Slot, GetsOn(i) PROVE Goal
    <2>1. req'[i].stage \in Late /\ \A m \in Slot : m # i => req'[m] = req[m]
      BY <1>5, <1>t DEF GetsOn
    <2>2. inbox' = inbox /\ lock' = lock /\ req[i].stage \notin {"free", "reading"}
      BY <1>5 DEF GetsOn, IsFirst
    <2> QED BY <1>l, <2>1, <2>2 DEF Late
  <1>6. ASSUME NEW i \in Slot, Leaves(i) PROVE Goal
    <2>1. lock # <<>> /\ lock[1] = i
      BY <1>6, <1>t DEF Leaves, IsFirst
    <2>2. req'[i] = Free /\ \A m \in Slot : m # i => req'[m] = req[m]
      BY <1>6, <1>t DEF Leaves
    <2>3. /\ inbox' = inbox /\ Len(lock') = Len(lock) - 1
          /\ \A m \in 1..(Len(lock) - 1) : lock'[m] = lock[m + 1]
      BY <1>6, <1>t, <2>1, Rest DEF Leaves
    <2>4. CASE j = i
      BY <2>2, <2>4 DEF Free
    <2>5. CASE j # i
      <3>1. ASSUME NEW n \in 1..Len(lock), lock[n] = j PROVE \E m \in 1..Len(lock') : lock'[m] = j
        <4>1. n # 1
          BY <2>1, <2>5, <3>1
        <4>2. n - 1 \in 1..(Len(lock) - 1) /\ (n - 1) + 1 = n
          BY <4>1, <1>t
        <4> QED BY <2>3, <3>1, <4>2
      <3> QED BY <1>l, <2>2, <2>3, <2>5, <3>1
    <2> QED BY <2>4, <2>5
  <1> QED BY <1>1, <1>2, <1>3, <1>4, <1>5, <1>6 DEF Move

\* The client that goes on waiting waits for the same request, and that one is
\* not answered.
LEMMA Waits ==
  ASSUME TypeOK, [Next]_vars
  PROVE  \/ client'.waits = 0
         \/ client'.waits \in Slot /\ req'[client'.waits].stage # "free"
         \/ /\ client'.waits = client.waits
            /\ \/ req' = req
               \/ \E i \in Slot \ {client.waits} : \A j \in Slot \ {i} : req'[j] = req[j]
               \/ \E i \in Slot : /\ req'[i].stage # "free"
                                  /\ \A j \in Slot \ {i} : req'[j] = req[j]
  <1> DEFINE Goal == \/ client'.waits = 0
                     \/ client'.waits \in Slot /\ req'[client'.waits].stage # "free"
                     \/ /\ client'.waits = client.waits
                        /\ \/ req' = req
                           \/ \E i \in Slot \ {client.waits} : \A j \in Slot \ {i} : req'[j] = req[j]
                           \/ \E i \in Slot : /\ req'[i].stage # "free"
                                              /\ \A j \in Slot \ {i} : req'[j] = req[j]
  <1>t. req \in [Slot -> Request]
    BY DEF TypeOK
  <1>r. ASSUME NEW i \in Slot, NEW status, Reply(i, status) PROVE Goal
    <2>1. \A j \in Slot \ {i} : req'[j] = req[j]
      BY <1>r, <1>t DEF Reply
    <2>2. client.waits # i => client' = client
      BY <1>r DEF Reply, Hears
    <2>3. client.waits = i => client'.waits = 0
      BY <1>r DEF Reply, Hears, TypeOK
    <2> QED BY <2>1, <2>2, <2>3
  <1>g. ASSUME NEW i \in Slot, NEW t \in Request, t.stage # "free",
               req' = [req EXCEPT ![i] = t], client' = client
        PROVE  Goal
    <2>1. req'[i] = t /\ \A j \in Slot \ {i} : req'[j] = req[j]
      BY <1>g, <1>t
    <2> QED BY <1>g, <2>1
  <1>1. CASE NextBody \/ GiveUp \/ Restart
    BY <1>1 DEF NextBody, GiveUp, Restart, TypeOK
  <1>2. CASE SweepScratch \/ GrowOld \/ SweepStep \/ RequestErasure \/ EraserStep \/ UNCHANGED vars
    <2>1. client' = client /\ req' = req
      BY <1>2 DEF SweepScratch, GrowOld, SweepStep, SweepStarts, SweepPurges, SweepClears,
                  SweepLists, SweepChecks, SweepCollects, SweepPurgeFails, SweepCollectFails,
                  RequestErasure, EraserStep, EraserStarts, EraserRemoves, EraserDeletes,
                  EraserFails, vars
    <2> QED BY <2>1
  <1>3. ASSUME NEW i \in Slot, Send(i) PROVE Goal
    <2> DEFINE t == [Free EXCEPT !.stage = "reading", !.body = client.body, !.chunk = client.offset]
    <2>1. req' = [req EXCEPT ![i] = t] /\ t.stage = "reading"
      BY <1>3 DEF Send, Free
    <2> HIDE DEF t
    <2>2. req'[i].stage = "reading" /\ client'.waits = i
      BY <1>3, <2>1, <1>t DEF Send, TypeOK
    <2> QED BY <2>2
  <1>4. ASSUME NEW i \in Slot, ReadRow(i) PROVE Goal
    <2>1. CASE row.exists
      <3>1. /\ client' = client /\ row.uploaded \in BOOLEAN
            /\ req' = [req EXCEPT ![i].stage = "locked", ![i].uploaded = row.uploaded]
        BY <1>4, <2>1 DEF ReadRow, TypeOK
      <3>2. req'[i].stage = "locked" /\ \A j \in Slot \ {i} : req'[j] = req[j]
        BY <3>1, <1>t DEF Request
      <3> QED BY <3>1, <3>2
    <2>2. CASE ~row.exists
      BY <1>4, <1>r, <2>2 DEF ReadRow
    <2> QED BY <2>1, <2>2
  <1>5. ASSUME NEW i \in Slot, WriteChunk(i) PROVE Goal
    <2>1. CASE \E status \in {202, 409} : Answer(i, status)
      BY <1>r, <2>1 DEF Answer
    <2>2. CASE ~\E status \in {202, 409} : Answer(i, status)
      <3>1. /\ client' = client
            /\ \E c : req' = [req EXCEPT ![i].stage = "assembled", ![i].content = c]
        BY <1>5, <2>2 DEF WriteChunk
      <3>2. req'[i].stage = "assembled" /\ \A j \in Slot \ {i} : req'[j] = req[j]
        BY <3>1, <1>t DEF Request
      <3> QED BY <3>1, <3>2
    <2> QED BY <2>1, <2>2
  <1>6. ASSUME NEW i \in Slot, Skip(i) \/ PutFails(i) \/ Record(i) \/ RecordFails(i) PROVE Goal
    <2>1. \E status \in {201, 500, 503} : Reply(i, status)
      BY <1>6 DEF Skip, PutFails, Record, RecordFails, Acknowledge, Answer
    <2> QED BY <1>r, <2>1
  <1>7. ASSUME NEW i \in Slot, Process(i) \/ Put(i) PROVE Goal
    <2>1. CASE Reply(i, 500)
      BY <1>r, <2>1
    <2>2. CASE ~Reply(i, 500)
      <3>1. client' = client /\ \E st \in {"processed", "put"} : req' = [req EXCEPT ![i].stage = st]
        BY <1>7, <2>2 DEF Process, Put, Answer
      <3>2. req'[i].stage \in {"processed", "put"} /\ \A j \in Slot \ {i} : req'[j] = req[j]
        BY <3>1, <1>t DEF Request
      <3> QED BY <3>1, <3>2
    <2> QED BY <2>1, <2>2
  <1> QED BY <1>1, <1>2, <1>3, <1>4, <1>5, <1>6, <1>7 DEF Next, Handle

\* No step leaves anybody outside.
LEMMA LinedStep == Inv /\ Lined /\ [Next]_vars => Lined'
  <1> SUFFICES ASSUME Inv, Lined, [Next]_vars PROVE Lined'
    OBVIOUS
  <1>1. TypeOK /\ Queues /\ Contents /\ Move
    BY Moves DEF Inv
  <1>2. client'.waits # 0 => client'.waits \in Slot /\ req'[client'.waits].stage # "free"
    <2>1. client.waits # 0 => client.waits \in Slot /\ req[client.waits].stage # "free"
      BY DEF Lined
    <2> HIDE DEF vars
    <2> QED BY <1>1, <2>1, Waits
  <1> QED BY <1>1, <1>2, LinedMove DEF Lined

\* The invariant and the queues leave nobody waiting in vain.
LEMMA LinedMeans == Inv /\ Lined => NobodyWaitsInVain
  <1> SUFFICES ASSUME Inv, Lined PROVE NobodyWaitsInVain
    OBVIOUS
  <1>1. inbox \in Seq(Slot) /\ lock \in Seq(Slot) /\ req \in [Slot -> Request] /\ Queues
    BY DEF Inv, TypeOK
  <1>2. DOMAIN inbox = 1..Len(inbox) /\ DOMAIN lock = 1..Len(lock)
    BY <1>1
  <1>3. \A i \in Slot : req[i] # Free =>
          (\E k \in 1..Len(inbox) : inbox[k] = i) \/ (\E k \in 1..Len(lock) : lock[k] = i)
    BY DEF Lined
  <1>4. lock # <<>> => \E stage \in {"locked"} \cup Late : Holds(Head(lock), stage)
    <2> SUFFICES ASSUME lock # <<>> PROVE \E stage \in {"locked"} \cup Late : Holds(Head(lock), stage)
      OBVIOUS
    <2>1. 1 \in 1..Len(lock) /\ Head(lock) = lock[1] /\ lock[1] \in Slot
      BY <1>1
    <2>2. req[Head(lock)].stage \in Stage \ {"free", "reading"}
      BY <1>1, <2>1 DEF Queues, Request
    <2> QED BY <2>2 DEF Stage, Late, Holds
  <1>5. client.waits # 0 => req[client.waits] # Free
    BY DEF Lined, Free
  <1> QED BY <1>1, <1>2, <1>3, <1>4, <1>5 DEF NobodyWaitsInVain, Queues

\* NobodyWaitsInVain holds in every behaviour.
THEOREM LockIsReleased == Spec => []NobodyWaitsInVain
  <1>1. Init => Lined
    BY DEF Init, Lined, Free
  <1> QED BY <1>1, LinedStep, LinedMeans, Invariant, PTL DEF Spec

-----------------------------------------------------------------------------
(* The end.                                                                *)

\* Nothing brings a deleted session back, and with its lock released nothing
\* is left that could store its transcript again: an upload that has read the
\* row before it went is the last that can (withSessionLock, runDeletions).
GoneForGood ==
  [][~row.exists /\ lock = <<>> =>
       ~row.exists' /\ lock' = <<>> /\ object' \in {object, 0}]_vars

\* No step takes a deleted session anywhere else.
LEMMA GoneStep ==
  ASSUME Inv, [Next]_vars, ~row.exists, lock = <<>>
  PROVE  ~row.exists' /\ lock' = <<>> /\ object' \in {object, 0}
  <1> USE DEF vars
  <1>0. TypeOK /\ Queues
    BY DEF Inv
  <1>1. ASSUME NEW i \in Slot, Send(i) \/ ReadRow(i)
        PROVE  ~row.exists' /\ lock' = <<>> /\ object' \in {object, 0}
    BY <1>1 DEF Send, ReadRow
  <1>2. ASSUME NEW i \in Slot, Handle(i) PROVE ReadRow(i)
    BY <1>2 DEF Handle, WriteChunk, Skip, Process, Put, PutFails, Record, RecordFails, Holds
  <1>3. CASE NextBody \/ GiveUp \/ Restart \/ SweepScratch \/ GrowOld \/ UNCHANGED vars
    BY <1>0, <1>3 DEF NextBody, GiveUp, Restart, SweepScratch, GrowOld, TypeOK
  <1>4. CASE SweepStep
    BY <1>0, <1>4 DEF SweepStep, SweepStarts, SweepPurges, SweepClears, SweepLists, SweepChecks,
                SweepCollects, SweepPurgeFails, SweepCollectFails, RemoveObject
  <1>5. CASE RequestErasure \/ EraserStep
    BY <1>0, <1>5 DEF RequestErasure, EraserStep, EraserStarts, EraserRemoves, EraserDeletes,
                EraserFails, RemoveObject
  <1> QED BY <1>1, <1>2, <1>3, <1>4, <1>5 DEF Next

\* GoneForGood holds of every behaviour.
THEOREM NothingReturns == Spec => GoneForGood
  <1>1. Inv /\ [Next]_vars => [~row.exists /\ lock = <<>> =>
          ~row.exists' /\ lock' = <<>> /\ object' \in {object, 0}]_vars
    BY GoneStep
  <1> QED BY <1>1, Invariant, PTL DEF Spec, GoneForGood

\* What is erased stays erased, once the uploads of the deleted session are
\* over.
StaysErased == [](~row.exists /\ lock = <<>> /\ object = 0 => [](object = 0))

\* StaysErased holds of every behaviour: what is left of ErasedInTheEnd is that
\* the sweeps come.
THEOREM ErasedForGood == Spec => StaysErased
  <1> DEFINE Gone == ~row.exists /\ lock = <<>> /\ object = 0
  <1>1. Inv /\ Gone /\ [Next]_vars => Gone'
    BY GoneStep
  <1>2. Gone => object = 0
    OBVIOUS
  <1> HIDE DEF Gone
  <1>3. Spec => [](Gone => [](object = 0))
    BY <1>1, <1>2, Invariant, PTL DEF Spec
  <1> QED BY <1>3 DEF Gone, StaysErased
=============================================================================
