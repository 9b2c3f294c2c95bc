-------------------------- MODULE TranscriptUpload --------------------------
(***************************************************************************)
(* The transcript of one session on the server: the upload endpoint        *)
(* (routes/transcripts.ts) with its per-session lock, its scratch file,    *)
(* the object store and the session row, beside the retention sweep        *)
(* (jobs/sweep-retention.ts), the scratch sweep (jobs/sweep-scratch.ts)    *)
(* and the deletion of the user (jobs/run-deletions.ts), which lock        *)
(* nothing of it.                                                          *)
(*                                                                         *)
(* A handler runs between two awaits at a time.  The client is the shipper *)
(* (ShipMarker): one request at a time, each body from its first chunk or  *)
(* from where that same body stopped.  When it gives a request up, the     *)
(* handler goes on without it.                                             *)
(***************************************************************************)
EXTENDS Integers, Sequences, SequencesExt

CONSTANTS
  MaxBody,    \* the client ships bodies 1..MaxBody, in this order
  Slot,       \* requests that may be under way at a time
  Scenario    \* the settings to look at: see Setting

Body == 1..MaxBody

Fault == {"giveUp",   \* the client stops waiting for an answer
          "restart",  \* the server is restarted
          "slow",     \* a later request reads the session row first
          "s3",       \* the object store fails
          "db",       \* an update of the session row fails
          "scratch",  \* the scratch sweep comes
          "expiry",   \* transcripts grow old
          "erasure"}  \* the user asks to be deleted

Setting == [chunks : [Body -> 1..2],  \* of each body
            shared : BOOLEAN,         \* bodies compress to the same first chunk
            faults : SUBSET Fault]

ASSUME BodyOk == MaxBody \in Nat
ASSUME SlotOk == 0 \notin Slot
ASSUME ScenarioOk == Scenario \subseteq Setting

VARIABLES
  setting,   \* what this behaviour is set in
  client,    \* the shipper
  req,       \* req[i]: the request in slot i
  inbox,     \* requests whose session row is not read, in the order of their arrival
  lock,      \* sessionLocks: who holds the lock, and who waits for it, in order
  scratch,   \* the bodies whose chunks are in the scratch file
  object,    \* the body in the object store, 0 for none
  row,       \* the session row
  sweep,     \* the retention sweep
  eraser,    \* the deletion job
  promised,  \* the newest body acknowledged since the object was removed (ghost)
  overtaken, \* a later request has entered the lock first (ghost)
  crossed    \* an upload and a sweep or deletion have overlapped (ghost)

queues == <<req, inbox, lock>>
jobs == <<sweep, eraser>>
storage == <<object, row>>
ghosts == <<promised, overtaken, crossed>>
vars == <<setting, client, queues, scratch, storage, jobs, ghosts>>

-----------------------------------------------------------------------------
\* A request: its row is not read; it waits for the lock, or its chunk is not
\* written; all of its body is there; it is processed; it is in the store.
Stage == {"free", "reading", "locked", "assembled", "processed", "put"}

Request == [stage    : Stage,
            body     : 0..MaxBody,
            chunk    : 0..1,
            uploaded : BOOLEAN,      \* what the row it read says of the transcript
            content  : 0..MaxBody]   \* what it has assembled, 0 for garbage

\* The sweep: the row it read is expired; its object is deleted; objects are
\* to be listed; the one there is has to be looked up; it is an orphan.
SweepStage == {"idle", "purge", "clear", "list", "check", "collect"}

Free == [stage |-> "free", body |-> 0, chunk |-> 0, uploaded |-> FALSE, content |-> 0]

\* `known`: the object is one the sweep has purged; `busy`: an upload has been
\* under way since the sweep began.
Idle == [at |-> "idle", known |-> FALSE, busy |-> FALSE]

TypeOK ==
  /\ setting \in Scenario
  /\ client \in [body : 0..MaxBody, offset : 0..1, done : BOOLEAN, waits : Slot \cup {0}]
  /\ req \in [Slot -> Request]
  /\ inbox \in Seq(Slot) /\ lock \in Seq(Slot)
  /\ scratch \in Seq(Body) /\ Len(scratch) <= 2
  /\ object \in 0..MaxBody
  /\ row \in [exists : BOOLEAN, uploaded : BOOLEAN, expired : BOOLEAN]
  /\ sweep \in [at : SweepStage, known : BOOLEAN, busy : BOOLEAN]
  /\ eraser \in {"none", "requested", "remove", "delete"}
  /\ promised \in 0..MaxBody /\ overtaken \in BOOLEAN /\ crossed \in BOOLEAN

Init ==
  /\ setting \in Scenario
  /\ client = [body |-> 0, offset |-> 0, done |-> TRUE, waits |-> 0]
  /\ req = [i \in Slot |-> Free] /\ inbox = <<>> /\ lock = <<>> /\ scratch = <<>>
  /\ object = 0 /\ row = [exists |-> TRUE, uploaded |-> FALSE, expired |-> FALSE]
  /\ sweep = Idle /\ eraser = "none"
  /\ promised = 0 /\ overtaken = FALSE /\ crossed = FALSE

-----------------------------------------------------------------------------
(* The client.                                                             *)

\* The transcript has grown.
NextBody ==
  /\ client.waits = 0 /\ client.body < MaxBody
  /\ client' = [body |-> client.body + 1, offset |-> 0, done |-> FALSE, waits |-> 0]
  /\ UNCHANGED <<setting, queues, scratch, storage, jobs, ghosts>>

Send(i) ==
  /\ client.waits = 0 /\ ~client.done /\ req[i] = Free
  /\ req' = [req EXCEPT ![i] = [Free EXCEPT !.stage = "reading", !.body = client.body,
                                           !.chunk = client.offset]]
  /\ inbox' = Append(inbox, i)
  /\ client' = [client EXCEPT !.waits = i]
  /\ UNCHANGED <<setting, lock, scratch, storage, jobs, ghosts>>

GiveUp ==
  /\ "giveUp" \in setting.faults /\ client.waits # 0
  /\ client' = [client EXCEPT !.waits = 0]
  /\ UNCHANGED <<setting, queues, scratch, storage, jobs, ghosts>>

\* Slip: the client resumes where it was after 409.
HearsStubbornly(i, status) ==
  client' = IF client.waits # i THEN client
            ELSE [client EXCEPT !.waits = 0,
                                !.offset = IF status = 202 THEN 1 ELSE @,
                                !.done = @ \/ status = 201]

\* What the client makes of the answer, if it still waits for it: go on after
\* 202, start over after 409, be done after 2xx, and come back later otherwise.
Hears(i, status) ==
  client' = IF client.waits # i THEN client
            ELSE [client EXCEPT !.waits = 0,
                                !.offset = CASE status = 202 -> 1 [] status = 409 -> 0 [] OTHER -> @,
                                !.done = @ \/ status = 201]

Reply(i, status) == Hears(i, status) /\ req' = [req EXCEPT ![i] = Free]

\* The handler ends, and lets the next one in.
Answer(i, status) == Reply(i, status) /\ lock' = Tail(lock) /\ UNCHANGED inbox

-----------------------------------------------------------------------------
(* The endpoint.                                                           *)

\* findUnique, and the place in the chain of locks that comes with it.
ReadRow(i) ==
  /\ \E k \in DOMAIN inbox :
       /\ inbox[k] = i
       /\ k = 1 \/ "slow" \in setting.faults
       /\ inbox' = RemoveAt(inbox, k)
       /\ overtaken' = (overtaken \/ k # 1)
  /\ IF row.exists
     THEN /\ req' = [req EXCEPT ![i].stage = "locked", ![i].uploaded = row.uploaded]
          /\ lock' = Append(lock, i)
          /\ UNCHANGED client
     ELSE Reply(i, 404) /\ UNCHANGED lock
  /\ sweep' = [sweep EXCEPT !.busy = sweep.at # "idle"]
  /\ UNCHANGED <<setting, scratch, storage, eraser, promised, crossed>>

Holds(i, stage) == req[i].stage = stage /\ lock # <<>> /\ Head(lock) = i

LastChunk(i) == req[i].chunk + 1 = setting.chunks[req[i].body]

\* What the chunks of these bodies make, as a body.
Assembled(q) ==
  LET b == Last(q) IN
  IF \A k \in DOMAIN q : q[k] = b \/ (setting.shared /\ k < Len(q)) THEN b ELSE 0

\* Slip: every chunk is appended.
WriteChunkAfterAll(i) ==
  /\ Holds(i, "locked")
  /\ LET parts == Append(scratch, req[i].body) IN
     IF LastChunk(i)
     THEN /\ req' = [req EXCEPT ![i].stage = "assembled", ![i].content = Assembled(parts)]
          /\ scratch' = <<>>
          /\ UNCHANGED <<client, inbox, lock>>
     ELSE scratch' = parts /\ Answer(i, 202)
  /\ UNCHANGED <<setting, storage, jobs, ghosts>>

\* The first chunk starts the scratch file anew; another one must begin where
\* the file ends.
WriteChunk(i) ==
  /\ Holds(i, "locked")
  /\ LET parts == IF req[i].chunk = 0 THEN <<req[i].body>> ELSE Append(scratch, req[i].body) IN
     IF req[i].chunk # 0 /\ Len(scratch) # req[i].chunk
     THEN Answer(i, 409) /\ UNCHANGED scratch
     ELSE IF LastChunk(i)
     THEN /\ req' = [req EXCEPT ![i].stage = "assembled", ![i].content = Assembled(parts)]
          /\ scratch' = <<>>
          /\ UNCHANGED <<client, inbox, lock>>
     ELSE scratch' = parts /\ Answer(i, 202)
  /\ UNCHANGED <<setting, storage, jobs, ghosts>>

\* 2xx: the client will not ship this body again.  (An object that is removed
\* before that counts as removed after it.)
Acknowledge(i) ==
  /\ promised' = IF object # 0 /\ req[i].content > promised THEN req[i].content ELSE promised
  /\ Answer(i, 201)

\* Slip: it is enough that a transcript is stored.
SkipOnExistence(i) ==
  /\ Holds(i, "assembled") /\ req[i].content # 0
  /\ req[i].uploaded /\ object # 0
  /\ Acknowledge(i)
  /\ UNCHANGED <<setting, scratch, storage, jobs, overtaken, crossed>>

\* The very same upload is stored already, says the row it read back then.
Skip(i) ==
  /\ Holds(i, "assembled") /\ req[i].content # 0
  /\ req[i].uploaded /\ object = req[i].content
  /\ Acknowledge(i)
  /\ UNCHANGED <<setting, scratch, storage, jobs, overtaken, crossed>>

\* processTranscript.  Chunks of two bodies do not decompress: 500.
Process(i) ==
  /\ Holds(i, "assembled")
  /\ ~(req[i].uploaded /\ req[i].content # 0 /\ object = req[i].content)
  /\ IF req[i].content = 0
     THEN Answer(i, 500)
     ELSE req' = [req EXCEPT ![i].stage = "processed"] /\ UNCHANGED <<client, inbox, lock>>
  /\ UNCHANGED <<setting, scratch, storage, jobs, ghosts>>

Put(i) ==
  /\ Holds(i, "processed")
  /\ object' = req[i].content
  /\ req' = [req EXCEPT ![i].stage = "put"]
  /\ UNCHANGED <<setting, client, inbox, lock, scratch, row, jobs, ghosts>>

\* Slip: the row is updated first.
PutFailsLate(i) ==
  /\ Holds(i, "processed") /\ "s3" \in setting.faults
  /\ row' = IF row.exists THEN [row EXCEPT !.uploaded = TRUE, !.expired = FALSE] ELSE row
  /\ Answer(i, 503)
  /\ UNCHANGED <<setting, scratch, object, jobs, ghosts>>

\* 503.
PutFails(i) ==
  /\ Holds(i, "processed") /\ "s3" \in setting.faults
  /\ Answer(i, 503)
  /\ UNCHANGED <<setting, scratch, storage, jobs, ghosts>>

\* session.update: there may be no row any more.
Record(i) ==
  /\ Holds(i, "put") /\ row.exists
  /\ row' = [row EXCEPT !.uploaded = TRUE, !.expired = FALSE]
  /\ Acknowledge(i)
  /\ UNCHANGED <<setting, scratch, object, jobs, overtaken, crossed>>

RecordFails(i) ==
  /\ Holds(i, "put")
  /\ ~row.exists \/ "db" \in setting.faults
  /\ Answer(i, 500)
  /\ UNCHANGED <<setting, scratch, storage, jobs, ghosts>>

\* The process goes, and with it the locks; the scratch file may survive.
Restart ==
  /\ "restart" \in setting.faults /\ \E i \in Slot : req[i] # Free
  /\ req' = [i \in Slot |-> Free] /\ inbox' = <<>> /\ lock' = <<>>
  /\ client' = [client EXCEPT !.waits = 0]
  /\ scratch' \in {scratch, <<>>}
  /\ sweep' = Idle
  /\ eraser' = IF eraser \in {"remove", "delete"} THEN "requested" ELSE eraser
  /\ UNCHANGED <<setting, storage, ghosts>>

-----------------------------------------------------------------------------
(* Sweeps.                                                                 *)

\* A scratch file that was not written to for hours.
SweepScratch ==
  /\ "scratch" \in setting.faults /\ scratch # <<>>
  /\ \A i \in Slot : req[i] = Free
  /\ scratch' = <<>>
  /\ UNCHANGED <<setting, client, queues, storage, jobs, ghosts>>

GrowOld ==
  /\ "expiry" \in setting.faults /\ row.uploaded /\ ~row.expired
  /\ \A i \in Slot : req[i] = Free
  /\ sweep.at = "idle"
  /\ row' = [row EXCEPT !.expired = TRUE]
  /\ UNCHANGED <<setting, client, queues, scratch, object, jobs, ghosts>>

Uploading == \E i \in Slot : req[i].stage \notin {"free", "reading"}

RemoveObject ==
  /\ object' = 0 /\ promised' = 0
  /\ crossed' = (crossed \/ sweep.busy)

\* Slip: a retention of 0 days means 0 days.
SweepStartsAtOnce ==
  /\ sweep.at = "idle"
  /\ object # 0 \/ row.uploaded
  /\ LET expired == row.exists /\ row.uploaded IN
     sweep' = [at |-> IF expired THEN "purge" ELSE "list", known |-> expired, busy |-> Uploading]
  /\ UNCHANGED <<setting, client, queues, scratch, storage, eraser, ghosts>>

\* Rows that are expired are read before anything is deleted.
SweepStarts ==
  /\ sweep.at = "idle"
  /\ object # 0 \/ row.uploaded
  /\ LET expired == row.exists /\ row.uploaded /\ row.expired IN
     sweep' = [at |-> IF expired THEN "purge" ELSE "list", known |-> expired, busy |-> Uploading]
  /\ UNCHANGED <<setting, client, queues, scratch, storage, eraser, ghosts>>

SweepTo(stage) == sweep' = [sweep EXCEPT !.at = stage]

SweepPurges ==
  /\ sweep.at = "purge"
  /\ RemoveObject /\ SweepTo("clear")
  /\ UNCHANGED <<setting, client, queues, scratch, row, eraser, overtaken>>

\* A failure of either half of a purge leaves the row to the next sweep.
SweepPurgeFails ==
  /\ \/ sweep.at = "purge" /\ "s3" \in setting.faults
     \/ sweep.at = "clear" /\ (~row.exists \/ "db" \in setting.faults)
  /\ SweepTo("list")
  /\ UNCHANGED <<setting, client, queues, scratch, storage, eraser, ghosts>>

SweepClears ==
  /\ sweep.at = "clear" /\ row.exists
  /\ row' = [row EXCEPT !.uploaded = FALSE, !.expired = FALSE]
  /\ SweepTo("list")
  /\ UNCHANGED <<setting, client, queues, scratch, object, eraser, ghosts>>

SweepEnds == sweep' = Idle

\* Slip: nobody looks for orphans.
SweepListsNothing ==
  /\ sweep.at = "list"
  /\ SweepEnds
  /\ UNCHANGED <<setting, client, queues, scratch, storage, eraser, ghosts>>

\* Orphans: list the objects, ask which of them a row points to, delete the
\* others.
SweepLists ==
  /\ sweep.at = "list"
  /\ IF object # 0 THEN SweepTo("check") ELSE SweepEnds
  /\ UNCHANGED <<setting, client, queues, scratch, storage, eraser, ghosts>>

SweepChecks ==
  /\ sweep.at = "check"
  /\ IF row.uploaded \/ sweep.known THEN SweepEnds ELSE SweepTo("collect")
  /\ UNCHANGED <<setting, client, queues, scratch, storage, eraser, ghosts>>

SweepCollects ==
  /\ sweep.at = "collect"
  /\ RemoveObject /\ SweepEnds
  /\ UNCHANGED <<setting, client, queues, scratch, row, eraser, overtaken>>

SweepCollectFails ==
  /\ sweep.at = "collect" /\ "s3" \in setting.faults
  /\ SweepEnds
  /\ UNCHANGED <<setting, client, queues, scratch, storage, eraser, ghosts>>

-----------------------------------------------------------------------------
(* Deletion of the user.                                                   *)

RequestErasure ==
  /\ "erasure" \in setting.faults /\ eraser = "none" /\ row.exists
  /\ eraser' = "requested"
  /\ UNCHANGED <<setting, client, queues, scratch, storage, sweep, ghosts>>

\* The job reads the user's sessions, and which of them have a transcript.
EraserStarts ==
  /\ eraser = "requested" /\ row.exists
  /\ eraser' = IF row.uploaded THEN "remove" ELSE "delete"
  /\ UNCHANGED <<setting, client, queues, scratch, storage, sweep, ghosts>>

\* Best effort: a failure is logged.
EraserRemoves ==
  /\ eraser = "remove"
  /\ \/ RemoveObject
     \/ "s3" \in setting.faults /\ UNCHANGED <<object, promised, crossed>>
  /\ eraser' = "delete"
  /\ UNCHANGED <<setting, client, queues, scratch, row, sweep, overtaken>>

\* The user goes, and by cascade the session row.
EraserDeletes ==
  /\ eraser = "delete"
  /\ row' = [exists |-> FALSE, uploaded |-> FALSE, expired |-> FALSE]
  /\ eraser' = "none"
  /\ UNCHANGED <<setting, client, queues, scratch, object, sweep, ghosts>>

EraserFails ==
  /\ eraser = "delete" /\ "db" \in setting.faults
  /\ eraser' = "requested"
  /\ UNCHANGED <<setting, client, queues, scratch, storage, sweep, ghosts>>

-----------------------------------------------------------------------------
Handle(i) ==
  ReadRow(i) \/ WriteChunk(i) \/ Skip(i) \/ Process(i) \/ Put(i) \/ PutFails(i) \/ Record(i)
  \/ RecordFails(i)

SweepStep == SweepStarts \/ SweepPurges \/ SweepClears \/ SweepLists \/ SweepChecks
             \/ SweepCollects \/ SweepPurgeFails \/ SweepCollectFails

EraserStep == EraserStarts \/ EraserRemoves \/ EraserDeletes \/ EraserFails

Next ==
  \/ NextBody \/ GiveUp \/ (\E i \in Slot : Send(i) \/ Handle(i))
  \/ Restart \/ SweepScratch \/ GrowOld
  \/ SweepStep \/ RequestErasure \/ EraserStep

Spec == Init /\ [][Next]_vars

\* What goes wrong.  A row that is gone fails an update whatever happens.
Trouble ==
  \/ Restart \/ GiveUp \/ SweepScratch \/ SweepCollectFails \/ EraserFails
  \/ \E i \in Slot : PutFails(i) \/ (row.exists /\ RecordFails(i))
  \/ (row.exists \/ sweep.at = "purge") /\ SweepPurgeFails

(***************************************************************************)
(* Fairness.  The shipper comes back while it owes a transcript, handlers  *)
(* run, and the jobs run every day.  Storage does not fail, clients do not *)
(* lose patience, the server is not restarted and hours do not pass        *)
(* between two chunks for ever.                                            *)
(***************************************************************************)
FairSpec ==
  /\ Spec
  /\ <>[][~Trouble]_vars
  /\ WF_vars(\E i \in Slot : Send(i)) /\ WF_vars(\E i \in Slot : Handle(i))
  /\ WF_vars(SweepStep) /\ WF_vars(EraserStep)

-----------------------------------------------------------------------------
(* Properties.                                                             *)

\* What the endpoint promises, as long as requests enter the lock in the order
\* in which they were sent: see TranscriptStore (withSessionLock, the upload
\* hash kept with the object).
Promise == INSTANCE TranscriptStore WITH
  kept <- IF overtaken THEN 0 ELSE object, promised <- IF overtaken THEN 0 ELSE promised

KeepsItsPromise == Promise!Spec

\* A transcript that is not too old loses its object to the deletion of its
\* user only, or to a sweep that an upload has overlapped: neither the expiry
\* nor the hunt for orphans takes what a row was pointing to all along
\* (runSweepRetention).
FreshIsKept ==
  [][object # 0 /\ object' = 0 /\ row.uploaded /\ ~row.expired =>
       eraser # "none" \/ sweep.busy]_vars

\* With no request and no job under way, a row that points to a transcript
\* points to one that is there, unless an upload and a sweep have overlapped:
\* failures, restarts and partial purges leave orphans, never dangling
\* pointers (the order of putObject and session.update, and of the halves of
\* a purge; a purge half done leaves the row expired, for the next sweep).
PointerHolds ==
  /\ \A i \in Slot : req[i] = Free
  /\ sweep.at = "idle" /\ eraser = "none"
  /\ row.uploaded /\ ~row.expired
  => object # 0 \/ crossed

\* Once the user has asked for deletion the transcript is gone for good in the
\* end, although uploads under way may store it again after the job has
\* removed it (runDeletions, the sweep for orphans).
ErasedInTheEnd == eraser = "requested" ~> [](object = 0)

\* The client gets every transcript stored, or its session has been deleted:
\* neither chunks of other bodies in the scratch file nor scratch files that
\* are gone hold it up for good (the 409 answer).
UploadCompletes == ~client.done ~> client.done \/ ~row.exists
=============================================================================
