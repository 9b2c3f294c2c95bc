---------------------------- MODULE IngestEvents ----------------------------
(* How a batch of events becomes rows: POST /v1/events inserts the events   *)
(* and adds the new ones to their sessions' rows in one transaction         *)
(* (apps/ingest: routes/events.ts, lib/insert-events.ts,                    *)
(* lib/upsert-session.ts), while the flusher of the machine (EventQueue)    *)
(* posts a batch again until it is answered and the abandoned-session sweep *)
(* (jobs/sweep-abandoned.ts) closes rows behind it.                         *)
(*                                                                          *)
(* The database runs READ COMMITTED: a statement sees what is committed     *)
(* when it starts and what its own transaction wrote; an INSERT waits for   *)
(* another open transaction that inserted the same key, and an upsert keeps *)
(* its row locked until its transaction ends.                               *)
(*                                                                          *)
(* An event's number is its timestamp.  Left out: the costs and the columns *)
(* of a session that are filled in once (repo, team, Jira key), which no    *)
(* property tells apart; the upserts of repos before the transaction.       *)
EXTENDS Integers, FiniteSets, FiniteSetsExt

CONSTANTS
  MaxEvent,   \* how many events the machine has queued (bound)
  Session,
  Request,    \* slots for requests the server is working on (bound)
  BatchCap,   \* how many events a batch may hold (bound of the instance)
  MaxFaults,  \* how often a request may fail or be given up (bound)
  Scenario    \* the settings to explore

Event == 1..MaxEvent
Kind == {"INTERACTIVE", "CI", "EVAL"}

\* A setting: each event's session and run kind as the client sends them, the
\* events that end their session, and those the schema rejects.
Setting == [session: [Event -> Session], claim: [Event -> Kind],
            ends: SUBSET Event, invalid: SUBSET Event]

ASSUME BoundsAssumption ==
  /\ MaxEvent \in Nat \ {0}
  /\ BatchCap \in Nat \ {0}
  /\ MaxFaults \in Nat
  /\ IsFiniteSet(Request)
ASSUME ScenarioAssumption == Scenario \subseteq Setting

NoEvent == 0
Absent == "absent"
NoRow == [total |-> 0, started |-> 0, last |-> 0, ended |-> NoEvent,
          status |-> "none", kind |-> "INTERACTIVE"]
Row == [total: 0..MaxEvent, started: 0..MaxEvent, last: 0..MaxEvent,
        ended: 0..MaxEvent, status: {"none", "ACTIVE", "COMPLETED", "ABANDONED"},
        kind: Kind]
Idle == [at |-> "idle", listening |-> FALSE, batch |-> {}, fresh |-> {},
         settled |-> {}, todo |-> {}, held |-> {}, kinds |-> [e \in Event |-> Absent],
         rows |-> [s \in Session |-> NoRow]]

VARIABLES
  setting,   \* what the events are (chosen once)
  unacked,   \* events the machine still has queued
  tx,        \* the requests, each with the uncommitted writes of its transaction
  stored,    \* run_kind of each committed row of events
  row,       \* committed rows of sessions
  faults     \* what went wrong so far

vars == <<setting, unacked, tx, stored, row, faults>>

Claim(e) == setting.claim[e]
Of(s) == {e \in Event : setting.session[e] = s}
Stored == {e \in Event : stored[e] # Absent}

\* mergeRunKind: the first claim that is not the wire default stays.
MergeRunKind(current, incoming) ==
  IF current = "INTERACTIVE" THEN incoming ELSE current

\* The merge over a set of events in the order they are in a batch.
MergedKind(S) ==
  LET claims == {e \in S : Claim(e) # "INTERACTIVE"}
  IN  IF claims = {} THEN "INTERACTIVE" ELSE Claim(Min(claims))

(***************************************************************************)
(* A request.                                                              *)
(***************************************************************************)

Init ==
  /\ setting \in Scenario
  /\ unacked = Event
  /\ tx = [r \in Request |-> Idle]
  /\ stored = [e \in Event |-> Absent]
  /\ row = [s \in Session |-> NoRow]
  /\ faults = 0

\* The flusher posts events that are due: backoff and the isolation of poisoned
\* rows leave any of them behind.  It waits for one answer at a time.  Events
\* the schema rejects are dropped from the batch, not from the acknowledgement.
Post(r, batch) ==
  /\ tx[r].at = "idle"
  /\ \A q \in Request : ~tx[q].listening
  /\ batch \subseteq unacked /\ batch # {} /\ Cardinality(batch) <= BatchCap
  /\ tx' = [tx EXCEPT ![r] = [Idle EXCEPT !.at = "insert", !.listening = TRUE,
                                          !.batch = batch]]
  /\ UNCHANGED <<setting, unacked, stored, row, faults>>

\* Slip: the session totals are fed the whole batch, not what RETURNING lists.
InsertEventsBatchUncounted(r) ==
  LET events == tx[r].batch \ setting.invalid
  IN  /\ tx[r].at = "insert"
      /\ tx' = [tx EXCEPT
           ![r].at = IF events = {} THEN "commit" ELSE "probe",
           ![r].fresh = events,
           ![r].todo = {setting.session[e] : e \in events},
           ![r].kinds = [e \in Event |-> IF e \in events THEN Claim(e) ELSE Absent]]
      /\ UNCHANGED <<setting, unacked, stored, row, faults>>

\* Slip: the events are committed before their sessions are looked at.
InsertEventsBatchApart(r) ==
  LET events == tx[r].batch \ setting.invalid
      fresh == events \ Stored
  IN  /\ tx[r].at = "insert"
      /\ stored' = [e \in Event |-> IF e \in fresh THEN Claim(e) ELSE stored[e]]
      /\ tx' = [tx EXCEPT
           ![r].at = IF fresh = {} THEN "commit" ELSE "probe",
           ![r].fresh = fresh, ![r].todo = {setting.session[e] : e \in fresh}]
      /\ UNCHANGED <<setting, unacked, row, faults>>

\* INSERT ... ON CONFLICT DO NOTHING RETURNING event_id.  One run kind per
\* session for the whole batch, the events that are not new included.
InsertEventsBatch(r) ==
  LET events == tx[r].batch \ setting.invalid
      fresh == events \ Stored
  IN  /\ tx[r].at = "insert"
      /\ \A q \in Request \ {r} : tx[q].fresh \cap events = {}
      /\ tx' = [tx EXCEPT
           ![r].at = IF fresh = {} THEN "commit" ELSE "probe",
           ![r].fresh = fresh,
           ![r].todo = {setting.session[e] : e \in fresh},
           ![r].kinds = [e \in Event |->
              IF e \in fresh THEN MergedKind(events \cap Of(setting.session[e])) ELSE Absent]]
      /\ UNCHANGED <<setting, unacked, stored, row, faults>>

Fresh(r, s) == tx[r].fresh \cap Of(s)
Claiming(r) == {s \in Session : MergedKind(Fresh(r, s)) # "INTERACTIVE"}

\* Which of the sessions this batch claims for a pipeline are already recorded
\* as one.
Probe(r) ==
  /\ tx[r].at = "probe"
  /\ tx' = [tx EXCEPT ![r].at = "upsert",
                      ![r].settled = {s \in Claiming(r) : row[s].kind # "INTERACTIVE"}]
  /\ UNCHANGED <<setting, unacked, stored, row, faults>>

FirstEnd(S) ==
  LET ends == S \cap setting.ends IN IF ends = {} THEN NoEvent ELSE Min(ends)

\* What the accumulator of a batch makes of a row.
Upserted(old, S) ==
  IF old.status = "none"
  THEN [total |-> Cardinality(S), started |-> Min(S), last |-> Max(S),
        ended |-> FirstEnd(S),
        status |-> IF FirstEnd(S) # NoEvent THEN "COMPLETED" ELSE "ACTIVE",
        kind |-> MergedKind(S)]
  ELSE [total |-> old.total + Cardinality(S), started |-> old.started,
        last |-> Max({old.last, Max(S)}),
        ended |-> IF old.ended # NoEvent THEN old.ended ELSE FirstEnd(S),
        status |-> IF FirstEnd(S) # NoEvent /\ old.ended = NoEvent
                   THEN "COMPLETED" ELSE old.status,
        kind |-> MergeRunKind(old.kind, MergedKind(S))]

\* The sessions of a batch are upserted in the order of their first new event.
Next2Upsert(r, s) ==
  /\ s \in tx[r].todo
  /\ \A t \in tx[r].todo : Min(Fresh(r, s)) <= Min(Fresh(r, t))

UpsertSession(r, s) ==
  /\ tx[r].at = "upsert"
  /\ Next2Upsert(r, s)
  /\ \A q \in Request : s \notin tx[q].held
  /\ tx' = [tx EXCEPT ![r].todo = @ \ {s},
                      ![r].held = @ \cup {s},
                      ![r].rows[s] = Upserted(row[s], Fresh(r, s)),
                      ![r].at = IF tx[r].todo = {s} THEN "fix" ELSE "upsert"]
  /\ UNCHANGED <<setting, unacked, stored, row, faults>>

\* Slip: only the events of this batch are brought in step.
PropagateRunKindOwn(r) ==
  /\ tx[r].at = "fix"
  /\ tx' = [tx EXCEPT ![r].at = "commit",
       ![r].kinds = [e \in Event |->
          IF e \in tx[r].fresh THEN tx[r].rows[setting.session[e]].kind ELSE @[e]]]
  /\ UNCHANGED <<setting, unacked, stored, row, faults>>

\* UPDATE events ... WHERE run_kind IS DISTINCT FROM s.run_kind, for the
\* sessions that just became a pipeline's: the events this statement can see,
\* within the span of the row.
PropagateRunKind(r) ==
  LET escalated == Claiming(r) \ tx[r].settled
      kindOf(e) == IF tx[r].kinds[e] # Absent THEN tx[r].kinds[e] ELSE stored[e]
      reached(e) == LET s == setting.session[e] IN
        /\ s \in escalated
        /\ kindOf(e) # Absent
        /\ e >= tx[r].rows[s].started /\ e <= tx[r].rows[s].last
  IN  /\ tx[r].at = "fix"
      /\ tx' = [tx EXCEPT ![r].at = "commit",
           ![r].kinds = [e \in Event |->
              IF reached(e) THEN tx[r].rows[setting.session[e]].kind ELSE @[e]]]
      /\ UNCHANGED <<setting, unacked, stored, row, faults>>

Commit(r) ==
  /\ tx[r].at = "commit"
  /\ stored' = [e \in Event |-> IF tx[r].kinds[e] # Absent THEN tx[r].kinds[e] ELSE stored[e]]
  /\ row' = [s \in Session |-> IF s \in tx[r].held THEN tx[r].rows[s] ELSE row[s]]
  /\ tx' = [tx EXCEPT ![r] = [Idle EXCEPT !.at = "answer", !.batch = tx[r].batch,
                                          !.listening = tx[r].listening]]
  /\ UNCHANGED <<setting, unacked, faults>>

\* Slip: the flusher deletes only what was accepted.
AnswerAccepted(r) ==
  /\ tx[r].at = "answer"
  /\ unacked' = IF tx[r].listening THEN unacked \ (tx[r].batch \ setting.invalid) ELSE unacked
  /\ tx' = [tx EXCEPT ![r] = Idle]
  /\ UNCHANGED <<setting, stored, row, faults>>

\* 202: the flusher deletes the rows it posted, unless it stopped listening.
Answer(r) ==
  /\ tx[r].at = "answer"
  /\ unacked' = IF tx[r].listening THEN unacked \ tx[r].batch ELSE unacked
  /\ tx' = [tx EXCEPT ![r] = Idle]
  /\ UNCHANGED <<setting, stored, row, faults>>

(***************************************************************************)
(* What goes wrong.                                                        *)
(***************************************************************************)

Open(r) == tx[r].at \in {"insert", "probe", "upsert", "fix", "commit"}

\* Nothing of the transaction stays; the client sees a 5xx and keeps its rows.
RolledBack(r) ==
  /\ tx' = [tx EXCEPT ![r] = Idle]
  /\ UNCHANGED <<setting, unacked, stored, row>>

\* A statement fails, the transaction outlasts 30 s, or the server dies.
Fail(r) ==
  /\ Open(r) /\ faults < MaxFaults
  /\ RolledBack(r)
  /\ faults' = faults + 1

\* The client gives up on the answer; the server goes on.
GiveUp(r) ==
  /\ tx[r].listening /\ faults < MaxFaults
  /\ tx' = [tx EXCEPT ![r].listening = FALSE]
  /\ faults' = faults + 1
  /\ UNCHANGED <<setting, unacked, stored, row>>

Waits(r, q) ==
  /\ r # q /\ tx[r].at = "upsert"
  /\ \E s \in tx[q].held : Next2Upsert(r, s)

\* Two batches upsert the same sessions in opposite orders: the database
\* aborts one of them.
BreakDeadlock(r) ==
  /\ \E q \in Request : Waits(r, q) /\ Waits(q, r)
  /\ RolledBack(r)
  /\ UNCHANGED faults

\* Slip: the rows are picked first and updated whatever they are by then.
SweepAbandonedLate(s) ==
  /\ row[s].status \in {"ACTIVE", "COMPLETED"}
  /\ \A q \in Request : s \notin tx[q].held
  /\ row' = [row EXCEPT ![s].status = "ABANDONED"]
  /\ UNCHANGED <<setting, unacked, tx, stored, faults>>

\* The sweep takes any session it has not heard of for long; it waits for a
\* row that is locked and looks at its status again.
SweepAbandoned(s) ==
  /\ row[s].status = "ACTIVE"
  /\ \A q \in Request : s \notin tx[q].held
  /\ row' = [row EXCEPT ![s].status = "ABANDONED"]
  /\ UNCHANGED <<setting, unacked, tx, stored, faults>>

Serve(r) ==
  \/ InsertEventsBatch(r) \/ Probe(r) \/ \E s \in Session : UpsertSession(r, s)
  \/ PropagateRunKind(r) \/ Commit(r) \/ Answer(r) \/ BreakDeadlock(r)

Next ==
  \/ \E r \in Request : \/ \E batch \in SUBSET Event : Post(r, batch)
                        \/ Serve(r) \/ Fail(r) \/ GiveUp(r)
  \/ \E s \in Session : SweepAbandoned(s)

Spec == Init /\ [][Next]_vars

\* The flusher keeps posting while it has rows, and a request the server has
\* taken goes on until it is answered or rolled back.
Fairness ==
  /\ WF_vars(\E r \in Request, batch \in SUBSET Event : Post(r, batch))
  /\ \A r \in Request : WF_vars(Serve(r))

FairSpec == Spec /\ Fairness

(***************************************************************************)
(* Properties.                                                             *)
(***************************************************************************)

\* Every variable has its type; no row ever counts more events than there are,
\* however often a batch is posted again.
TypeOK ==
  /\ setting \in Scenario
  /\ unacked \subseteq Event
  /\ faults \in 0..MaxFaults
  /\ stored \in [Event -> Kind \cup {Absent}]
  /\ row \in [Session -> Row]
  /\ tx \in [Request ->
       [at: {"idle", "insert", "probe", "upsert", "fix", "commit", "answer"},
        listening: BOOLEAN, batch: SUBSET Event, fresh: SUBSET Event,
        settled: SUBSET Session, todo: SUBSET Session, held: SUBSET Session,
        kinds: [Event -> Kind \cup {Absent}], rows: [Session -> Row]]]

\* A session's row counts each of its stored events once and nothing else,
\* whatever was retried, rolled back, or posted twice at a time: its totals and
\* its last_event_at are those of the rows in events (routes/events.ts:153,
\* upsert-session.ts:240).
RowsSumUpEvents ==
  \A s \in Session : LET own == Stored \cap Of(s) IN
    /\ row[s].total = Cardinality(own)
    /\ (row[s].status = "none") <=> (own = {})
    /\ own # {} => row[s].last = Max(own)

\* What the machine has deleted is stored, but for the events the schema
\* rejects: an answer never overtakes its commit (events.ts:158).
AckedIsStored ==
  (Event \ unacked) \ setting.invalid \subseteq Stored

\* Both: each event the machine is rid of counts once in its session, and
\* nothing counts that is not stored.
CountedOnce == RowsSumUpEvents /\ AckedIsStored

\* A session is COMPLETED exactly if an event that ends it is stored, even if
\* the sweep took it for abandoned first or runs beside the batch that ends it.
CompletedIffEnded ==
  \A s \in Session :
    /\ (row[s].status = "COMPLETED") <=> (Stored \cap Of(s) \cap setting.ends # {})
    /\ row[s].ended # NoEvent => row[s].ended \in Stored \cap Of(s) \cap setting.ends

\* When a session becomes a pipeline's, so does every event stored by then in
\* the span its row records; it never becomes a person's again, and no stored
\* event is lost.  (Not claimed: an event that arrives later, without the
\* claim, agrees with its session.)
EscalationReaches ==
  [][\A s \in Session :
       /\ row[s].kind # "INTERACTIVE" => row'[s].kind = row[s].kind
       /\ row'[s].kind # row[s].kind =>
            \A e \in Of(s) :
              (stored'[e] # Absent /\ e \in row'[s].started..row'[s].last)
                => stored'[e] = row'[s].kind
       /\ \A e \in Stored : stored'[e] # Absent
    ]_<<row, stored>>

\* Every event that is not rejected gets to its session's row in the end, and
\* the rejected ones do not hold the others up.
EveryEventCounted == <>[](unacked = {} /\ Event \ setting.invalid \subseteq Stored)
=============================================================================
