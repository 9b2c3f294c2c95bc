-------------------------- MODULE IngestEventsProofs --------------------------
(***************************************************************************)
(* Proofs about IngestEvents: its types, that each event counts once in    *)
(* its session, that a session is completed exactly if an event that ends  *)
(* it is stored, that a session that becomes a pipeline's takes its events *)
(* along, and that the whole implements EventLedger.                       *)
(***************************************************************************)
EXTENDS IngestEvents, FiniteSetTheorems, WellFoundedInduction, TLAPS

\* Stages at which a transaction may have written something.
Begun == {"probe", "upsert", "fix", "commit"}

\* What a transaction has inserted is new, comes from its batch, and belongs to
\* the sessions it has upserted or has yet to; with what is committed it makes
\* up the batch.
Shaped(r) ==
  /\ tx[r].at \notin Begun => tx[r].fresh = {}
  /\ tx[r].at \notin Begun \ {"probe"} => tx[r].held = {}
  /\ tx[r].at \in {"fix", "commit"} => tx[r].todo = {}
  /\ tx[r].todo \cap tx[r].held = {}
  /\ \A s \in Session : s \in tx[r].todo \cup tx[r].held <=> Fresh(r, s) # {}
  /\ tx[r].fresh \cap Stored = {}
  /\ tx[r].fresh \subseteq tx[r].batch \ setting.invalid
  /\ tx[r].at \in Begun \cup {"answer"} =>
       tx[r].batch \ setting.invalid \subseteq Stored \cup tx[r].fresh

\* The row of a session that is held has not changed since it was upserted.
Written(r) ==
  \A s \in tx[r].held : tx[r].rows[s] = Upserted(row[s], Fresh(r, s))

\* A transaction writes its own events, and others only of sessions it holds.
Touched(r) ==
  \A e \in Event :
    /\ e \in tx[r].fresh => tx[r].kinds[e] # Absent
    /\ tx[r].kinds[e] # Absent =>
         \/ e \in tx[r].fresh
         \/ e \in Stored /\ setting.session[e] \in tx[r].held

\* Sessions found recorded as a pipeline's are; of those that become one, every
\* event in the span of the row is brought in step.
Reached(r) ==
  /\ \A s \in tx[r].settled : row[s].kind # "INTERACTIVE"
  /\ tx[r].at = "commit" => \A s \in Claiming(r) \ tx[r].settled : \A e \in Of(s) :
       /\ tx[r].kinds[e] # Absent \/ e \in Stored
       /\ e \in tx[r].rows[s].started..tx[r].rows[s].last
       => tx[r].kinds[e] = tx[r].rows[s].kind

\* No two transactions insert the same event or hold the same session.
Apart(r, q) ==
  r # q => tx[r].fresh \cap tx[q].fresh = {} /\ tx[r].held \cap tx[q].held = {}

Transactions ==
  /\ \A r \in Request : Shaped(r) /\ Written(r) /\ Touched(r) /\ Reached(r)
  /\ \A r, q \in Request : Apart(r, q)

\* A session without a row has made no mark.
NoRowIsBlank == \A s \in Session : row[s].status = "none" => row[s] = NoRow

Committed == CountedOnce /\ CompletedIffEnded /\ NoRowIsBlank

Inv == TypeOK /\ Transactions /\ Committed

\* The types of one request and of the tables.
Tx == [at: {"idle", "insert", "probe", "upsert", "fix", "commit", "answer"},
       listening: BOOLEAN, batch: SUBSET Event, fresh: SUBSET Event,
       settled: SUBSET Session, todo: SUBSET Session, held: SUBSET Session,
       kinds: [Event -> Kind \cup {Absent}], rows: [Session -> Row]]

-----------------------------------------------------------------------------
(* Sets of events.                                                         *)

\* Events are numbered, and there are finitely many.
LEMMA Events ==
  /\ MaxEvent \in Nat \ {0} /\ Event = 1..MaxEvent
  /\ IsFiniteSet(Event) /\ Cardinality(Event) = MaxEvent
BY BoundsAssumption, FS_Interval DEF Event

\* A set of numbers up to a bound has a least and a greatest member.
LEMMA Extremes ==
  ASSUME NEW S \in SUBSET (0..MaxEvent), S # {}
  PROVE  /\ Min(S) \in S /\ \A y \in S : Min(S) <= y
         /\ Max(S) \in S /\ \A y \in S : Max(S) >= y
<1>1. MaxEvent \in Nat
  BY Events
<1> DEFINE below(x) == 0..x
           above(x) == x..MaxEvent
           R == StrictSubsetOrdering(0..MaxEvent)
<1>2. IsWellFoundedOn(R, FiniteSubsetsOf(0..MaxEvent))
  BY FS_StrictSubsetOrderingWellFounded
<1>3. \E x \in S : \A y \in S : x <= y
  <2> DEFINE T == {below(x) : x \in S}
  <2>1. T \subseteq FiniteSubsetsOf(0..MaxEvent) /\ T # {}
    <3>1. ASSUME NEW x \in S
          PROVE  IsFiniteSet(below(x)) /\ below(x) \in SUBSET (0..MaxEvent)
      <4>1. x \in Int /\ 0 <= x /\ x <= MaxEvent
        BY <1>1
      <4>2. IsFiniteSet(below(x))
        BY <4>1, <1>1, FS_Interval
      <4>3. QED
        BY <4>1, <4>2, <1>1
    <3> HIDE DEF below
    <3>2. QED
      BY <3>1 DEF FiniteSubsetsOf
  <2> HIDE DEF R, T
  <2>2. PICK u \in T : \A v \in T : <<v, u>> \notin R
    BY <1>2, <2>1, WFMin
  <2>3. PICK x \in S : u = below(x)
    BY DEF T
  <2>4. ASSUME NEW y \in S, y < x PROVE FALSE
    <3>1. below(y) \in T
      BY DEF T
    <3>2. below(y) \subseteq below(x) /\ below(y) # below(x)
      BY <2>4, <1>1
    <3>3. <<below(y), u>> \in R
      BY <3>2, <2>3, <1>1 DEF R, StrictSubsetOrdering
    <3>4. QED
      BY <3>1, <3>3, <2>2
  <2>5. QED
    BY <2>4, <1>1
<1>4. \E x \in S : \A y \in S : x >= y
  <2> DEFINE T == {above(x) : x \in S}
  <2>1. T \subseteq FiniteSubsetsOf(0..MaxEvent) /\ T # {}
    <3>1. ASSUME NEW x \in S
          PROVE  IsFiniteSet(above(x)) /\ above(x) \in SUBSET (0..MaxEvent)
      <4>1. x \in Int /\ 0 <= x /\ x <= MaxEvent
        BY <1>1
      <4>2. IsFiniteSet(above(x))
        BY <4>1, <1>1, FS_Interval
      <4>3. QED
        BY <4>1, <4>2, <1>1
    <3> HIDE DEF above
    <3>2. QED
      BY <3>1 DEF FiniteSubsetsOf
  <2> HIDE DEF R, T
  <2>2. PICK u \in T : \A v \in T : <<v, u>> \notin R
    BY <1>2, <2>1, WFMin
  <2>3. PICK x \in S : u = above(x)
    BY DEF T
  <2>4. ASSUME NEW y \in S, y > x PROVE FALSE
    <3>1. above(y) \in T
      BY DEF T
    <3>2. above(y) \subseteq above(x) /\ above(y) # above(x)
      BY <2>4, <1>1
    <3>3. <<above(y), u>> \in R
      BY <3>2, <2>3, <1>1 DEF R, StrictSubsetOrdering
    <3>4. QED
      BY <3>1, <3>3, <2>2
  <2>5. QED
    BY <2>4, <1>1
<1>5. QED
  BY <1>3, <1>4 DEF Min, Max

\* The greatest of two sets together is the greater of their greatest.
LEMMA MaxOfBoth ==
  ASSUME NEW A \in SUBSET Event, A # {}, NEW B \in SUBSET Event, B # {}
  PROVE  Max(A \cup B) = Max({Max(A), Max(B)})
<1>1. MaxEvent \in Nat /\ Event \subseteq 0..MaxEvent
  BY Events
<1>2. Max(A) \in A /\ \A y \in A : Max(A) >= y
  BY <1>1, Extremes
<1>3. Max(B) \in B /\ \A y \in B : Max(B) >= y
  BY <1>1, Extremes
<1>4. Max(A \cup B) \in A \cup B /\ \A y \in A \cup B : Max(A \cup B) >= y
  <2>1. A \cup B \in SUBSET (0..MaxEvent) /\ A \cup B # {}
    BY <1>1
  <2>2. QED
    BY <2>1, Extremes
<1>5. Max({Max(A), Max(B)}) \in {Max(A), Max(B)}
      /\ \A y \in {Max(A), Max(B)} : Max({Max(A), Max(B)}) >= y
  <2>1. {Max(A), Max(B)} \in SUBSET (0..MaxEvent)
    BY <1>1, <1>2, <1>3
  <2>2. QED
    BY <2>1, Extremes
<1> DEFINE a == Max(A)
           b == Max(B)
           m == Max(A \cup B)
           n == Max({a, b})
<1>6. a \in Nat /\ b \in Nat /\ m \in Nat
  <2>1. A \subseteq Nat /\ B \subseteq Nat
    BY <1>1
  <2>2. QED
    BY <2>1, <1>2, <1>3, <1>4
<1>7. m >= a /\ m >= b /\ (m <= a \/ m <= b)
  BY <1>1, <1>2, <1>3, <1>4
<1>8. n >= a /\ n >= b /\ n \in {a, b}
  BY <1>5
<1> HIDE DEF a, b, m, n
<1>9. m = n
  BY <1>6, <1>7, <1>8
<1>10. QED
  BY <1>9 DEF m, n, a, b

\* Sets of events that have nothing in common add up.
LEMMA Adds ==
  ASSUME NEW A \in SUBSET Event, NEW B \in SUBSET Event, A \cap B = {}
  PROVE  /\ Cardinality(A) \in Nat /\ Cardinality(B) \in Nat
         /\ Cardinality(A \cup B) = Cardinality(A) + Cardinality(B)
         /\ Cardinality(A \cup B) <= MaxEvent
<1>1. IsFiniteSet(A) /\ IsFiniteSet(B) /\ IsFiniteSet(A \cup B)
      /\ Cardinality(A \cup B) <= MaxEvent
  <2>1. A \cup B \in SUBSET Event
    OBVIOUS
  <2>2. ASSUME NEW S \in SUBSET Event
        PROVE  IsFiniteSet(S) /\ Cardinality(S) <= MaxEvent
    <3>1. IsFiniteSet(Event) /\ Cardinality(Event) = MaxEvent
      BY Events
    <3>2. IsFiniteSet(S) /\ Cardinality(S) <= Cardinality(Event)
      BY <3>1, FS_Subset
    <3>3. QED
      BY <3>1, <3>2
  <2>3. QED
    BY <2>1, <2>2
<1>2. Cardinality(A) \in Nat /\ Cardinality(B) \in Nat
  BY <1>1, FS_CardinalityType
<1>3. Cardinality(A \cap B) = 0
  BY FS_EmptySet
<1>4. Cardinality(A \cup B) = Cardinality(A) + Cardinality(B) - Cardinality(A \cap B)
  BY <1>1, FS_Union
<1>5. QED
  BY <1>1, <1>2, <1>3, <1>4

-----------------------------------------------------------------------------
(* Settings, types and rows.                                               *)

\* What a setting is made of.
LEMMA Settings ==
  ASSUME setting \in Scenario
  PROVE  /\ setting.session \in [Event -> Session] /\ setting.claim \in [Event -> Kind]
         /\ setting.ends \subseteq Event /\ setting.invalid \subseteq Event
BY ScenarioAssumption DEF Setting

\* TypeOK, with the type of a request under a name.
LEMMA Types ==
  TypeOK <=> /\ setting \in Scenario /\ unacked \subseteq Event /\ faults \in 0..MaxFaults
             /\ stored \in [Event -> Kind \cup {Absent}]
             /\ row \in [Session -> Row]
             /\ tx \in [Request -> Tx]
BY DEF TypeOK, Tx

\* What a request is made of.
LEMMA Fields ==
  ASSUME NEW t \in Tx
  PROVE  /\ t.at \in {"idle", "insert", "probe", "upsert", "fix", "commit", "answer"}
         /\ t.listening \in BOOLEAN /\ t.batch \subseteq Event /\ t.fresh \subseteq Event
         /\ t.settled \subseteq Session /\ t.todo \subseteq Session /\ t.held \subseteq Session
         /\ t.kinds \in [Event -> Kind \cup {Absent}] /\ t.rows \in [Session -> Row]
BY DEF Tx

\* What a row is made of.
LEMMA RowFields ==
  ASSUME NEW w \in Row
  PROVE  /\ w.total \in 0..MaxEvent /\ w.started \in 0..MaxEvent /\ w.last \in 0..MaxEvent
         /\ w.ended \in 0..MaxEvent /\ w.kind \in Kind
         /\ w.status \in {"none", "ACTIVE", "COMPLETED", "ABANDONED"}
BY DEF Row

\* The merge of run kinds is one, and sticks to the first that is a pipeline's.
LEMMA MergedKinds ==
  ASSUME setting \in Scenario, NEW S \in SUBSET Event
  PROVE  MergedKind(S) \in Kind
<1> DEFINE claims == {e \in S : Claim(e) # "INTERACTIVE"}
<1>1. claims # {} => Min(claims) \in Event
  <2>1. claims \subseteq S
    OBVIOUS
  <2> HIDE DEF claims
  <2>2. claims \in SUBSET (0..MaxEvent) /\ claims \subseteq Event
    BY <2>1, Events
  <2>3. QED
    BY <2>2, Extremes
<1>2. claims # {} => Claim(Min(claims)) \in Kind
  BY <1>1, Settings DEF Claim
<1>3. QED
  BY <1>2 DEF MergedKind, Kind

\* The first end among some events is one of them, if there is any.
LEMMA FirstEnds ==
  ASSUME setting \in Scenario, NEW S \in SUBSET Event
  PROVE  /\ FirstEnd(S) \in 0..MaxEvent
         /\ FirstEnd(S) # NoEvent => FirstEnd(S) \in S \cap setting.ends
         /\ FirstEnd(S) = NoEvent <=> S \cap setting.ends = {}
<1> DEFINE ends == S \cap setting.ends
<1>1. ends # {} => Min(ends) \in ends
  <2>1. ends \subseteq S
    OBVIOUS
  <2> HIDE DEF ends
  <2>2. ends \in SUBSET (0..MaxEvent)
    BY <2>1, Events
  <2>3. QED
    BY <2>2, Extremes
<1>2. \A e \in Event : e # NoEvent /\ e \in 0..MaxEvent
  BY Events DEF NoEvent
<1>3. NoEvent \in 0..MaxEvent
  BY Events DEF NoEvent
<1>4. QED
  BY <1>1, <1>2, <1>3 DEF FirstEnd

\* An upserted row is a row, if there are events enough.
LEMMA UpsertedIsRow ==
  ASSUME setting \in Scenario, NEW old \in Row, NEW S \in SUBSET Event, S # {},
         old.total + Cardinality(S) <= MaxEvent
  PROVE  Upserted(old, S) \in Row
<1>1. MaxEvent \in Nat
  BY Events
<1>2. S \in SUBSET (0..MaxEvent)
  BY Events
<1>3. Min(S) \in 0..MaxEvent /\ Max(S) \in 0..MaxEvent
  BY <1>2, Extremes
<1>4. Cardinality(S) \in Nat /\ Cardinality(S) <= MaxEvent
  BY Adds, {} \in SUBSET Event, S \cap {} = {}, S \cup {} = S
<1>5. Max({old.last, Max(S)}) \in 0..MaxEvent
  <2>1. {old.last, Max(S)} \in SUBSET (0..MaxEvent)
    BY <1>3, RowFields
  <2>2. Max({old.last, Max(S)}) \in {old.last, Max(S)}
    BY <2>1, Extremes
  <2>3. QED
    BY <2>1, <2>2
<1>6. FirstEnd(S) \in 0..MaxEvent /\ MergedKind(S) \in Kind
  BY FirstEnds, MergedKinds
<1>7. old.total + Cardinality(S) \in 0..MaxEvent /\ Cardinality(S) \in 0..MaxEvent
  BY <1>1, <1>4, RowFields
<1>8. MergeRunKind(old.kind, MergedKind(S)) \in Kind
  BY <1>6, RowFields DEF MergeRunKind
<1> DEFINE card == Cardinality(S)
           sum == old.total + Cardinality(S)
           first == Min(S)
           last == Max(S)
           later == Max({old.last, Max(S)})
           end == FirstEnd(S)
           kind == MergedKind(S)
           merged == MergeRunKind(old.kind, MergedKind(S))
<1>9. old.status = "none" => Upserted(old, S) =
        [total |-> card, started |-> first, last |-> last, ended |-> end,
         status |-> IF end # NoEvent THEN "COMPLETED" ELSE "ACTIVE", kind |-> kind]
  BY DEF Upserted
<1>10. old.status # "none" => Upserted(old, S) =
        [total |-> sum, started |-> old.started, last |-> later,
         ended |-> IF old.ended # NoEvent THEN old.ended ELSE end,
         status |-> IF end # NoEvent /\ old.ended = NoEvent THEN "COMPLETED" ELSE old.status,
         kind |-> merged]
  BY DEF Upserted
<1>11. card \in 0..MaxEvent /\ sum \in 0..MaxEvent /\ first \in 0..MaxEvent
       /\ last \in 0..MaxEvent /\ later \in 0..MaxEvent /\ end \in 0..MaxEvent
       /\ kind \in Kind /\ merged \in Kind
  BY <1>3, <1>5, <1>6, <1>7, <1>8
<1> HIDE DEF card, sum, first, last, later, end, kind, merged
<1>12. QED
  BY <1>9, <1>10, <1>11, RowFields DEF Row

\* A blank row and a blank request have their types.
LEMMA Blanks ==
  NoRow \in Row /\ Idle \in Tx
<1>1. 0 \in 0..MaxEvent
  BY Events
<1>2. NoRow \in Row
  BY <1>1 DEF NoRow, Row, NoEvent, Kind
<1>3. QED
  BY <1>2 DEF Idle, Tx, Absent

\* The invariant holds before anything is posted.
LEMMA InvInit == Init => Inv
<1> SUFFICES ASSUME Init PROVE Inv
  OBVIOUS
<1>1. setting \in Scenario /\ unacked = Event /\ faults = 0
      /\ (\A r \in Request : tx[r] = Idle) /\ (\A s \in Session : row[s] = NoRow)
      /\ tx \in [Request -> {Idle}] /\ row \in [Session -> {NoRow}]
      /\ stored \in [Event -> {Absent}]
  BY DEF Init
<1>2. TypeOK
  <2>1. 0 \in 0..MaxFaults
    BY BoundsAssumption
  <2>2. tx \in [Request -> Tx] /\ row \in [Session -> Row]
    BY <1>1, Blanks
  <2>3. QED
    BY <1>1, <2>1, <2>2, Types
<1>3. Stored = {}
  BY <1>1 DEF Stored
<1>4. \A r \in Request : /\ tx[r].at = "idle" /\ tx[r].fresh = {} /\ tx[r].todo = {}
                         /\ tx[r].held = {} /\ tx[r].settled = {}
                         /\ \A e \in Event : tx[r].kinds[e] = Absent
  BY <1>1 DEF Idle
<1>5. Transactions
  BY <1>3, <1>4 DEF Transactions, Shaped, Written, Touched, Reached, Apart, Begun, Fresh
<1>6. Committed
  <2>1. \A s \in Session : /\ row[s].total = 0 /\ row[s].status = "none" /\ row[s].ended = NoEvent
    BY <1>1 DEF NoRow
  <2>2. Cardinality({}) = 0
    BY FS_EmptySet
  <2>3. RowsSumUpEvents
    BY <1>3, <2>1, <2>2 DEF RowsSumUpEvents
  <2>4. AckedIsStored
    BY <1>1 DEF AckedIsStored
  <2>5. CompletedIffEnded /\ NoRowIsBlank
    BY <1>1, <1>3, <2>1 DEF CompletedIffEnded, NoRowIsBlank
  <2>6. QED
    BY <2>3, <2>4, <2>5 DEF Committed, CountedOnce
<1>7. QED
  BY <1>2, <1>5, <1>6 DEF Inv

-----------------------------------------------------------------------------
(* Steps of one request that touch no table.                               *)

\* What is good about a request, and about its relation to the others.
Good(r) == Shaped(r) /\ Written(r) /\ Touched(r) /\ Reached(r)

\* Only request r moves, and nothing is committed.
Quiet(r) ==
  /\ UNCHANGED <<setting, stored, row>>
  /\ \A q \in Request \ {r} : tx'[q] = tx[q]

\* What an upsert makes of a row depends on the row, the events and the setting.
LEMMA SameUpsert ==
  ASSUME setting' = setting, NEW q, NEW s, row'[s] = row[s], Fresh(q, s)' = Fresh(q, s)
  PROVE  /\ Upserted(row[s], Fresh(q, s))' = Upserted(row[s], Fresh(q, s))
         /\ MergedKind(Fresh(q, s))' = MergedKind(Fresh(q, s))
<1>1. {e \in Fresh(q, s) : Claim(e) # "INTERACTIVE"}' = {e \in Fresh(q, s) : Claim(e) # "INTERACTIVE"}
  BY DEF Claim
<1>2. MergedKind(Fresh(q, s))' = MergedKind(Fresh(q, s))
  BY <1>1 DEF MergedKind, Claim
<1>3. FirstEnd(Fresh(q, s))' = FirstEnd(Fresh(q, s))
  BY DEF FirstEnd
<1>4. QED
  BY <1>2, <1>3 DEF Upserted, MergeRunKind

\* The other requests do not notice.
LEMMA Elsewhere ==
  ASSUME Inv, NEW r \in Request, Quiet(r), NEW q \in Request \ {r}
  PROVE  Good(q)' /\ \A p \in Request \ {r} : Apart(p, q)'
<1>1. setting' = setting /\ stored' = stored /\ row' = row /\ tx'[q] = tx[q]
  BY DEF Quiet
<1>2. Stored' = Stored /\ \A s \in Session : Of(s)' = Of(s)
  BY <1>1 DEF Stored, Of
<1>3. \A s \in Session : Fresh(q, s)' = Fresh(q, s)
  BY <1>1, <1>2 DEF Fresh
<1>4. Good(q)
  BY DEF Inv, Transactions, Good
<1>5. Shaped(q)'
  BY <1>1, <1>2, <1>3, <1>4 DEF Good, Shaped
<1>6. Written(q)'
  <2>1. ASSUME NEW s \in Session
        PROVE  Upserted(row[s], Fresh(q, s))' = Upserted(row[s], Fresh(q, s))
    BY <1>1, <1>3, SameUpsert
  <2>2. tx[q].held \subseteq Session
    BY Types, Fields DEF Inv
  <2>3. QED
    BY <1>1, <1>4, <2>1, <2>2 DEF Good, Written
<1>7. Touched(q)'
  BY <1>1, <1>2, <1>4 DEF Good, Touched
<1>8. Reached(q)'
  <2>1. Claiming(q)' = Claiming(q)
    BY <1>1, <1>3, SameUpsert DEF Claiming
  <2>2. QED
    BY <1>1, <1>2, <1>4, <2>1 DEF Good, Reached, Claiming
<1>9. \A p \in Request \ {r} : Apart(p, q)'
  BY <1>1 DEF Inv, Transactions, Apart, Quiet
<1>10. QED
  BY <1>5, <1>6, <1>7, <1>8, <1>9 DEF Good

\* So it is enough to look at the request that moves.
LEMMA QuietKeeps ==
  ASSUME Inv, NEW r \in Request, Quiet(r), TypeOK', Good(r)', AckedIsStored',
         \A q \in Request \ {r} : Apart(r, q)'
  PROVE  Inv'
<1>1. Transactions'
  <2>1. \A q \in Request : Good(q)'
    BY Elsewhere
  <2>2. \A q \in Request \ {r} : Apart(q, r)'
    BY DEF Apart
  <2>3. \A p, q \in Request : Apart(p, q)'
    <3>1. \A q \in Request \ {r} : \A p \in Request \ {r} : Apart(p, q)'
      BY Elsewhere
    <3>2. Apart(r, r)'
      BY DEF Apart
    <3>3. QED
      BY <2>2, <3>1, <3>2
  <2>4. QED
    BY <2>1, <2>3 DEF Transactions, Good
<1>2. setting' = setting /\ stored' = stored /\ row' = row
  BY DEF Quiet
<1>3. Stored' = Stored /\ \A s \in Session : Of(s)' = Of(s)
  BY <1>2 DEF Stored, Of
<1>4. RowsSumUpEvents' /\ CompletedIffEnded' /\ NoRowIsBlank'
  BY <1>2, <1>3 DEF Inv, Committed, CountedOnce, RowsSumUpEvents, CompletedIffEnded, NoRowIsBlank
<1>5. QED
  BY <1>1, <1>4 DEF Inv, Committed, CountedOnce

\* The types after a step of one request.
LEMMA QuietTypes ==
  ASSUME TypeOK, NEW r \in Request, NEW t \in Tx, tx' = [tx EXCEPT ![r] = t],
         UNCHANGED <<setting, stored, row>>,
         unacked' \subseteq Event, faults' \in 0..MaxFaults
  PROVE  TypeOK' /\ Quiet(r) /\ tx'[r] = t
<1>1. tx \in [Request -> Tx]
  BY Types
<1>2. tx' \in [Request -> Tx] /\ tx'[r] = t /\ \A q \in Request \ {r} : tx'[q] = tx[q]
  BY <1>1
<1>3. TypeOK'
  <2>1. setting \in Scenario /\ stored \in [Event -> Kind \cup {Absent}] /\ row \in [Session -> Row]
    BY Types
  <2>2. setting' \in Scenario /\ stored' \in [Event -> Kind \cup {Absent}]
        /\ row' \in [Session -> Row]
    BY <2>1
  <2>3. QED
    BY <1>2, <2>2 DEF TypeOK, Tx
<1>4. QED
  BY <1>2, <1>3 DEF Quiet

\* A step that leaves a request without a transaction, and the tables alone.
LEMMA BlankStep ==
  ASSUME Inv, NEW r \in Request, NEW t \in Tx, tx' = [tx EXCEPT ![r] = t],
         UNCHANGED <<setting, stored, row>>,
         unacked' \subseteq Event, faults' \in 0..MaxFaults, AckedIsStored',
         t.at \in {"idle", "insert"}, t.fresh = {}, t.held = {}, t.todo = {},
         t.settled = {}, \A e \in Event : t.kinds[e] = Absent
  PROVE  Inv'
<1>1. TypeOK' /\ Quiet(r) /\ tx'[r] = t
  BY QuietTypes DEF Inv
<1>2. Good(r)' /\ \A q \in Request : Apart(r, q)'
  <2>1. \A s \in Session : Fresh(r, s)' = {}
    BY <1>1 DEF Fresh
  <2>2. Shaped(r)'
    BY <1>1, <2>1 DEF Shaped, Begun
  <2>3. Written(r)' /\ Touched(r)' /\ Reached(r)'
    BY <1>1 DEF Written, Touched, Reached
  <2>4. QED
    BY <1>1, <2>2, <2>3 DEF Good, Apart
<1>3. QED
  BY <1>1, <1>2, QuietKeeps

\* A batch is posted.
LEMMA PostKeeps ==
  ASSUME Inv, NEW r \in Request, NEW batch \in SUBSET Event, Post(r, batch)
  PROVE  Inv'
<1> DEFINE t == [Idle EXCEPT !.at = "insert", !.listening = TRUE, !.batch = batch]
<1>1. t \in Tx /\ t.at = "insert" /\ t.fresh = {} /\ t.held = {} /\ t.todo = {}
      /\ t.settled = {} /\ \A e \in Event : t.kinds[e] = Absent
  BY Blanks DEF Idle, Tx
<1>2. tx' = [tx EXCEPT ![r] = t] /\ UNCHANGED <<setting, unacked, stored, row, faults>>
  BY DEF Post
<1>3. unacked' \subseteq Event /\ faults' \in 0..MaxFaults
  BY <1>2 DEF Inv, TypeOK
<1>4. AckedIsStored'
  BY <1>2 DEF Inv, Committed, CountedOnce, AckedIsStored, Stored
<1> HIDE DEF t
<1>5. QED
  BY <1>1, <1>2, <1>3, <1>4, BlankStep

\* A transaction leaves nothing behind.
LEMMA RolledBackKeeps ==
  ASSUME Inv, NEW r \in Request, RolledBack(r), faults' \in 0..MaxFaults
  PROVE  Inv'
<1>1. Idle \in Tx /\ Idle.at = "idle" /\ Idle.fresh = {} /\ Idle.held = {} /\ Idle.todo = {}
      /\ Idle.settled = {} /\ \A e \in Event : Idle.kinds[e] = Absent
  BY Blanks DEF Idle
<1>2. tx' = [tx EXCEPT ![r] = Idle] /\ UNCHANGED <<setting, unacked, stored, row>>
  BY DEF RolledBack
<1>3. unacked' \subseteq Event
  BY <1>2 DEF Inv, TypeOK
<1>4. AckedIsStored'
  BY <1>2 DEF Inv, Committed, CountedOnce, AckedIsStored, Stored
<1>5. QED
  BY <1>1, <1>2, <1>3, <1>4, BlankStep

\* An answer: what the client deletes is stored.
LEMMA AnswerKeeps ==
  ASSUME Inv, NEW r \in Request, Answer(r)
  PROVE  Inv'
<1>1. Idle \in Tx /\ Idle.at = "idle" /\ Idle.fresh = {} /\ Idle.held = {} /\ Idle.todo = {}
      /\ Idle.settled = {} /\ \A e \in Event : Idle.kinds[e] = Absent
  BY Blanks DEF Idle
<1>2. tx[r].at = "answer" /\ tx' = [tx EXCEPT ![r] = Idle]
      /\ unacked' \in {unacked, unacked \ tx[r].batch}
      /\ UNCHANGED <<setting, stored, row, faults>>
  BY DEF Answer
<1>3. unacked' \subseteq Event /\ faults' \in 0..MaxFaults
  BY <1>2 DEF Inv, TypeOK
<1>4. tx[r].batch \ setting.invalid \subseteq Stored
  <2>1. Shaped(r)
    BY DEF Inv, Transactions
  <2>2. QED
    BY <1>2, <2>1 DEF Shaped, Begun
<1>5. AckedIsStored'
  <2>1. Stored' = Stored /\ setting' = setting
    BY <1>2 DEF Stored
  <2>2. (Event \ unacked) \ setting.invalid \subseteq Stored
    BY DEF Inv, Committed, CountedOnce, AckedIsStored
  <2>3. QED
    BY <1>2, <1>4, <2>1, <2>2 DEF AckedIsStored
<1>6. QED
  BY <1>1, <1>2, <1>3, <1>5, BlankStep

\* The client stops waiting; the transaction goes on.
LEMMA GiveUpKeeps ==
  ASSUME Inv, NEW r \in Request, GiveUp(r)
  PROVE  Inv'
<1> DEFINE t == [tx[r] EXCEPT !.listening = FALSE]
<1>1. tx[r] \in Tx /\ tx \in [Request -> Tx]
  BY Types DEF Inv
<1>2. /\ t \in Tx /\ t.at = tx[r].at /\ t.batch = tx[r].batch /\ t.fresh = tx[r].fresh
      /\ t.settled = tx[r].settled /\ t.todo = tx[r].todo /\ t.held = tx[r].held
      /\ t.kinds = tx[r].kinds /\ t.rows = tx[r].rows
  BY <1>1 DEF Tx
<1>3. tx' = [tx EXCEPT ![r] = t] /\ UNCHANGED <<setting, unacked, stored, row>>
  BY <1>1 DEF GiveUp
<1>4. unacked' \subseteq Event /\ faults' \in 0..MaxFaults
  BY BoundsAssumption DEF Inv, TypeOK, GiveUp
<1> HIDE DEF t
<1>5. TypeOK' /\ Quiet(r) /\ tx'[r] = t
  BY <1>2, <1>3, <1>4, QuietTypes DEF Inv
<1>6. AckedIsStored'
  BY <1>3 DEF Inv, Committed, CountedOnce, AckedIsStored, Stored
<1>7. Stored' = Stored /\ \A s \in Session : Of(s)' = Of(s) /\ Fresh(r, s)' = Fresh(r, s)
  BY <1>2, <1>3, <1>5 DEF Stored, Of, Fresh
<1>8. Good(r)
  BY DEF Inv, Transactions, Good
<1>9. Shaped(r)' /\ Touched(r)'
  BY <1>2, <1>3, <1>5, <1>7, <1>8 DEF Good, Shaped, Touched
<1>10. Written(r)' /\ Reached(r)'
  <2>1. \A s \in Session : /\ Upserted(row[s], Fresh(r, s))' = Upserted(row[s], Fresh(r, s))
                           /\ MergedKind(Fresh(r, s))' = MergedKind(Fresh(r, s))
    BY <1>3, <1>7, SameUpsert
  <2>2. Claiming(r)' = Claiming(r)
    BY <2>1 DEF Claiming
  <2>3. tx[r].held \subseteq Session
    BY <1>1, Fields
  <2>4. Written(r)'
    BY <1>2, <1>3, <1>5, <1>8, <2>1, <2>3 DEF Good, Written
  <2>5. Reached(r)'
    BY <1>2, <1>3, <1>5, <1>7, <1>8, <2>2 DEF Good, Reached, Claiming
  <2>6. QED
    BY <2>4, <2>5
<1>11. \A q \in Request \ {r} : Apart(r, q)'
  BY <1>2, <1>5 DEF Inv, Transactions, Apart, Quiet
<1>12. QED
  BY <1>5, <1>6, <1>9, <1>10, <1>11, QuietKeeps DEF Good

\* A session is claimed by new events only.
LEMMA ClaimingHasEvents ==
  ASSUME NEW r, NEW s \in Claiming(r)
  PROVE  s \in Session /\ Fresh(r, s) # {}
<1>1. MergedKind(Fresh(r, s)) # "INTERACTIVE" /\ s \in Session
  BY DEF Claiming
<1>2. Fresh(r, s) = {} => {e \in Fresh(r, s) : Claim(e) # "INTERACTIVE"} = {}
  OBVIOUS
<1>3. Fresh(r, s) = {} => MergedKind(Fresh(r, s)) = "INTERACTIVE"
  BY <1>2 DEF MergedKind
<1>4. QED
  BY <1>1, <1>3

\* The events of a batch are inserted: those that are new become the request's.
LEMMA InsertKeeps ==
  ASSUME Inv, NEW r \in Request, InsertEventsBatch(r)
  PROVE  Inv'
<1> DEFINE events == tx[r].batch \ setting.invalid
           fresh == events \ Stored
           todo == {setting.session[e] : e \in fresh}
           kinds == [e \in Event |->
              IF e \in fresh THEN MergedKind(events \cap Of(setting.session[e])) ELSE Absent]
           at == IF fresh = {} THEN "commit" ELSE "probe"
           t == [tx[r] EXCEPT !.at = at, !.fresh = fresh, !.todo = todo, !.kinds = kinds]
<1>1. setting \in Scenario /\ tx[r] \in Tx /\ tx \in [Request -> Tx]
  BY Types DEF Inv
<1>2. tx[r].at = "insert" /\ (\A q \in Request \ {r} : tx[q].fresh \cap events = {})
      /\ tx' = [tx EXCEPT ![r] = t] /\ UNCHANGED <<setting, unacked, stored, row, faults>>
  <2>1. tx[r].at = "insert" /\ (\A q \in Request \ {r} : tx[q].fresh \cap events = {})
        /\ UNCHANGED <<setting, unacked, stored, row, faults>>
    BY DEF InsertEventsBatch
  <2>2. tx' = [tx EXCEPT ![r].at = at, ![r].fresh = fresh, ![r].todo = todo, ![r].kinds = kinds]
    BY DEF InsertEventsBatch
  <2> HIDE DEF at, fresh, todo, kinds
  <2>3. QED
    BY <1>1, <2>1, <2>2
<1>3. fresh \subseteq Event /\ events \subseteq Event /\ fresh \subseteq events
      /\ todo \subseteq Session /\ at \in {"commit", "probe"}
      /\ (at = "commit" <=> fresh = {}) /\ fresh \cap Stored = {} /\ events \subseteq Stored \cup fresh
  BY <1>1, Fields, Settings
<1>4. kinds \in [Event -> Kind \cup {Absent}]
      /\ \A e \in Event : e \in fresh <=> kinds[e] # Absent
  <2>1. \A e \in Event : MergedKind(events \cap Of(setting.session[e])) \in Kind
    <3>1. \A s : events \cap Of(s) \in SUBSET Event
      BY <1>3
    <3> HIDE DEF events
    <3>2. QED
      BY <1>1, <3>1, MergedKinds
  <2>2. Absent \notin Kind
    BY DEF Absent, Kind
  <2> HIDE DEF fresh, events
  <2>3. QED
    BY <2>1, <2>2
<1>5. \A s \in Session : s \in todo <=> fresh \cap Of(s) # {}
  BY <1>3 DEF Of
<1> HIDE DEF events, fresh, todo, kinds, at
<1>6. /\ t \in Tx /\ t.at = at /\ t.batch = tx[r].batch /\ t.fresh = fresh
      /\ t.settled = tx[r].settled /\ t.todo = todo /\ t.held = tx[r].held
      /\ t.kinds = kinds /\ t.rows = tx[r].rows
  BY <1>1, <1>3, <1>4 DEF Tx
<1> HIDE DEF t
<1>7. unacked' \subseteq Event /\ faults' \in 0..MaxFaults
  BY <1>2 DEF Inv, TypeOK
<1>8. TypeOK' /\ Quiet(r) /\ tx'[r] = t
  BY <1>2, <1>6, <1>7, QuietTypes DEF Inv
<1>9. AckedIsStored'
  BY <1>2 DEF Inv, Committed, CountedOnce, AckedIsStored, Stored
<1>10. Stored' = Stored /\ setting' = setting /\ row' = row
       /\ \A s \in Session : Of(s)' = Of(s) /\ Fresh(r, s)' = fresh \cap Of(s)
  BY <1>2, <1>6, <1>8 DEF Stored, Of, Fresh
<1>11. tx[r].held = {} /\ \A s \in tx[r].settled : row[s].kind # "INTERACTIVE"
  BY <1>2 DEF Inv, Transactions, Shaped, Begun, Reached
<1>12. Shaped(r)'
  BY <1>3, <1>5, <1>6, <1>8, <1>10, <1>11 DEF Shaped, Begun, events
<1>13. Written(r)' /\ Touched(r)'
  BY <1>4, <1>6, <1>8, <1>11 DEF Written, Touched
<1>14. Reached(r)'
  <2>1. at = "commit" => \A s \in Session : Fresh(r, s)' = {}
    BY <1>3, <1>10
  <2>2. at = "commit" => Claiming(r)' = {}
    <3>1. \A s \in Session : Fresh(r, s)' = {} => MergedKind(Fresh(r, s))' = "INTERACTIVE"
      BY DEF MergedKind
    <3>2. QED
      BY <2>1, <3>1 DEF Claiming
  <2>3. QED
    BY <2>2, <1>6, <1>8, <1>10, <1>11 DEF Reached
<1>15. \A q \in Request \ {r} : Apart(r, q)'
  BY <1>2, <1>3, <1>6, <1>8, <1>11 DEF Apart, Quiet
<1>16. QED
  BY <1>8, <1>9, <1>12, <1>13, <1>14, <1>15, QuietKeeps DEF Good

\* The sessions already recorded as a pipeline's are looked up.
LEMMA ProbeKeeps ==
  ASSUME Inv, NEW r \in Request, Probe(r)
  PROVE  Inv'
<1> DEFINE settled == {s \in Claiming(r) : row[s].kind # "INTERACTIVE"}
           t == [tx[r] EXCEPT !.at = "upsert", !.settled = settled]
<1>1. tx[r] \in Tx /\ tx \in [Request -> Tx]
  BY Types DEF Inv
<1>2. settled \subseteq Session /\ \A s \in settled : row[s].kind # "INTERACTIVE"
  BY DEF Claiming
<1>3. tx[r].at = "probe" /\ tx' = [tx EXCEPT ![r] = t]
      /\ UNCHANGED <<setting, unacked, stored, row, faults>>
  BY <1>1 DEF Probe
<1> HIDE DEF settled
<1>4. /\ t \in Tx /\ t.at = "upsert" /\ t.batch = tx[r].batch /\ t.fresh = tx[r].fresh
      /\ t.settled = settled /\ t.todo = tx[r].todo /\ t.held = tx[r].held
      /\ t.kinds = tx[r].kinds /\ t.rows = tx[r].rows
  BY <1>1, <1>2 DEF Tx
<1> HIDE DEF t
<1>5. unacked' \subseteq Event /\ faults' \in 0..MaxFaults
  BY <1>3 DEF Inv, TypeOK
<1>6. TypeOK' /\ Quiet(r) /\ tx'[r] = t
  BY <1>3, <1>4, <1>5, QuietTypes DEF Inv
<1>7. AckedIsStored'
  BY <1>3 DEF Inv, Committed, CountedOnce, AckedIsStored, Stored
<1>8. Stored' = Stored /\ \A s \in Session : Of(s)' = Of(s) /\ Fresh(r, s)' = Fresh(r, s)
  BY <1>3, <1>4, <1>6 DEF Stored, Of, Fresh
<1>9. Good(r)
  BY DEF Inv, Transactions, Good
<1>10. Shaped(r)' /\ Touched(r)'
  BY <1>3, <1>4, <1>6, <1>8, <1>9 DEF Good, Shaped, Touched, Begun
<1>11. tx[r].held = {}
  BY <1>3, <1>9 DEF Good, Shaped, Begun
<1>12. Written(r)' /\ Reached(r)'
  BY <1>2, <1>3, <1>4, <1>6, <1>11 DEF Written, Reached
<1>13. \A q \in Request \ {r} : Apart(r, q)'
  BY <1>4, <1>6 DEF Inv, Transactions, Apart, Quiet
<1>14. QED
  BY <1>6, <1>7, <1>10, <1>12, <1>13, QuietKeeps DEF Good

\* The row a session gets is a row: its total counts no event twice.
LEMMA UpsertFits ==
  ASSUME Inv, NEW r \in Request, NEW s \in Session, Fresh(r, s) # {}
  PROVE  /\ Upserted(row[s], Fresh(r, s)) \in Row
         /\ Fresh(r, s) \in SUBSET Event /\ Stored \cap Of(s) \in SUBSET Event
         /\ (Stored \cap Of(s)) \cap Fresh(r, s) = {}
<1>1. setting \in Scenario /\ tx[r] \in Tx /\ row[s] \in Row
  BY Types DEF Inv
<1>2. tx[r].fresh \cap Stored = {}
  BY DEF Inv, Transactions, Shaped
<1>3. Fresh(r, s) \in SUBSET Event /\ Stored \cap Of(s) \in SUBSET Event
      /\ (Stored \cap Of(s)) \cap Fresh(r, s) = {}
  BY <1>1, <1>2, Fields DEF Fresh, Stored
<1>4. row[s].total = Cardinality(Stored \cap Of(s))
  BY DEF Inv, Committed, CountedOnce, RowsSumUpEvents
<1>5. row[s].total + Cardinality(Fresh(r, s)) <= MaxEvent
  <2>1. Cardinality((Stored \cap Of(s)) \cup Fresh(r, s)) =
          Cardinality(Stored \cap Of(s)) + Cardinality(Fresh(r, s))
        /\ Cardinality((Stored \cap Of(s)) \cup Fresh(r, s)) <= MaxEvent
    BY <1>3, Adds
  <2>2. QED
    BY <1>4, <2>1
<1>6. QED
  BY <1>1, <1>3, <1>5, UpsertedIsRow

\* A session is upserted, and held from then on.
LEMMA UpsertKeeps ==
  ASSUME Inv, NEW r \in Request, NEW s \in Session, UpsertSession(r, s)
  PROVE  Inv'
<1> DEFINE new == Upserted(row[s], Fresh(r, s))
           at == IF tx[r].todo = {s} THEN "fix" ELSE "upsert"
           todo == tx[r].todo \ {s}
           held == tx[r].held \cup {s}
           rows == [tx[r].rows EXCEPT ![s] = new]
           t == [tx[r] EXCEPT !.at = at, !.todo = todo, !.held = held, !.rows = rows]
<1>1. tx[r] \in Tx /\ tx \in [Request -> Tx]
  BY Types DEF Inv
<1>2. /\ tx[r].at = "upsert" /\ s \in tx[r].todo
      /\ \A q \in Request : s \notin tx[q].held
      /\ tx' = [tx EXCEPT ![r] = t] /\ UNCHANGED <<setting, unacked, stored, row, faults>>
  <2>1. /\ tx[r].at = "upsert" /\ s \in tx[r].todo
        /\ \A q \in Request : s \notin tx[q].held
        /\ UNCHANGED <<setting, unacked, stored, row, faults>>
    BY DEF UpsertSession, Next2Upsert
  <2>2. tx' = [tx EXCEPT ![r].todo = todo, ![r].held = held, ![r].rows[s] = new, ![r].at = at]
    BY DEF UpsertSession
  <2> HIDE DEF new, at, todo, held
  <2>3. QED
    BY <1>1, <2>1, <2>2
<1>3. Good(r)
  BY DEF Inv, Transactions, Good
<1>4. Fresh(r, s) # {}
  BY <1>2, <1>3 DEF Good, Shaped
<1>5. new \in Row
  BY <1>4, UpsertFits
<1>6. rows \in [Session -> Row] /\ rows[s] = new
      /\ \A u \in Session \ {s} : rows[u] = tx[r].rows[u]
  BY <1>1, <1>5, Fields
<1>7. /\ at \in {"fix", "upsert"} /\ (at = "fix" => todo = {})
      /\ todo \subseteq Session /\ held \subseteq Session
      /\ todo \cup held = tx[r].todo \cup tx[r].held
      /\ tx[r].todo \cap tx[r].held = {} => todo \cap held = {}
  BY <1>1, <1>2, Fields
<1>8. \A q \in Request \ {r} : tx[r].held \cap tx[q].held = {} => held \cap tx[q].held = {}
  BY <1>2
<1>9. \A u \in held : u = s \/ u \in tx[r].held
  OBVIOUS
<1>10. tx[r].held \subseteq held
  OBVIOUS
<1> HIDE DEF at, todo, held, rows
<1>11. /\ t \in Tx /\ t.at = at /\ t.batch = tx[r].batch /\ t.fresh = tx[r].fresh
      /\ t.settled = tx[r].settled /\ t.todo = todo /\ t.held = held
      /\ t.kinds = tx[r].kinds /\ t.rows = rows
  BY <1>1, <1>6, <1>7 DEF Tx
<1> HIDE DEF t, new
<1>12. unacked' \subseteq Event /\ faults' \in 0..MaxFaults
  BY <1>2 DEF Inv, TypeOK
<1>13. TypeOK' /\ Quiet(r) /\ tx'[r] = t
  BY <1>2, <1>11, <1>12, QuietTypes DEF Inv
<1>14. AckedIsStored'
  BY <1>2 DEF Inv, Committed, CountedOnce, AckedIsStored, Stored
<1>15. Stored' = Stored /\ setting' = setting /\ row' = row
       /\ \A u \in Session : Of(u)' = Of(u) /\ Fresh(r, u)' = Fresh(r, u)
  BY <1>2, <1>11, <1>13 DEF Stored, Of, Fresh
<1>16. Shaped(r)'
  BY <1>2, <1>3, <1>7, <1>11, <1>13, <1>15 DEF Good, Shaped, Begun
<1>17. Touched(r)'
  BY <1>3, <1>10, <1>11, <1>13, <1>15 DEF Good, Touched
<1>18. Written(r)'
  <2>1. \A u \in Session : Upserted(row[u], Fresh(r, u))' = Upserted(row[u], Fresh(r, u))
    BY <1>15, SameUpsert
  <2>2. \A u \in held : rows[u] = Upserted(row[u], Fresh(r, u))
    BY <1>3, <1>6, <1>7, <1>9 DEF Good, Written, new
  <2>3. QED
    BY <1>7, <1>11, <1>13, <2>1, <2>2 DEF Written
<1>19. Reached(r)'
  BY <1>3, <1>7, <1>11, <1>13, <1>15 DEF Good, Reached
<1>20. \A q \in Request \ {r} : Apart(r, q)'
  BY <1>8, <1>11, <1>13 DEF Inv, Transactions, Apart, Quiet
<1>21. QED
  BY <1>13, <1>14, <1>16, <1>17, <1>18, <1>19, <1>20, QuietKeeps DEF Good

\* Earlier events of sessions that became a pipeline's are brought in step.
LEMMA PropagateKeeps ==
  ASSUME Inv, NEW r \in Request, PropagateRunKind(r)
  PROVE  Inv'
<1> DEFINE escalated == Claiming(r) \ tx[r].settled
           kindOf(e) == IF tx[r].kinds[e] # Absent THEN tx[r].kinds[e] ELSE stored[e]
           span(s) == tx[r].rows[s].started..tx[r].rows[s].last
           reached(e) ==
             /\ setting.session[e] \in escalated
             /\ kindOf(e) # Absent
             /\ e \in span(setting.session[e])
           kinds == [e \in Event |->
              IF reached(e) THEN tx[r].rows[setting.session[e]].kind ELSE tx[r].kinds[e]]
           t == [tx[r] EXCEPT !.at = "commit", !.kinds = kinds]
<1>1. setting \in Scenario /\ tx[r] \in Tx /\ tx \in [Request -> Tx]
  BY Types DEF Inv
<1>2. \A e \in Event : setting.session[e] \in Session /\ tx[r].rows[setting.session[e]] \in Row
  BY <1>1, Fields, Settings
<1>3. tx[r].at = "fix" /\ tx' = [tx EXCEPT ![r] = t]
      /\ UNCHANGED <<setting, unacked, stored, row, faults>>
  <2> DEFINE met(e) == LET s == setting.session[e] IN
               /\ s \in escalated
               /\ kindOf(e) # Absent
               /\ e >= tx[r].rows[s].started /\ e <= tx[r].rows[s].last
             found == [e \in Event |->
               IF met(e) THEN tx[r].rows[setting.session[e]].kind ELSE tx[r].kinds[e]]
  <2>1. tx[r].at = "fix" /\ tx' = [tx EXCEPT ![r].at = "commit", ![r].kinds = found]
        /\ UNCHANGED <<setting, unacked, stored, row, faults>>
    BY <1>1 DEF PropagateRunKind
  <2>2. \A e \in Event : met(e) <=> reached(e)
    <3> SUFFICES ASSUME NEW e \in Event PROVE met(e) <=> reached(e)
      OBVIOUS
    <3>1. e \in Int /\ tx[r].rows[setting.session[e]].started \in Int
          /\ tx[r].rows[setting.session[e]].last \in Int
      BY <1>2, RowFields, Events
    <3> HIDE DEF escalated, kindOf
    <3>2. QED
      BY <3>1
  <2>3. found = kinds
    <3> HIDE DEF met, reached
    <3>1. QED
      BY <2>2
  <2> HIDE DEF found, kinds
  <2>4. QED
    BY <1>1, <2>1, <2>3
<1>4. kinds \in [Event -> Kind \cup {Absent}]
  <2>1. \A e \in Event : tx[r].rows[setting.session[e]].kind \in Kind
                         /\ tx[r].kinds[e] \in Kind \cup {Absent}
    BY <1>1, <1>2, RowFields, Fields
  <2> HIDE DEF reached
  <2>2. QED
    BY <2>1
<1>5. \A e \in Event : reached(e) => kinds[e] = tx[r].rows[setting.session[e]].kind /\ kinds[e] # Absent
  <2>1. \A e \in Event : tx[r].rows[setting.session[e]].kind # Absent
    BY <1>2, RowFields DEF Kind, Absent
  <2> HIDE DEF reached
  <2>2. QED
    BY <2>1
<1>6. \A e \in Event : ~reached(e) => kinds[e] = tx[r].kinds[e]
  <2> HIDE DEF reached
  <2>1. QED
    OBVIOUS
<1> HIDE DEF kinds
<1>7. /\ t \in Tx /\ t.at = "commit" /\ t.batch = tx[r].batch /\ t.fresh = tx[r].fresh
      /\ t.settled = tx[r].settled /\ t.todo = tx[r].todo /\ t.held = tx[r].held
      /\ t.kinds = kinds /\ t.rows = tx[r].rows
  BY <1>1, <1>4 DEF Tx
<1> HIDE DEF t
<1>8. unacked' \subseteq Event /\ faults' \in 0..MaxFaults
  BY <1>3 DEF Inv, TypeOK
<1>9. TypeOK' /\ Quiet(r) /\ tx'[r] = t
  BY <1>3, <1>7, <1>8, QuietTypes DEF Inv
<1>10. AckedIsStored'
  BY <1>3 DEF Inv, Committed, CountedOnce, AckedIsStored, Stored
<1>11. Stored' = Stored /\ setting' = setting /\ row' = row
       /\ \A s \in Session : Of(s)' = Of(s) /\ Fresh(r, s)' = Fresh(r, s)
  BY <1>3, <1>7, <1>9 DEF Stored, Of, Fresh
<1>12. Good(r)
  BY DEF Inv, Transactions, Good
<1>13. Shaped(r)'
  BY <1>3, <1>7, <1>9, <1>11, <1>12 DEF Good, Shaped, Begun
<1>14. \A s \in Session : /\ Upserted(row[s], Fresh(r, s))' = Upserted(row[s], Fresh(r, s))
                          /\ MergedKind(Fresh(r, s))' = MergedKind(Fresh(r, s))
  BY <1>11, SameUpsert
<1>15. Written(r)'
  <2>1. tx[r].held \subseteq Session
    BY <1>1, Fields
  <2>2. QED
    BY <1>7, <1>9, <1>12, <1>14, <2>1 DEF Good, Written
<1>16. Touched(r)'
  <2>1. ASSUME NEW e \in Event, reached(e)
        PROVE  e \in tx[r].fresh \/ (e \in Stored /\ setting.session[e] \in tx[r].held)
    <3>1. setting.session[e] \in tx[r].held
      <4>1. Fresh(r, setting.session[e]) # {} /\ setting.session[e] \in Session
        BY <2>1, ClaimingHasEvents
      <4>2. QED
        BY <1>3, <1>12, <4>1 DEF Good, Shaped
    <3>2. tx[r].kinds[e] # Absent \/ e \in Stored
      BY <2>1 DEF Stored
    <3>3. QED
      BY <1>12, <3>1, <3>2 DEF Good, Touched
  <2>2. ASSUME NEW e \in Event, ~reached(e)
        PROVE  kinds[e] = tx[r].kinds[e]
    BY <1>6, <2>2
  <2> HIDE DEF reached
  <2>3. QED
    BY <1>5, <1>7, <1>9, <1>11, <1>12, <2>1, <2>2 DEF Good, Touched
<1>17. Reached(r)'
  <2>1. Claiming(r)' = Claiming(r)
    BY <1>14 DEF Claiming
  <2>2. ASSUME NEW s \in escalated, NEW e \in Of(s),
               kinds[e] # Absent \/ e \in Stored, e \in span(s)
        PROVE  kinds[e] = tx[r].rows[s].kind
    <3>1. e \in Event /\ setting.session[e] = s
      BY DEF Of
    <3>2. kindOf(e) # Absent
      <4>1. CASE reached(e)
        BY <4>1
      <4>2. CASE ~reached(e)
        BY <1>6, <2>2, <3>1, <4>2 DEF Stored
      <4>3. QED
        BY <4>1, <4>2
    <3>3. reached(e)
      BY <2>2, <3>1, <3>2
    <3>4. QED
      BY <1>5, <3>1, <3>3
  <2>3. \A s \in tx[r].settled : row[s].kind # "INTERACTIVE"
    BY <1>12 DEF Good, Reached
  <2>4. QED
    BY <1>7, <1>9, <1>11, <2>1, <2>2, <2>3 DEF Reached, Claiming
<1>18. \A q \in Request \ {r} : Apart(r, q)'
  BY <1>7, <1>9 DEF Inv, Transactions, Apart, Quiet
<1>19. QED
  BY <1>9, <1>10, <1>13, <1>15, <1>16, <1>17, <1>18, QuietKeeps DEF Good

-----------------------------------------------------------------------------
(* The commit and the sweep.                                               *)

\* What an upsert writes is true of the events there are once it is committed.
LEMMA UpsertedSumsUp ==
  ASSUME Inv, NEW r \in Request, NEW s \in Session, Fresh(r, s) # {},
         NEW new, new = Upserted(row[s], Fresh(r, s)),
         NEW own, own = (Stored \cap Of(s)) \cup Fresh(r, s)
  PROVE  /\ new.total = Cardinality(own) /\ new.last = Max(own) /\ own # {}
         /\ new.status # "none"
         /\ new.status = "COMPLETED" <=> own \cap setting.ends # {}
         /\ new.ended # NoEvent => new.ended \in own \cap setting.ends
         /\ row[s].kind # "INTERACTIVE" => new.kind = row[s].kind
         /\ new.kind # row[s].kind => row[s].kind = "INTERACTIVE" /\ s \in Claiming(r)
<1> DEFINE S == Fresh(r, s)
           old == Stored \cap Of(s)
<1>1. setting \in Scenario /\ row[s] \in Row
  BY Types DEF Inv
<1>2. S \in SUBSET Event /\ old \in SUBSET Event /\ old \cap S = {}
  BY UpsertFits
<1>3. Cardinality(S) \in Nat /\ Cardinality(old) \in Nat
      /\ Cardinality(own) = Cardinality(old) + Cardinality(S)
  BY <1>2, Adds
<1>4. /\ row[s].total = Cardinality(old) /\ (row[s].status = "none" <=> old = {})
      /\ old # {} => row[s].last = Max(old)
  BY DEF Inv, Committed, CountedOnce, RowsSumUpEvents
<1>5. /\ row[s].status = "COMPLETED" <=> old \cap setting.ends # {}
      /\ row[s].ended # NoEvent => row[s].ended \in old \cap setting.ends
  BY DEF Inv, Committed, CompletedIffEnded
<1>6. row[s].status = "none" => row[s].kind = "INTERACTIVE"
  BY DEF Inv, Committed, NoRowIsBlank, NoRow
<1>7. /\ FirstEnd(S) # NoEvent => FirstEnd(S) \in S \cap setting.ends
      /\ FirstEnd(S) = NoEvent <=> S \cap setting.ends = {}
  BY <1>1, <1>2, FirstEnds
<1>8. MergedKind(S) # "INTERACTIVE" => s \in Claiming(r)
  BY DEF Claiming
<1>9. CASE row[s].status = "none"
  <2>1. new = [total |-> Cardinality(S), started |-> Min(S), last |-> Max(S),
               ended |-> FirstEnd(S),
               status |-> IF FirstEnd(S) # NoEvent THEN "COMPLETED" ELSE "ACTIVE",
               kind |-> MergedKind(S)]
    BY <1>9 DEF Upserted
  <2>2. /\ new.total = Cardinality(S) /\ new.last = Max(S) /\ new.ended = FirstEnd(S)
        /\ new.status = (IF FirstEnd(S) # NoEvent THEN "COMPLETED" ELSE "ACTIVE")
        /\ new.kind = MergedKind(S)
    BY <2>1
  <2>3. own = S
    BY <1>4, <1>9
  <2> HIDE DEF S
  <2>4. QED
    BY <1>6, <1>7, <1>8, <1>9, <2>2, <2>3 DEF S
<1>10. CASE row[s].status # "none"
  <2>1. new = [total |-> row[s].total + Cardinality(S), started |-> row[s].started,
               last |-> Max({row[s].last, Max(S)}),
               ended |-> IF row[s].ended # NoEvent THEN row[s].ended ELSE FirstEnd(S),
               status |-> IF FirstEnd(S) # NoEvent /\ row[s].ended = NoEvent
                          THEN "COMPLETED" ELSE row[s].status,
               kind |-> MergeRunKind(row[s].kind, MergedKind(S))]
    BY <1>10 DEF Upserted
  <2>2. /\ new.total = row[s].total + Cardinality(S) /\ new.last = Max({row[s].last, Max(S)})
        /\ new.ended = (IF row[s].ended # NoEvent THEN row[s].ended ELSE FirstEnd(S))
        /\ new.status = (IF FirstEnd(S) # NoEvent /\ row[s].ended = NoEvent
                         THEN "COMPLETED" ELSE row[s].status)
        /\ new.kind = MergeRunKind(row[s].kind, MergedKind(S))
    BY <2>1
  <2>3. new.last = Max(own) /\ own # {} /\ new.total = Cardinality(own)
    <3>1. old # {}
      BY <1>4, <1>10
    <3>2. Max(old \cup S) = Max({Max(old), Max(S)})
      BY <1>2, <3>1, MaxOfBoth
    <3>3. QED
      BY <1>3, <1>4, <2>2, <3>1, <3>2
  <2>4. new.status # "none" /\ (new.status = "COMPLETED" <=> own \cap setting.ends # {})
        /\ (new.ended # NoEvent => new.ended \in own \cap setting.ends)
    <3>1. own = old \cup S
      OBVIOUS
    <3> HIDE DEF old, S
    <3>2. QED
      BY <1>5, <1>7, <1>10, <2>2, <3>1
  <2>5. /\ row[s].kind # "INTERACTIVE" => new.kind = row[s].kind
        /\ new.kind # row[s].kind => row[s].kind = "INTERACTIVE" /\ s \in Claiming(r)
    BY <1>8, <2>2 DEF MergeRunKind
  <2>6. QED
    BY <2>3, <2>4, <2>5
<1>11. QED
  BY <1>9, <1>10

\* A commit stores the request's events and the rows of the sessions it holds;
\* other sessions keep theirs, and their events.
LEMMA CommitWrites ==
  ASSUME Inv, NEW r \in Request, Commit(r)
  PROVE  /\ setting' = setting /\ unacked' = unacked /\ faults' = faults
         /\ Stored' = Stored \cup tx[r].fresh /\ \A s \in Session : Of(s)' = Of(s)
         /\ stored' \in [Event -> Kind \cup {Absent}] /\ row' \in [Session -> Row]
         /\ \A e \in Event :
              stored'[e] = IF tx[r].kinds[e] # Absent THEN tx[r].kinds[e] ELSE stored[e]
         /\ \A s \in tx[r].held :
              /\ s \in Session /\ Fresh(r, s) # {}
              /\ row'[s] = Upserted(row[s], Fresh(r, s)) /\ row'[s] = tx[r].rows[s]
         /\ \A s \in Session \ tx[r].held : row'[s] = row[s]
         /\ \A e \in Event : setting.session[e] \notin tx[r].held => tx[r].kinds[e] = Absent
         /\ \A s \in Session \ tx[r].held : Stored' \cap Of(s) = Stored \cap Of(s)
<1>1. /\ setting \in Scenario /\ tx[r] \in Tx
      /\ stored \in [Event -> Kind \cup {Absent}] /\ row \in [Session -> Row]
  BY Types DEF Inv
<1>2. /\ tx[r].at = "commit" /\ setting' = setting /\ unacked' = unacked /\ faults' = faults
      /\ stored' = [e \in Event |-> IF tx[r].kinds[e] # Absent THEN tx[r].kinds[e] ELSE stored[e]]
      /\ row' = [s \in Session |-> IF s \in tx[r].held THEN tx[r].rows[s] ELSE row[s]]
  BY DEF Commit
<1>3. Good(r)
  BY DEF Inv, Transactions, Good
<1>4. \A s \in Session : s \in tx[r].held <=> Fresh(r, s) # {}
  BY <1>2, <1>3 DEF Good, Shaped
<1>5. \A e \in Event : setting.session[e] \in Session
  BY <1>1, Settings
<1>6. \A e \in Event : e \in tx[r].fresh => setting.session[e] \in tx[r].held
  BY <1>4, <1>5 DEF Fresh, Of
<1>7. \A e \in Event : tx[r].kinds[e] # Absent => setting.session[e] \in tx[r].held
  BY <1>3, <1>6 DEF Good, Touched
<1>8. \A e \in Event :
        stored'[e] = IF tx[r].kinds[e] # Absent THEN tx[r].kinds[e] ELSE stored[e]
  BY <1>2
<1>9. stored' \in [Event -> Kind \cup {Absent}]
  BY <1>1, <1>2, Fields
<1>10. Stored' = Stored \cup tx[r].fresh
  <2>1. \A e \in Event : stored'[e] # Absent <=> stored[e] # Absent \/ e \in tx[r].fresh
    BY <1>3, <1>8 DEF Good, Touched, Stored
  <2>2. tx[r].fresh \subseteq Event
    BY <1>1, Fields
  <2>3. QED
    BY <2>1, <2>2 DEF Stored
<1>11. \A s \in Session : Of(s)' = Of(s)
  BY <1>2 DEF Of
<1>12. tx[r].held \subseteq Session
  BY <1>1, Fields
<1>13. \A s \in tx[r].held : row'[s] = tx[r].rows[s] /\ row'[s] = Upserted(row[s], Fresh(r, s))
  BY <1>2, <1>3, <1>12 DEF Good, Written
<1>14. \A s \in Session \ tx[r].held : row'[s] = row[s]
  BY <1>2
<1>15. row' \in [Session -> Row]
  BY <1>1, <1>2, Fields
<1>16. \A s \in Session \ tx[r].held : Stored' \cap Of(s) = Stored \cap Of(s)
  BY <1>4, <1>10 DEF Fresh
<1>17. QED
  BY <1>2, <1>4, <1>7, <1>8, <1>9, <1>10, <1>11, <1>12, <1>13, <1>14, <1>15, <1>16

\* The kind of a session that is a pipeline's does not change.
LEMMA CommitKeepsKinds ==
  ASSUME Inv, NEW r \in Request, Commit(r), NEW s \in Session, row[s].kind # "INTERACTIVE"
  PROVE  row'[s].kind = row[s].kind
<1>1. CASE s \in tx[r].held
  <2>1. Fresh(r, s) # {} /\ row'[s] = Upserted(row[s], Fresh(r, s))
    BY <1>1, CommitWrites
  <2>2. \E own : own = (Stored \cap Of(s)) \cup Fresh(r, s)
    OBVIOUS
  <2>3. QED
    BY <2>1, <2>2, UpsertedSumsUp
<1>2. CASE s \notin tx[r].held
  BY <1>2, CommitWrites
<1>3. QED
  BY <1>1, <1>2

\* A commit keeps the other transactions apart and true to the tables.
LEMMA CommitKeepsOthers ==
  ASSUME Inv, NEW r \in Request, Commit(r), NEW q \in Request \ {r}
  PROVE  Good(q)' /\ tx'[q] = tx[q]
<1>1. tx'[q] = tx[q] /\ tx[q] \in Tx
  BY Types DEF Inv, Commit
<1>2. setting' = setting /\ Stored' = Stored \cup tx[r].fresh /\ \A s \in Session : Of(s)' = Of(s)
  BY CommitWrites
<1>3. Good(q) /\ Apart(r, q)
  BY DEF Inv, Transactions, Good
<1>4. \A s \in Session : Fresh(q, s)' = Fresh(q, s)
  BY <1>1, <1>2 DEF Fresh
<1>5. \A s \in tx[q].held : s \in Session /\ s \notin tx[r].held /\ row'[s] = row[s]
  <2>1. tx[q].held \subseteq Session
    BY <1>1, Fields
  <2>2. QED
    BY <1>3, <2>1, CommitWrites DEF Apart
<1>6. Shaped(q)'
  BY <1>1, <1>2, <1>3, <1>4 DEF Good, Shaped, Apart
<1>7. Written(q)'
  <2>1. \A s \in tx[q].held : Upserted(row[s], Fresh(q, s))' = Upserted(row[s], Fresh(q, s))
    BY <1>2, <1>4, <1>5, SameUpsert
  <2>2. QED
    BY <1>1, <1>3, <2>1 DEF Good, Written
<1>8. Touched(q)'
  BY <1>1, <1>2, <1>3 DEF Good, Touched
<1>9. Reached(q)'
  <2>1. \A s \in tx'[q].settled : row'[s].kind # "INTERACTIVE"
    <3>1. tx[q].settled \subseteq Session
      BY <1>1, Fields
    <3>2. QED
      BY <1>1, <1>3, <3>1, CommitKeepsKinds DEF Good, Reached
  <2>2. ASSUME tx[q].at = "commit", NEW s \in Claiming(q)' \ tx[q].settled, NEW e \in Of(s)',
               tx[q].kinds[e] # Absent \/ e \in Stored',
               e \in tx[q].rows[s].started..tx[q].rows[s].last
        PROVE  tx[q].kinds[e] = tx[q].rows[s].kind
    <3>1. \A u \in Session : MergedKind(Fresh(q, u))' = MergedKind(Fresh(q, u))
      <4>1. ASSUME NEW u \in Session
            PROVE  MergedKind(Fresh(q, u))' = MergedKind(Fresh(q, u))
        <5>1. {x \in Fresh(q, u) : Claim(x) # "INTERACTIVE"}'
              = {x \in Fresh(q, u) : Claim(x) # "INTERACTIVE"}
          BY <1>2, <1>4 DEF Claim
        <5>2. QED
          BY <1>2, <5>1 DEF MergedKind, Claim
      <4>2. QED
        BY <4>1
    <3>2. s \in Claiming(q)
      BY <3>1 DEF Claiming
    <3>3. s \in Session /\ s \in tx[q].held
      <4>1. s \in Session /\ Fresh(q, s) # {}
        BY <3>2, ClaimingHasEvents
      <4>2. QED
        BY <1>3, <2>2, <4>1 DEF Good, Shaped
    <3>4. e \in Of(s) /\ Stored' \cap Of(s) = Stored \cap Of(s)
      <4>1. s \in Session \ tx[r].held
        BY <1>5, <3>3
      <4>2. QED
        BY <1>2, <4>1, CommitWrites
    <3>5. QED
      BY <1>3, <2>2, <3>2, <3>4 DEF Good, Reached
  <2>3. QED
    BY <1>1, <2>1, <2>2 DEF Reached
<1>10. QED
  BY <1>1, <1>6, <1>7, <1>8, <1>9 DEF Good

\* A commit.
LEMMA CommitKeeps ==
  ASSUME Inv, NEW r \in Request, Commit(r)
  PROVE  Inv'
<1> DEFINE t == [Idle EXCEPT !.at = "answer", !.batch = tx[r].batch, !.listening = tx[r].listening]
<1>1. tx[r] \in Tx /\ tx \in [Request -> Tx] /\ tx[r].at = "commit" /\ tx' = [tx EXCEPT ![r] = t]
  BY Types DEF Inv, Commit
<1>2. /\ t \in Tx /\ t.at = "answer" /\ t.batch = tx[r].batch
      /\ t.fresh = {} /\ t.held = {} /\ t.todo = {} /\ t.settled = {}
      /\ \A e \in Event : t.kinds[e] = Absent
  BY <1>1, Blanks, Fields DEF Idle, Tx
<1> HIDE DEF t
<1>3. TypeOK'
  <2>1. tx' \in [Request -> Tx]
    BY <1>1, <1>2
  <2>2. setting' \in Scenario /\ unacked' \subseteq Event /\ faults' \in 0..MaxFaults
    BY CommitWrites DEF Inv, TypeOK
  <2>3. QED
    BY <2>1, <2>2, CommitWrites DEF TypeOK, Tx
<1>4. setting' = setting /\ Stored' = Stored \cup tx[r].fresh /\ \A s \in Session : Of(s)' = Of(s)
  BY CommitWrites
<1>5. tx'[r] = t
  BY <1>1
<1>6. Good(r)'
  <2>1. \A s \in Session : Fresh(r, s)' = {}
    BY <1>2, <1>5 DEF Fresh
  <2>2. tx[r].batch \ setting.invalid \subseteq Stored \cup tx[r].fresh
    BY <1>1 DEF Inv, Transactions, Shaped, Begun
  <2>3. Shaped(r)'
    BY <1>2, <1>4, <1>5, <2>1, <2>2 DEF Shaped, Begun
  <2>4. Written(r)' /\ Touched(r)' /\ Reached(r)'
    BY <1>2, <1>5 DEF Written, Touched, Reached
  <2>5. QED
    BY <2>3, <2>4 DEF Good
<1>7. Transactions'
  <2>1. \A q \in Request : Good(q)'
    BY <1>6, CommitKeepsOthers
  <2>2. \A p, q \in Request : Apart(p, q)'
    <3>1. \A q \in Request \ {r} : tx'[q] = tx[q]
      BY <1>1
    <3>2. QED
      BY <1>2, <1>5, <3>1 DEF Inv, Transactions, Apart
  <2>3. QED
    BY <2>1, <2>2 DEF Transactions, Good
<1>8. Committed'
  <2>1. ASSUME NEW s \in Session, s \in tx[r].held
        PROVE  /\ row'[s].total = Cardinality(Stored' \cap Of(s))
               /\ row'[s].last = Max(Stored' \cap Of(s)) /\ Stored' \cap Of(s) # {}
               /\ row'[s].status # "none"
               /\ row'[s].status = "COMPLETED" <=> (Stored' \cap Of(s)) \cap setting.ends # {}
               /\ row'[s].ended # NoEvent => row'[s].ended \in (Stored' \cap Of(s)) \cap setting.ends
    <3>1. Fresh(r, s) # {} /\ row'[s] = Upserted(row[s], Fresh(r, s))
      BY <2>1, CommitWrites
    <3>2. Stored' \cap Of(s) = (Stored \cap Of(s)) \cup Fresh(r, s)
      BY <1>4 DEF Fresh
    <3>3. QED
      BY <3>1, <3>2, UpsertedSumsUp
  <2>2. ASSUME NEW s \in Session, s \notin tx[r].held
        PROVE  row'[s] = row[s] /\ Stored' \cap Of(s) = Stored \cap Of(s)
    BY <2>2, CommitWrites
  <2>3. RowsSumUpEvents'
    <3>1. ASSUME NEW s \in Session
          PROVE  /\ row'[s].total = Cardinality(Stored' \cap Of(s))
                 /\ (row'[s].status = "none") <=> (Stored' \cap Of(s) = {})
                 /\ Stored' \cap Of(s) # {} => row'[s].last = Max(Stored' \cap Of(s))
      <4>1. CASE s \in tx[r].held
        BY <2>1, <4>1
      <4>2. CASE s \notin tx[r].held
        BY <2>2, <4>2 DEF Inv, Committed, CountedOnce, RowsSumUpEvents
      <4>3. QED
        BY <4>1, <4>2
    <3>2. QED
      BY <1>4, <3>1 DEF RowsSumUpEvents
  <2>4. CompletedIffEnded'
    <3>1. ASSUME NEW s \in Session
          PROVE  /\ (row'[s].status = "COMPLETED") <=> (Stored' \cap Of(s) \cap setting.ends # {})
                 /\ row'[s].ended # NoEvent => row'[s].ended \in Stored' \cap Of(s) \cap setting.ends
      <4>1. CASE s \in tx[r].held
        BY <2>1, <4>1
      <4>2. CASE s \notin tx[r].held
        BY <2>2, <4>2 DEF Inv, Committed, CompletedIffEnded
      <4>3. QED
        BY <4>1, <4>2
    <3>2. QED
      BY <1>4, <3>1 DEF CompletedIffEnded
  <2>5. NoRowIsBlank'
    BY <2>1, <2>2 DEF Inv, Committed, NoRowIsBlank
  <2>6. AckedIsStored'
    BY <1>4, CommitWrites DEF Inv, Committed, CountedOnce, AckedIsStored
  <2>7. QED
    BY <2>3, <2>4, <2>5, <2>6 DEF Committed, CountedOnce
<1>9. QED
  BY <1>3, <1>7, <1>8 DEF Inv

\* The sweep closes an open session, and leaves all else.
LEMMA SweepKeeps ==
  ASSUME Inv, NEW s \in Session, SweepAbandoned(s)
  PROVE  Inv' /\ stored' = stored /\ \A u \in Session : row'[u].kind = row[u].kind
<1>1. /\ row \in [Session -> Row] /\ row[s].status = "ACTIVE"
      /\ row' = [row EXCEPT ![s].status = "ABANDONED"]
      /\ setting' = setting /\ unacked' = unacked /\ tx' = tx /\ stored' = stored /\ faults' = faults
      /\ \A q \in Request : s \notin tx[q].held
  BY Types DEF Inv, SweepAbandoned
<1>2. /\ \A u \in Session \ {s} : row'[u] = row[u]
      /\ row'[s] = [row[s] EXCEPT !.status = "ABANDONED"] /\ row[s] \in Row
  BY <1>1
<1>3. row' \in [Session -> Row]
  <2>1. [row[s] EXCEPT !.status = "ABANDONED"] \in Row
    BY <1>2 DEF Row
  <2>2. QED
    BY <1>1, <2>1
<1>4. /\ row'[s].total = row[s].total /\ row'[s].last = row[s].last /\ row'[s].kind = row[s].kind
      /\ row'[s].ended = row[s].ended /\ row'[s].status = "ABANDONED"
  BY <1>2 DEF Row
<1>5. \A u \in Session : /\ row'[u].total = row[u].total /\ row'[u].last = row[u].last
                         /\ row'[u].kind = row[u].kind /\ row'[u].ended = row[u].ended
  BY <1>2, <1>4
<1>6. \A u \in Session : /\ row'[u].status = "none" <=> row[u].status = "none"
                         /\ row'[u].status = "COMPLETED" <=> row[u].status = "COMPLETED"
                         /\ row'[u].status = "none" => row'[u] = row[u]
  BY <1>1, <1>2, <1>4
<1>7. TypeOK'
  BY <1>1, <1>3 DEF Inv, TypeOK
<1>8. Stored' = Stored /\ \A u \in Session : Of(u)' = Of(u)
  BY <1>1 DEF Stored, Of
<1>9. Transactions'
  <2>1. ASSUME NEW q \in Request PROVE Good(q)'
    <3>1. Good(q) /\ tx'[q] = tx[q] /\ tx[q] \in Tx
      BY <1>1, Types DEF Inv, Transactions, Good
    <3>2. \A u \in Session : Fresh(q, u)' = Fresh(q, u)
      BY <1>1, <1>8 DEF Fresh
    <3>3. Shaped(q)' /\ Touched(q)'
      BY <1>1, <1>8, <3>1, <3>2 DEF Good, Shaped, Touched
    <3>4. \A u \in tx[q].held : row'[u] = row[u] /\ u \in Session
      BY <1>1, <1>2, <3>1, Fields
    <3>5. \A u \in tx[q].held : Upserted(row[u], Fresh(q, u))' = Upserted(row[u], Fresh(q, u))
      BY <1>1, <3>2, <3>4, SameUpsert
    <3>6. Written(q)'
      BY <3>1, <3>5 DEF Good, Written
    <3>7. \A u \in Session : MergedKind(Fresh(q, u))' = MergedKind(Fresh(q, u))
      <4>1. ASSUME NEW u \in Session
            PROVE  MergedKind(Fresh(q, u))' = MergedKind(Fresh(q, u))
        <5>1. {x \in Fresh(q, u) : Claim(x) # "INTERACTIVE"}'
              = {x \in Fresh(q, u) : Claim(x) # "INTERACTIVE"}
          BY <1>1, <3>2 DEF Claim
        <5>2. QED
          BY <1>1, <5>1 DEF MergedKind, Claim
      <4>2. QED
        BY <4>1
    <3>8. Reached(q)'
      <4>1. Claiming(q)' = Claiming(q)
        BY <3>7 DEF Claiming
      <4>2. tx[q].settled \subseteq Session
        BY <3>1, Fields
      <4>3. QED
        BY <1>5, <1>8, <3>1, <4>1, <4>2 DEF Good, Reached, Claiming
    <3>9. QED
      BY <3>3, <3>6, <3>8 DEF Good
  <2>2. \A p, q \in Request : Apart(p, q)'
    BY <1>1 DEF Inv, Transactions, Apart
  <2>3. QED
    BY <2>1, <2>2 DEF Transactions, Good
<1>10. Committed'
  <2>1. RowsSumUpEvents'
    BY <1>5, <1>6, <1>8 DEF Inv, Committed, CountedOnce, RowsSumUpEvents
  <2>2. AckedIsStored'
    BY <1>1, <1>8 DEF Inv, Committed, CountedOnce, AckedIsStored
  <2>3. CompletedIffEnded'
    BY <1>1, <1>5, <1>6, <1>8 DEF Inv, Committed, CompletedIffEnded
  <2>4. NoRowIsBlank'
    BY <1>6 DEF Inv, Committed, NoRowIsBlank
  <2>5. QED
    BY <2>1, <2>2, <2>3, <2>4 DEF Committed, CountedOnce
<1>11. QED
  BY <1>1, <1>5, <1>7, <1>9, <1>10 DEF Inv

-----------------------------------------------------------------------------
(* Theorems.                                                               *)

\* Every step keeps the invariant.
LEMMA InvNext == Inv /\ [Next]_vars => Inv'
<1> SUFFICES ASSUME Inv, [Next]_vars PROVE Inv'
  OBVIOUS
<1>1. ASSUME NEW r \in Request, NEW batch \in SUBSET Event, Post(r, batch)
      PROVE  Inv'
  BY <1>1, PostKeeps
<1>2. ASSUME NEW r \in Request, Serve(r)
      PROVE  Inv'
  <2>1. BreakDeadlock(r) => Inv'
    <3>1. BreakDeadlock(r) => RolledBack(r) /\ faults' \in 0..MaxFaults
      BY DEF BreakDeadlock, Inv, TypeOK
    <3>2. QED
      BY <3>1, RolledBackKeeps
  <2>2. QED
    BY <1>2, <2>1, InsertKeeps, ProbeKeeps, UpsertKeeps, PropagateKeeps, CommitKeeps, AnswerKeeps
       DEF Serve
<1>3. ASSUME NEW r \in Request, Fail(r)
      PROVE  Inv'
  <2>1. RolledBack(r) /\ faults' \in 0..MaxFaults
    BY <1>3, BoundsAssumption DEF Fail, Inv, TypeOK
  <2>2. QED
    BY <2>1, RolledBackKeeps
<1>4. ASSUME NEW r \in Request, GiveUp(r)
      PROVE  Inv'
  BY <1>4, GiveUpKeeps
<1>5. ASSUME NEW s \in Session, SweepAbandoned(s)
      PROVE  Inv'
  BY <1>5, SweepKeeps
<1>6. CASE UNCHANGED vars
  <2>1. /\ setting' = setting /\ unacked' = unacked /\ tx' = tx /\ stored' = stored
        /\ row' = row /\ faults' = faults
    BY <1>6 DEF vars
  <2>2. TypeOK'
    BY <2>1 DEF Inv, TypeOK
  <2>3. Committed'
    BY <2>1 DEF Inv, Committed, CountedOnce, RowsSumUpEvents, AckedIsStored, CompletedIffEnded,
           NoRowIsBlank, Stored, Of
  <2>4. Transactions'
    <3>1. Stored' = Stored /\ \A s \in Session : Of(s)' = Of(s)
      BY <2>1 DEF Stored, Of
    <3>2. \A q \in Request : \A s \in Session : Fresh(q, s)' = Fresh(q, s)
      BY <2>1, <3>1 DEF Fresh
    <3>3. \A q \in Request : \A s \in Session :
            /\ Upserted(row[s], Fresh(q, s))' = Upserted(row[s], Fresh(q, s))
            /\ MergedKind(Fresh(q, s))' = MergedKind(Fresh(q, s))
      BY <2>1, <3>2, SameUpsert
    <3>4. ASSUME NEW q \in Request PROVE Good(q)'
      <4>1. Good(q) /\ tx[q] \in Tx
        BY Types DEF Inv, Transactions, Good
      <4>2. Shaped(q)' /\ Touched(q)'
        BY <2>1, <3>1, <3>2, <4>1 DEF Good, Shaped, Touched
      <4>3. tx[q].held \subseteq Session
        BY <4>1, Fields
      <4>4. Written(q)'
        BY <2>1, <3>3, <4>1, <4>3 DEF Good, Written
      <4>5. Claiming(q)' = Claiming(q)
        BY <3>3 DEF Claiming
      <4>6. Reached(q)'
        BY <2>1, <3>1, <4>1, <4>5 DEF Good, Reached, Claiming
      <4>7. QED
        BY <4>2, <4>4, <4>6 DEF Good
    <3>5. \A p, q \in Request : Apart(p, q)'
      BY <2>1 DEF Inv, Transactions, Apart
    <3>6. QED
      BY <3>4, <3>5 DEF Transactions, Good
  <2>5. QED
    BY <2>2, <2>3, <2>4 DEF Inv
<1>7. QED
  BY <1>1, <1>2, <1>3, <1>4, <1>5, <1>6 DEF Next

\* The invariant holds throughout: the theorems below follow from it.
THEOREM Invariant == Spec => []Inv
BY InvInit, InvNext, PTL DEF Spec

\* Every variable has its type, and no row counts more events than there are.
THEOREM TypeCorrect == Spec => []TypeOK
<1>1. Inv => TypeOK
  BY DEF Inv
<1>2. QED
  BY <1>1, Invariant, PTL

\* Each event the machine is rid of counts once in its session, and nothing
\* counts that is not stored, whatever is retried, rolled back, or under way twice.
THEOREM EachCountedOnce == Spec => []CountedOnce
<1>1. Inv => CountedOnce
  BY DEF Inv, Committed
<1>2. QED
  BY <1>1, Invariant, PTL

\* A session is COMPLETED exactly if an event that ends it is stored.
THEOREM CompletedIfEnded == Spec => []CompletedIffEnded
<1>1. Inv => CompletedIffEnded
  BY DEF Inv, Committed
<1>2. QED
  BY <1>1, Invariant, PTL

\* What EscalationReaches asks of a step.
EscalationStep ==
  \A s \in Session :
    /\ row[s].kind # "INTERACTIVE" => row'[s].kind = row[s].kind
    /\ row'[s].kind # row[s].kind =>
         \A e \in Of(s) :
           (stored'[e] # Absent /\ e \in row'[s].started..row'[s].last)
             => stored'[e] = row'[s].kind
    /\ \A e \in Stored : stored'[e] # Absent

\* A commit takes the events of the sessions it makes a pipeline's along.
LEMMA CommitEscalates ==
  ASSUME Inv, NEW r \in Request, Commit(r)
  PROVE  EscalationStep
<1>1. tx[r].at = "commit" /\ tx[r] \in Tx
  BY Types DEF Inv, Commit
<1>2. Reached(r)
  BY DEF Inv, Transactions
<1>3. \A s \in Session : row[s].kind # "INTERACTIVE" => row'[s].kind = row[s].kind
  BY CommitKeepsKinds
<1>4. ASSUME NEW s \in Session, row'[s].kind # row[s].kind, NEW e \in Of(s),
             stored'[e] # Absent, e \in row'[s].started..row'[s].last
      PROVE  stored'[e] = row'[s].kind
  <2>1. s \in tx[r].held
    BY <1>4, CommitWrites
  <2>2. Fresh(r, s) # {} /\ row'[s] = Upserted(row[s], Fresh(r, s)) /\ row'[s] = tx[r].rows[s]
    BY <2>1, CommitWrites
  <2>3. row[s].kind = "INTERACTIVE" /\ s \in Claiming(r)
    <3>1. \E own : own = (Stored \cap Of(s)) \cup Fresh(r, s)
      OBVIOUS
    <3>2. QED
      BY <1>4, <2>2, <3>1, UpsertedSumsUp
  <2>4. s \notin tx[r].settled
    BY <1>2, <2>3 DEF Reached
  <2>5. e \in Event
    BY DEF Of
  <2>6. stored'[e] = IF tx[r].kinds[e] # Absent THEN tx[r].kinds[e] ELSE stored[e]
    BY <2>5, CommitWrites
  <2>7. tx[r].kinds[e] # Absent \/ e \in Stored
    BY <1>4, <2>5, <2>6 DEF Stored
  <2>8. tx[r].kinds[e] = tx[r].rows[s].kind
    BY <1>1, <1>2, <1>4, <2>2, <2>3, <2>4, <2>7 DEF Reached
  <2>9. tx[r].rows[s].kind # Absent
    BY <1>1, <2>2, Fields, RowFields DEF Kind, Absent
  <2>10. QED
    BY <2>2, <2>6, <2>8, <2>9
<1>5. \A e \in Stored : stored'[e] # Absent
  <2>1. Stored \subseteq Stored'
    BY CommitWrites
  <2>2. QED
    BY <2>1 DEF Stored
<1>6. QED
  BY <1>3, <1>4, <1>5 DEF EscalationStep

\* When a session becomes a pipeline's, so does every event stored by then in
\* the span of its row; it never becomes a person's again.
THEOREM EscalationAlwaysReaches == Spec => EscalationReaches
<1>1. Inv /\ [Next]_vars => [EscalationStep]_<<row, stored>>
  <2> SUFFICES ASSUME Inv, [Next]_vars PROVE [EscalationStep]_<<row, stored>>
    OBVIOUS
  <2>1. ASSUME NEW r \in Request, Commit(r) PROVE EscalationStep
    BY <2>1, CommitEscalates
  <2>2. ASSUME NEW s \in Session, SweepAbandoned(s) PROVE EscalationStep
    BY <2>2, SweepKeeps DEF EscalationStep, Stored
  <2>3. ASSUME NEW r \in Request, Serve(r) PROVE Commit(r) \/ UNCHANGED <<row, stored>>
    <3>1. InsertEventsBatch(r) => UNCHANGED <<row, stored>>
      BY DEF InsertEventsBatch
    <3>2. PropagateRunKind(r) => UNCHANGED <<row, stored>>
      BY DEF PropagateRunKind
    <3>3. \A s \in Session : UpsertSession(r, s) => UNCHANGED <<row, stored>>
      BY DEF UpsertSession
    <3>4. Probe(r) \/ Answer(r) \/ BreakDeadlock(r) => UNCHANGED <<row, stored>>
      BY DEF Probe, Answer, BreakDeadlock, RolledBack
    <3>5. QED
      BY <2>3, <3>1, <3>2, <3>3, <3>4 DEF Serve
  <2>4. ASSUME NEW r \in Request, Fail(r) \/ GiveUp(r) \/ \E batch \in SUBSET Event : Post(r, batch)
        PROVE  UNCHANGED <<row, stored>>
    BY <2>4 DEF Fail, GiveUp, RolledBack, Post
  <2>5. UNCHANGED vars => UNCHANGED <<row, stored>>
    BY DEF vars
  <2>6. QED
    BY <2>1, <2>2, <2>3, <2>4, <2>5 DEF Next
<1>2. EscalationReaches <=> [][EscalationStep]_<<row, stored>>
  BY DEF EscalationReaches, EscalationStep
<1>3. QED
  BY <1>1, <1>2, Invariant, PTL DEF Spec

-----------------------------------------------------------------------------
(* The abstract ledger.                                                    *)

\* The tables as a ledger: an event is recorded when it is stored, a session's
\* total is the one in its row, and the machine has parted with what is no
\* longer queued.
Total == [s \in Session |-> row[s].total]

Ledger == INSTANCE EventLedger WITH
  of <- setting.session, rejected <- setting.invalid, recorded <- Stored,
  total <- Total, gone <- Event \ unacked

ledger == <<setting.session, setting.invalid, Stored, Total, Event \ unacked>>

\* The ledger counts as the tables do.
LEMMA SameCount ==
  ASSUME NEW S
  PROVE  Ledger!Cardinality(S) = Cardinality(S)
BY Zenon DEF Ledger!Cardinality, Cardinality

\* A commit records the events its request found new, each once.
LEMMA CommitRecords ==
  ASSUME Inv, NEW r \in Request, Commit(r)
  PROVE  Ledger!Record(tx[r].fresh) /\ tx[r].fresh \in SUBSET Event
<1> DEFINE S == tx[r].fresh
<1>1. tx[r] \in Tx /\ row \in [Session -> Row] /\ setting' = setting /\ unacked' = unacked
  BY Types, CommitWrites DEF Inv
<1>2. S \in SUBSET Event
  BY <1>1, Fields
<1>3. S \cap (Stored \cup setting.invalid) = {}
  BY DEF Inv, Transactions, Shaped
<1>4. Stored' = Stored \cup S
  BY CommitWrites
<1>5. ASSUME NEW s \in Session
      PROVE  row'[s].total = row[s].total + Cardinality({e \in S : setting.session[e] = s})
  <2>1. {e \in S : setting.session[e] = s} = Fresh(r, s)
    BY <1>2 DEF Fresh, Of
  <2>2. Fresh(r, s) \in SUBSET Event /\ Stored \cap Of(s) \in SUBSET Event
        /\ (Stored \cap Of(s)) \cap Fresh(r, s) = {}
    BY <1>2, <1>3 DEF Fresh, Stored
  <2>3. row[s].total = Cardinality(Stored \cap Of(s))
    BY DEF Inv, Committed, CountedOnce, RowsSumUpEvents
  <2>4. CASE s \in tx[r].held
    <3>1. Fresh(r, s) # {} /\ row'[s] = Upserted(row[s], Fresh(r, s))
      BY <2>4, CommitWrites
    <3>2. \A own : own = (Stored \cap Of(s)) \cup Fresh(r, s) => row'[s].total = Cardinality(own)
      BY <3>1, UpsertedSumsUp
    <3>3. QED
      BY <2>1, <2>2, <2>3, <3>2, Adds
  <2>5. CASE s \notin tx[r].held
    <3>1. row'[s] = row[s]
      BY <2>5, CommitWrites
    <3>2. Fresh(r, s) = {}
      BY <2>5 DEF Inv, Transactions, Shaped, Commit
    <3>3. Cardinality({}) = 0 /\ row[s].total \in Nat
      BY <1>1, FS_EmptySet, RowFields, Events
    <3>4. QED
      BY <2>1, <3>1, <3>2, <3>3
  <2>6. QED
    BY <2>4, <2>5
<1> HIDE DEF S
<1>6. Total' = [s \in Session |-> Total[s] + Cardinality({e \in S : setting.session[e] = s})]
  BY <1>5 DEF Total
<1>7. UNCHANGED <<setting.session, setting.invalid, Event \ unacked>>
  BY <1>1
<1>8. Total' = [s \in Session |->
                   Total[s] + Ledger!Cardinality({e \in S : setting.session[e] = s})]
  BY <1>6, SameCount
<1>9. Ledger!Record(S)
  BY <1>3, <1>4, <1>7, <1>8, Zenon DEF Ledger!Record
<1>10. QED
  BY <1>2, <1>9 DEF S

\* An answer parts with events of a batch that are recorded or rejected.
LEMMA AnswerParts ==
  ASSUME Inv, NEW r \in Request, Answer(r)
  PROVE  \E S \in SUBSET Event : Ledger!PartWith(S)
<1>1. tx[r] \in Tx /\ unacked \subseteq Event
  BY Types DEF Inv
<1>2. tx[r].at = "answer" /\ UNCHANGED <<setting, stored, row>>
      /\ unacked' = IF tx[r].listening THEN unacked \ tx[r].batch ELSE unacked
  BY DEF Answer
<1>3. tx[r].batch \in SUBSET Event /\ tx[r].batch \subseteq Stored \cup setting.invalid
  BY <1>1, <1>2, Fields DEF Inv, Transactions, Shaped, Begun
<1>4. Stored' = Stored /\ Total' = Total
  BY <1>2 DEF Stored, Total
<1>5. CASE tx[r].listening
  <2>1. (Event \ unacked)' = (Event \ unacked) \cup tx[r].batch
    BY <1>1, <1>2, <1>3, <1>5
  <2>2. Ledger!PartWith(tx[r].batch)
    BY <1>2, <1>3, <1>4, <2>1 DEF Ledger!PartWith
  <2>3. QED
    BY <1>3, <2>2
<1>6. CASE ~tx[r].listening
  <2>1. Ledger!PartWith({})
    BY <1>2, <1>4, <1>6 DEF Ledger!PartWith
  <2>2. QED
    BY <2>1
<1>7. QED
  BY <1>5, <1>6

\* Every other step leaves the ledger as it is: nothing counts before its commit,
\* a rollback takes nothing back, and the sweep touches no total.
LEMMA LedgerRests ==
  ASSUME Inv, [Next]_vars,
         ~ \E r \in Request : Commit(r) \/ Answer(r)
  PROVE  UNCHANGED ledger
<1>1. ASSUME UNCHANGED <<setting, unacked, stored, row>>
      PROVE  UNCHANGED ledger
  BY <1>1 DEF ledger, Stored, Total
<1>2. ASSUME NEW r \in Request, Serve(r)
      PROVE  UNCHANGED <<setting, unacked, stored, row>>
  <2>1. InsertEventsBatch(r) => UNCHANGED <<setting, unacked, stored, row>>
    BY DEF InsertEventsBatch
  <2>2. Probe(r) \/ PropagateRunKind(r) \/ BreakDeadlock(r)
          => UNCHANGED <<setting, unacked, stored, row>>
    BY DEF Probe, PropagateRunKind, BreakDeadlock, RolledBack
  <2>3. \A s \in Session : UpsertSession(r, s) => UNCHANGED <<setting, unacked, stored, row>>
    BY DEF UpsertSession
  <2>4. QED
    BY <1>2, <2>1, <2>2, <2>3 DEF Serve
<1>3. ASSUME NEW r \in Request, Fail(r) \/ GiveUp(r) \/ \E batch \in SUBSET Event : Post(r, batch)
      PROVE  UNCHANGED <<setting, unacked, stored, row>>
  BY <1>3 DEF Fail, GiveUp, RolledBack, Post
<1>4. ASSUME NEW s \in Session, SweepAbandoned(s)
      PROVE  UNCHANGED ledger
  <2>1. row \in [Session -> Row] /\ row' = [row EXCEPT ![s].status = "ABANDONED"]
        /\ UNCHANGED <<setting, unacked, stored>>
    BY <1>4, Types DEF Inv, SweepAbandoned
  <2>2. \A t \in Session : row'[t].total = row[t].total
    BY <2>1 DEF Row
  <2>3. Total' = Total /\ Stored' = Stored
    BY <2>1, <2>2 DEF Total, Stored
  <2>4. QED
    BY <2>1, <2>3 DEF ledger
<1>5. UNCHANGED vars => UNCHANGED <<setting, unacked, stored, row>>
  BY DEF vars
<1>6. QED
  BY <1>1, <1>2, <1>3, <1>4, <1>5 DEF Next

\* Before anything is posted the ledger is empty.
LEMMA LedgerInit == Init => Ledger!Init
<1> SUFFICES ASSUME Init PROVE Ledger!Init
  OBVIOUS
<1>1. setting \in Scenario /\ unacked = Event
      /\ stored = [e \in Event |-> Absent] /\ row = [s \in Session |-> NoRow]
  BY DEF Init
<1>2. Stored = {} /\ Total = [s \in Session |-> 0]
  BY <1>1 DEF Stored, Total, NoRow
<1>3. QED
  BY <1>1, <1>2, Settings DEF Ledger!Init

\* The ingestion implements EventLedger: whatever is posted again, rolled back
\* or under way twice, every step records some new events, each once and in its
\* session, or parts with events that are recorded or rejected, or does neither.
THEOREM LedgerRefinement == Spec => Ledger!Spec
<1>1. Inv /\ [Next]_vars => [Ledger!Next]_ledger
  <2> SUFFICES ASSUME Inv, [Next]_vars PROVE [Ledger!Next]_ledger
    OBVIOUS
  <2>1. ASSUME NEW r \in Request, Commit(r) PROVE Ledger!Next
    BY <2>1, CommitRecords DEF Ledger!Next
  <2>2. ASSUME NEW r \in Request, Answer(r) PROVE Ledger!Next
    BY <2>2, AnswerParts DEF Ledger!Next
  <2>3. QED
    BY <2>1, <2>2, LedgerRests
<1>2. QED
  BY <1>1, LedgerInit, Invariant, PTL DEF Spec, Ledger!Spec, ledger
=============================================================================
