---------------------------- MODULE EventLedger ----------------------------
(***************************************************************************)
(* What the ingestion of events promises: each event adds one to the total *)
(* of its session, once, in the step in which it is recorded; one the      *)
(* schema rejects never does; and the machine that keeps the events parts  *)
(* with one only when it is recorded or can never be.                      *)
(***************************************************************************)
EXTENDS Naturals, FiniteSets

CONSTANTS Event, Session

VARIABLES
  of,        \* the session of each event
  rejected,  \* the events the schema does not take
  recorded,  \* the events that count
  total,     \* how many a session has
  gone       \* the events the machine has parted with

Init ==
  /\ of \in [Event -> Session]
  /\ rejected \in SUBSET Event
  /\ recorded = {} /\ gone = {}
  /\ total = [s \in Session |-> 0]

Record(S) ==
  /\ S \cap (recorded \cup rejected) = {}
  /\ recorded' = recorded \cup S
  /\ total' = [s \in Session |-> total[s] + Cardinality({e \in S : of[e] = s})]
  /\ UNCHANGED <<of, rejected, gone>>

PartWith(S) ==
  /\ S \subseteq recorded \cup rejected
  /\ gone' = gone \cup S
  /\ UNCHANGED <<of, rejected, recorded, total>>

Next == \E S \in SUBSET Event : Record(S) \/ PartWith(S)

Spec == Init /\ [][Next]_<<of, rejected, recorded, total, gone>>
=============================================================================
