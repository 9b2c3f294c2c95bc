--------------------------- MODULE MCDeliveryLease ---------------------------
(* Small instances of DeliveryLease.  A drainer needs the events lease and  *)
(* takes the transcripts lease if it is free; a shipper (or an import)      *)
(* needs the transcripts lease; a flusher needs the events lease.           *)
EXTENDS DeliveryLease

CONSTANTS d1, d2, s1, ev, tr

NeededKinds == [p \in Proc |-> IF p = s1 THEN {tr} ELSE {ev}]
OptionalKinds == [p \in Proc |-> IF p = s1 THEN {} ELSE {tr}]

NoSteps == {}
\* One step back past the sanity bound, one forward past the TTL.
BackAndForth == {-3, 2}
=============================================================================
