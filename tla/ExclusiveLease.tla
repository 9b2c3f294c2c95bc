--------------------------- MODULE ExclusiveLease ---------------------------
(***************************************************************************)
(* What a delivery lease promises its users, with the rows, the clock and  *)
(* the renewals left out: for every kind of delivery work at most one      *)
(* process may count on being the only one doing it, and that right passes *)
(* to another process only after it has lapsed.  A holder may lose the     *)
(* right at any moment (release, death, a renewal that comes too late).    *)
(***************************************************************************)
CONSTANTS Kind, Proc

VARIABLE owner      \* owner[k]: the processes entitled to do work of kind k

Init == owner = [k \in Kind |-> {}]

\* The right to do work of kind k lapses, or nothing changes.
Lapse(k) == owner'[k] \subseteq owner[k]

\* A process gets the right to do work of kind k, which nobody had.
Grant(k) == owner[k] = {} /\ \E p \in Proc : owner'[k] = {p}

(* One step may concern several kinds: a drainer starts with both leases   *)
(* at once, and a late renewal revives all the rows nobody took meanwhile. *)
Next == /\ owner' \in [Kind -> SUBSET Proc]
        /\ \A k \in Kind : Lapse(k) \/ Grant(k)

Spec == Init /\ [][Next]_owner
=============================================================================
