---------------------------- MODULE MCShipMarker ----------------------------
(* Small instances of ShipMarker. *)
EXTENDS ShipMarker

With(modes, sessions, chunked, poison, faults) ==
  [modes |-> modes, sessions |-> sessions, chunked |-> chunked, overlap |-> FALSE,
   poison |-> poison, faults |-> faults]

Detached(one) == [one EXCEPT !.overlap = TRUE]

\* Chunked uploads of a session that workers and servers interrupt; bodies of
\* one chunk and all that makes a marker go; a session the server fails on
\* beside one that is fine; hooks that overlap.
Everything == {
  With(Mode, {1}, TRUE, {}, {"crash", "conflict", "error"}),
  With({"resident"}, {1}, FALSE, {}, {"idle", "unauthorized", "reject", "missing", "unreadable"}),
  With({"drain"}, {1}, FALSE, {}, {"idle", "end", "network", "error"}),
  With(Mode, {1}, TRUE, {}, {"conflict", "network"}),
  With({"drain"}, {1, 2}, FALSE, {2}, {}),
  Detached(With(Mode, {1}, FALSE, {}, {"end", "error"}))}
=============================================================================
