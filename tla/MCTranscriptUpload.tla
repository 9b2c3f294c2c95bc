------------------------- MODULE MCTranscriptUpload -------------------------
(* Small instances of TranscriptUpload. *)
EXTENDS TranscriptUpload

With(first, second, shared, faults) ==
  [chunks |-> <<first, second>>, shared |-> shared, faults |-> faults]

\* Impatient clients and restarts between chunks; sweeps beside uploads;
\* storage that fails; a user who goes.
Everything == {
  With(2, 2, FALSE, {"giveUp", "restart", "scratch"}),
  With(1, 2, TRUE, {"giveUp", "slow"}),
  With(1, 1, FALSE, {"giveUp", "s3", "db", "expiry", "restart"}),
  With(1, 1, FALSE, {"giveUp", "s3", "db", "expiry", "erasure"})}
=============================================================================
