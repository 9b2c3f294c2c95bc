---------------------------- MODULE MCIngestEvents ----------------------------
(* Small instances of IngestEvents: sessions s1 and s2 of one machine.       *)
EXTENDS IngestEvents

CONSTANTS s1, s2, r1, r2

With(session, claim, ends, invalid) ==
  [session |-> session, claim |-> claim, ends |-> ends, invalid |-> invalid]

I == "INTERACTIVE"

\* Two sessions that alternate, so that two batches may lock them in opposite
\* orders, one of them a pipeline's from its second event on; one session with
\* two claims, two ends and a rejected event.
Mixed == {
  With(<<s1, s2, s2, s1>>, <<I, I, I, "CI">>, {3}, {}),
  With(<<s1, s1, s1, s1>>, <<I, "CI", I, "EVAL">>, {1, 4}, {3})}

=============================================================================
