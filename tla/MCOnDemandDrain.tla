--------------------------- MODULE MCOnDemandDrain ---------------------------
(* Small instances of OnDemandDrain: hooks h1 (a SessionEnd), h2 and h3,    *)
(* passes d1 and d2, a user's command c1.                                   *)
EXTENDS OnDemandDrain, TLC

CONSTANTS h1, h2, h3, d1, d2, c1

Passes == Permutations(Drainer)

With(hooks, commands, faults_) == [hooks |-> hooks, commands |-> commands, faults |-> faults_]

\* Three hooks and nothing that fails; processes that die and servers that
\* fail; passes that are refused the lease, the token or the server; an import
\* that dies, or sleeps.
Anything == {
  With({h1, h2, h3}, {}, {}),
  With({h1, h2}, {}, {"crash", "transport", "token"}),
  With({h1, h2}, {}, {"transport", "token", "cap", "slow", "suspend"}),
  With({h1}, {c1}, {"crash", "spawn", "transport", "token", "cap", "slow"}),
  With({h1}, {c1}, {"suspend", "slow", "crash"})}

NothingFails == {With({h1, h2}, {c1}, {})}
=============================================================================
