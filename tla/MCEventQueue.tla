---------------------------- MODULE MCEventQueue ----------------------------
(* Small instances of EventQueue. *)
EXTENDS EventQueue

With(workers, corrupt, poison, throwers, faults) ==
  [workers |-> workers, corrupt |-> corrupt, poison |-> poison,
   throwers |-> throwers, faults |-> faults]

\* A server and a network that fail, workers that die; tokens that come, go
\* and are revoked beside a corrupt row.
EverythingFails == {
  With(Worker, {}, {}, {}, {"crash", "network", "throttle", "reject", "again", "bytes"}),
  With(Worker, {1}, {}, {}, {"revoke", "login", "reject"}),
  With(Worker, {1}, {}, {}, {"logout", "login", "throw"})}

\* The resident flusher, with a poisoned row and one whose flush throws;
\* drainers only, with a poisoned row and a corrupt one.
Obstacles == {
  With({"resident"}, {}, {1}, {2}, {"throttle", "network", "logout", "login"}),
  With({"drainer"}, {2}, {1}, {}, {"throttle", "network", "revoke", "login"})}
=============================================================================
