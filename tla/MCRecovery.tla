----------------------------- MODULE MCRecovery -----------------------------
(* Small instances of Recovery: one step, one request thread, and the two  *)
(* pollers of Main.                                                        *)
EXTENDS RecoveryProps

CONSTANTS poller, watcher, http

MCWorker == {poller, watcher, http}

MCCommand == {StepCmd(g) : g \in 0..MaxGen} \cup {SafeCmd(n) : n \in 1..MaxMoves}
=============================================================================
