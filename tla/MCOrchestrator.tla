-------------------------- MODULE MCOrchestrator --------------------------
(* Small instances of Orchestrator: the steps of a work order, in the      *)
(* order plan_command_steps gives them, with two threads of Main.          *)
EXTENDS OrchestratorProps

CONSTANTS poller, http

MCWorker == {poller, http}

\* The work between the first approach and the delivery.
ShortKind == <<"move", "load", "carry", "unload">>

ReturnKind == <<"move", "load", "carry", "unload", "move">>

MCCommand == (1..N) \X (0..MaxGen)
MCOpens == {c \in MCCommand : Kind[c[1]] \in {"move", "carry"}}
MCConsumes == {c \in MCCommand : Kind[c[1]] \in {"load", "unload", "align"}}
=============================================================================
