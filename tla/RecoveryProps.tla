--------------------------- MODULE RecoveryProps ---------------------------
(***************************************************************************)
(* What is checked of operator recovery and of the person monitor.         *)
(***************************************************************************)
EXTENDS Recovery

\* Recovery never takes the interrupted work up again by itself: whoever ends
\* it, the task is held for the operator or aborted.
RecoveryEndsInHold ==
    [][orch.phase = "RECOVERY_RUNNING" =>
          orch'.phase \in {"RECOVERY_RUNNING", "AWAITING_OPERATOR", "ABORTED"}]_vars

\* A loaded safe move runs under the person monitor.
LoadedMoveIsWatched ==
    \A n \in 1..MaxMoves :
        /\ nav[SafeCmd(n)] = "ACTIVE"
        /\ Owns(SafeCmd(n))
        /\ orch.watch
        => rt # "none" \/ ~up

\* Once a step was resumed under a new command, the command it replaces does
\* not run.
OldCommandIsOver ==
    \A g \in 0..MaxGen : g < orch.gen => nav[StepCmd(g)] # "ACTIVE"

\* A manual abort gives the robot away only when none of its commands is ACTIVE,
\* where requests and answers arrive and the operator waits for them: its stop
\* (task_recovery.py:1418) ends no command, the E-stop of the hold before it did.
\* One that is canceled may still drain.
AbortedIsStill == task = "CANCELLED" => Active = {}

\* A safe move, its stop and a manual abort come to an end: the task is held
\* again, or aborted, also when the callbacks are lost and the operator saves
\* decisions meanwhile.
RecoveryEnds == (orch.phase = "RECOVERY_RUNNING") ~> (orch.phase # "RECOVERY_RUNNING")

-----------------------------------------------------------------------------
(* A promise of the AI server's documentation that Main breaks.            *)

\* Main arms the person monitor again when the AI server has restarted and
\* answers that it watches nothing.
MonitorIsReasserted == (rt = "on" /\ ~session) ~> (rt # "on" \/ session)
=============================================================================
