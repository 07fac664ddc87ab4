--------------------------- MODULE PersonMonitor ---------------------------
(***************************************************************************)
(* The person monitor's poller in Main, the AI server that answers it, and *)
(* the reconciliation at Main's start.  Advisories are what passed         *)
(* process_advisory's filters (task, age, confidence, cooldown): the       *)
(* filters themselves are pure and not modelled here.                      *)
(***************************************************************************)
EXTENDS HeldTask

\* poll_robot asks for monitors that are enabled.
Watching == Idle(Watcher) /\ rt = "on"

\* A person: decision, safety stop and hold in one commit, then the E-stop.
SeePerson ==
    /\ Watching
    /\ "person" \in Faults
    /\ session
    /\ CommitHold
    /\ Goto(Watcher, "estop")
    /\ UNCHANGED <<monitorVars, up, navVars>>

\* The AI server has not answered for person_hazard_stale_sec.
MonitorOutage ==
    /\ Watching
    /\ "ai" \in Faults
    /\ FailSafe(Watcher, "idle")
    /\ UNCHANGED <<up, navVars>>

\* NO_ACTIVE_MONITOR: enable_monitor is asked to arm again.
Reassert ==
    /\ Watching
    /\ ~session
    /\ Arm
    /\ UNCHANGED <<recordVars, up, job, navVars>>

\* VisionMonitorStateStore lives in the memory of the AI server.
AIRestart ==
    /\ "ai" \in Faults
    /\ session' = FALSE
    /\ UNCHANGED <<recordVars, rt, up, job, navVars>>

NavRestart ==
    /\ "navcrash" \in Faults
    /\ nav' = [c \in Command |-> "NONE"]
    /\ gate' = NoCommand
    /\ estop' = FALSE
    /\ mail' = {}
    /\ UNCHANGED <<recordVars, monitorVars, up, job>>

-----------------------------------------------------------------------------
Crash ==
    /\ up
    /\ "crash" \in Faults
    /\ up' = FALSE
    /\ job' = [w \in Worker |-> NoHeldJob]
    /\ rt' = "none"
    /\ UNCHANGED <<recordVars, session, navVars>>

StepMayMove == orch.st \in {"dispatching", "dispatched"}

\* mutant: a move that is being dispatched is not taken for motion
SentMoveMayMove == orch.disp \in {"SENT", "ABORT_STOP_REQUESTED"}

RecoveryMayMove ==
    \/ orch.rcmd # 0 /\ orch.disp \in {"PENDING", "DISPATCHING", "SENT"}
    \/ orch.disp = "ABORT_STOP_REQUESTED"

\* held_motion_is_proven_inactive, of the step's command.
ProvenInactive ==
    LET s == nav[StepCmd(orch.gen)]
    IN  s \in CancelTerminal \/ (s = "NONE" /\ Active = {})

\* What reconcile_startup_person_hazard_safety stops.  It looks at the
\* monitor policy of the current step, also when a recovery move runs.
MustHold ==
    /\ task = "RUNNING"
    /\ Watched
    /\ \/ orch.phase = "RUNNING" /\ StepMayMove
       \/ orch.phase = "RECOVERY_RUNNING" /\ RecoveryMayMove

\* A hold is kept; its E-stop is repeated unless Nav proves the step over.
MayRestop ==
    /\ task = "RUNNING"
    /\ Watched
    /\ orch.phase = "AWAITING_OPERATOR"
    /\ StepMayMove

Restart ==
    /\ ~up
    /\ up' = TRUE
    /\ \/ /\ MustHold
          /\ CommitHold
          /\ rt' = "tripped"
          /\ TryEstop
       \/ /\ MayRestop
          /\ ~ProvenInactive \/ Lossy
          /\ stopOpen' = TRUE
          /\ rt' = "tripped"
          /\ TryEstop
          /\ UNCHANGED <<task, robot, orch>>
       \/ /\ ~MustHold
          /\ MayRestop => ProvenInactive
          /\ UNCHANGED <<recordVars, rt, navVars>>
    /\ UNCHANGED <<session, job>>

Monitor ==
    \/ SeePerson
    \/ MonitorOutage
    \/ Reassert
=============================================================================
