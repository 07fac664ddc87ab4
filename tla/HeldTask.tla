------------------------------ MODULE HeldTask ------------------------------
(***************************************************************************)
(* One running task with one step of movement, its durable record, and     *)
(* what Main shares between the person monitor and operator recovery: the  *)
(* hold (AWAITING_OPERATOR), the safety stop, the E-stop requests and the  *)
(* arming of the AI person monitor.                                        *)
(*                                                                         *)
(* The commands are moves: the step under its retry generations, and the   *)
(* safe moves that recovery issues, each under an identity of its own.     *)
(* An action ends where the code commits, rolls back or waits for a remote *)
(* server, as in Orchestrator.                                             *)
(***************************************************************************)
EXTENDS NavContract

CONSTANTS
    Watched,     \* step.human_hazard_monitor: the step carries the pallet
    MaxGen,      \* bound on the retry generation of the step
    MaxMoves,    \* bound on the safe moves
    MaxMarks,    \* bound on the holds that the monitor places
    Worker,      \* the threads of Main: requests,
    Poller,      \* the task progress poller,
    Watcher,     \* and the person monitor's poller
    Unhurried,   \* a person acts only when the requests to Nav are over
    Faults       \* what the environment may do, see HeldFaultKind

StepCmd(g) == <<"step", g>>
SafeCmd(n) == <<"safe", n>>

\* "loss": a request or its answer is lost; "crash": Main crashes;
\* "navcrash": Nav restarts; "person": a person is seen; "ai": the AI server
\* restarts or does not answer; "stop": the operator stops the work order;
\* "note": the operator saves a decision without executing it; "fleet": the
\* operator stops all robots.
HeldFaultKind == {"loss", "crash", "navcrash", "person", "ai", "stop", "note",
                  "fleet"}

ASSUME HeldTaskAssumption ==
    /\ Watched \in BOOLEAN
    /\ Unhurried \in BOOLEAN
    /\ MaxGen \in Nat
    /\ MaxMoves \in Nat
    /\ MaxMarks \in Nat
    /\ Command = {StepCmd(g) : g \in 0..MaxGen} \cup {SafeCmd(n) : n \in 1..MaxMoves}
    /\ Opens = Command
    /\ Consumes = {}
    /\ {Poller, Watcher} \subseteq Worker
    /\ Poller # Watcher
    /\ Faults \subseteq HeldFaultKind

VARIABLES
    task,      \* tasks.status
    robot,     \* robots.status
    orch,      \* the latest ORCHESTRATION row
    stopOpen,  \* a safety stop of the task is OPEN or HOLDING
    rt,        \* person_hazard._runtime of the robot, in Main's memory
    session,   \* the AI server's monitor session of the robot
    up,        \* the Main process is running
    job        \* what every thread of Main is doing

recordVars == <<task, robot, orch, stopOpen>>
monitorVars == <<rt, session>>
vars == <<task, robot, orch, stopOpen, rt, session, up, job, nav, gate, estop, mail>>

HeldPhase == {"RUNNING", "AWAITING_OPERATOR", "RECOVERY_RUNNING", "DONE",
              "FAILED", "ABORTED"}

HeldStep == {"pending", "dispatching", "dispatched", "ended"}

\* recovery.dispatch_state, "none" when it is popped.
Disp == {"none", "PENDING", "DISPATCHING", "SENT", "REJECTED",
         "ABORT_STOP_REQUESTED"}

HeldCargo == {"LOADED", "EMPTY", "UNKNOWN"}

\* The step and the recovery part of the record.  "mark" stands for
\* marked_at, which makes every hold of the monitor a new fingerprint.
HeldOrch == [phase : HeldPhase, st : HeldStep, gen : 0..MaxGen,
             moves : 0..MaxMoves,          \* safe moves issued so far
             rcmd : 0..MaxMoves,           \* active_command_id, 0 for none
             disp : Disp, stopreq : BOOLEAN, cargo : HeldCargo,
             watch : BOOLEAN,              \* recovery.human_hazard_monitor
             mark : 0..MaxMarks]

FirstOrch == [phase |-> "RUNNING", st |-> "pending", gen |-> 0, moves |-> 0,
              rcmd |-> 0, disp |-> "none", stopreq |-> FALSE,
              cargo |-> "UNKNOWN", watch |-> FALSE, mark |-> 0]

\* "none": no MonitorRuntime; "on": enabled; "tripped": fail_safe_triggered.
Runtime == {"none", "on", "tripped"}

HeldAt == {"idle", "estop", "estop_rhold", "closing",
           "arm", "claim", "post", "posted",
           "rhealth", "rverify", "rcommit", "note",
           "shealth", "scommit", "rarm", "rclaim", "rpost", "rfinal",
           "rcancel", "rcancelling", "restop", "runstopped", "rclose", "rhold",
           "scancel", "scancelling", "abort", "afinal", "ahold", "disarm",
           "festop"}

HeldJob == [at : HeldAt, snap : HeldOrch, cmd : Command \cup {NoCommand},
            cargo : HeldCargo]

NoHeldJob == [at |-> "idle", snap |-> FirstOrch, cmd |-> NoCommand,
              cargo |-> "UNKNOWN"]

HeldTypeOK ==
    /\ NavTypeOK
    /\ task \in {"RUNNING", "DONE", "FAILED", "CANCELLED"}
    /\ robot \in {"RUNNING", "IDLE"}
    /\ orch \in HeldOrch
    /\ stopOpen \in BOOLEAN
    /\ rt \in Runtime
    /\ session \in BOOLEAN
    /\ up \in BOOLEAN
    /\ job \in [Worker -> HeldJob]

HeldInit ==
    /\ NavInit
    /\ task = "RUNNING"
    /\ robot = "RUNNING"
    /\ orch = FirstOrch
    /\ stopOpen = FALSE
    /\ rt = "none"
    /\ session = FALSE
    /\ up = TRUE
    /\ job = [w \in Worker |-> NoHeldJob]

-----------------------------------------------------------------------------
(* Threads.                                                                *)

Doing(w, a) == up /\ job[w].at = a
Idle(w) == Doing(w, "idle")
Request(w) == Idle(w) /\ w \notin {Poller, Watcher}

\* A thread is about to send, or waits for, a request that may move or stop
\* the robot.
Sending == {"estop", "estop_rhold", "post", "posted", "rarm", "rpost", "rfinal",
            "rclose", "rhold", "rcancel", "rcancelling", "restop", "festop"}

\* No such request is under way, and an E-stop has ended what it stops.
Leisure ==
    Unhurried => /\ \A w \in Worker : job[w].at \notin Sending
                 /\ estop => Active = {}

Become(w, j) == job' = [job EXCEPT ![w] = j]
Goto(w, a) == Become(w, [job[w] EXCEPT !.at = a])
Finish(w) == Become(w, NoHeldJob)

Lossy == "loss" \in Faults

\* A remote E-stop that arrives, or is lost.
TryEstop == Estop \/ (Lossy /\ UNCHANGED navVars)

-----------------------------------------------------------------------------
(* The hold of the person monitor.                                         *)

Await(o) == [o EXCEPT !.phase = "AWAITING_OPERATOR"]

\* mark_task_needs_attention: whatever the phase, the record is held and its
\* recovery part is replaced.
Marked(o) ==
    [Await(o) EXCEPT !.rcmd = 0, !.disp = "none", !.stopreq = FALSE,
                     !.cargo = "UNKNOWN", !.watch = FALSE, !.mark = o.mark + 1]

\* The stop and the hold are committed before the E-stop is sent.
CommitHold ==
    /\ orch.mark < MaxMarks
    /\ orch' = Marked(orch)
    /\ stopOpen' = TRUE
    /\ UNCHANGED <<task, robot>>

-----------------------------------------------------------------------------
(* Arming and disarming.                                                   *)

\* arm_physical_motion_monitor, enable_monitor: a monitor that is enabled for
\* the task is kept as it is; else the session is started.
Arm ==
    \/ rt = "on" /\ UNCHANGED monitorVars
    \/ rt # "on" /\ rt' = "on" /\ session' = TRUE

CannotArm == rt # "on" /\ "ai" \in Faults

\* disable_monitor: the session may survive a request that fails.
Disarm ==
    /\ rt' = "none"
    /\ IF rt = "none" THEN UNCHANGED session
       ELSE session' = FALSE \/ ("ai" \in Faults /\ UNCHANGED session)

\* fail_safe_monitor_outage, up to its commit; once per runtime.
FailSafe(w, next) ==
    IF rt = "tripped"
    THEN Goto(w, next) /\ UNCHANGED <<recordVars, monitorVars>>
    ELSE /\ CommitHold
         /\ rt' = "tripped"
         /\ UNCHANGED session
         /\ Goto(w, IF next = "idle" THEN "estop" ELSE "estop_rhold")

\* mutant: a step whose dispatch is under way is not taken to move the robot
SendEstopIfDispatched(w) ==
    /\ Doing(w, "estop") \/ Doing(w, "estop_rhold")
    /\ IF orch.st = "dispatching" THEN UNCHANGED navVars ELSE TryEstop
    /\ IF job[w].at = "estop" THEN Finish(w) ELSE Goto(w, "rhold")
    /\ UNCHANGED <<recordVars, monitorVars, up>>

SendEstop(w) ==
    /\ Doing(w, "estop") \/ Doing(w, "estop_rhold")
    /\ TryEstop
    /\ IF job[w].at = "estop" THEN Finish(w) ELSE Goto(w, "rhold")
    /\ UNCHANGED <<recordVars, monitorVars, up>>
=============================================================================
