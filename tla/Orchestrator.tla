---------------------------- MODULE Orchestrator ----------------------------
(***************************************************************************)
(* One work order driven by Main: its durable orchestration record, the    *)
(* threads of Main that read and write it (HTTP request threads and the    *)
(* progress poller), and the Nav server of its robot (NavContract).        *)
(*                                                                         *)
(* An action ends where the code commits, rolls back, or waits for a       *)
(* remote server: everything another thread may slip in between is a step  *)
(* of its own, and what a thread read before such a point is kept in its   *)
(* job.  Reads that take the task's advisory lock are made in the step     *)
(* that commits.                                                           *)
(***************************************************************************)
EXTENDS NavContract

CONSTANTS
    N,        \* number of steps of the scenario
    Kind,     \* the kind of every step
    MaxGen,   \* bound on the retry generation of a step
    Worker,   \* the threads of Main
    Poller,   \* the one of them that polls running tasks
    Faults    \* what the environment may do, see FaultKind

StepKind == {"leave", "move", "carry", "load", "unload", "align"}

\* move_to_point: "carry" is the leg with the pallet, under person monitoring.
MoveKinds == {"move", "carry"}

Step == 1..N
Gen == 0..MaxGen

\* "loss": a request, its answer or a gate is lost; "crash": Main crashes;
\* "hold": persons, the E-stop button; "stop": the operator stops the work
\* order; "refuse": the evidence service does not approve a transfer;
\* "start": a start is asked for while another is under way.
FaultKind == {"loss", "crash", "hold", "stop", "refuse", "start"}

ASSUME OrchestratorAssumption ==
    /\ N \in Nat \ {0}
    /\ MaxGen \in Nat
    /\ Kind \in [Step -> StepKind]
    /\ Kind[1] \in {"leave", "move"}
    /\ Command = Step \X Gen
    /\ Opens = {c \in Command : Kind[c[1]] \in MoveKinds}
    /\ Consumes = {c \in Command : Kind[c[1]] \in {"load", "unload", "align"}}
    /\ Poller \in Worker
    /\ Faults \subseteq FaultKind

\* plan_command_steps puts the approach right before every dock transfer and
\* never ends with a load.
ASSUME ApproachAssumption ==
    /\ \A i \in Step : Kind[i] \in {"load", "unload"} =>
          i > 1 /\ Kind[i - 1] \in MoveKinds
    /\ Kind[N] # "load"

\* _build_inout_scenario: a work order delivers once, what it loaded before,
\* and then only drives home and parks.
ASSUME DeliveryAssumption ==
    \E u \in Step :
        /\ Kind[u] = "unload"
        /\ \A i \in Step : i # u => Kind[i] # "unload"
        /\ \E i \in Step : i < u /\ Kind[i] = "load"
        /\ \A i \in Step : i > u => Kind[i] \in MoveKinds \cup {"align"}

VARIABLES
    task,      \* tasks.status
    robot,     \* robots.status of the assigned robot
    applied,   \* how often complete_task moved the inventory
    orch,      \* the latest ORCHESTRATION row of evidence_events
    up,        \* the Main process is running
    job,       \* what every thread of Main is doing, lost in a crash
    loaded     \* the pallet is on the robot's forks

mainVars == <<task, robot, applied, orch, up, job>>
vars == <<task, robot, applied, orch, up, job, loaded, nav, gate, estop, mail>>

-----------------------------------------------------------------------------
(* The durable record.                                                     *)

TaskStatus == {"ASSIGNED", "RUNNING", "DONE", "FAILED", "CANCELLED"}

Phase == {"NONE", "RUNNING", "ADVANCING", "CANCEL_REQUESTED",
          "AWAITING_OPERATOR", "DONE", "FAILED", "ABORTED", "CANCELLED"}

StepStatus == {"pending", "dispatching", "dispatched", "transition_claimed",
               "DONE", "CANCELLED", "FAILED", "ABORTED", "STOP_UNCONFIRMED"}

Cargo == {"EMPTY", "LOADED", "UNKNOWN"}

Reason == {"none", "unexpected_movement_cancel", "physical_stop_unconfirmed",
           "cancel_terminal_failure", "operator_safe_stop",
           "command_completed_during_stop", "movement_estop", "evidence_gate",
           "terminal_transition_error", "operator_safe_stop_no_active_command",
           "safety"}

StopRequest == [cmd : Command \cup {NoCommand}, cargo : Cargo, biz : BOOLEAN]
NoStop == [cmd |-> NoCommand, cargo |-> "UNKNOWN", biz |-> FALSE]

\* transition_id: the command and the event that claimed the current step.
Transition == [cmd : Command \cup {NoCommand}, ev : Event \cup {"none"}]
NoTransition == [cmd |-> NoCommand, ev |-> "none"]

Recovery == [why : Reason, cmd : Command \cup {NoCommand}, conf : BOOLEAN]
NoRecovery == [why |-> "none", cmd |-> NoCommand, conf |-> FALSE]

Orch == [phase : Phase,
         idx   : 1..(N + 1),          \* step_index, counted from 1
         len   : Step,                \* steps left in the plan
         st    : [Step -> StepStatus],
         gen   : [Step -> Gen],       \* retry_generation
         tid   : Transition,          \* transition_id of the claim
         appr  : {"none", "hold", "pass"},  \* approval of the unload step
         biz   : BOOLEAN,             \* business_completed
         stop  : StopRequest,
         rec   : Recovery]

NewOrch == [phase |-> "RUNNING", idx |-> 1, len |-> N,
            st |-> [i \in Step |-> "pending"], gen |-> [i \in Step |-> 0],
            tid |-> NoTransition, appr |-> "none", biz |-> FALSE,
            stop |-> NoStop, rec |-> NoRecovery]

NoOrch == [NewOrch EXCEPT !.phase = "NONE"]

At == {"idle", "start", "claim", "claimed", "dispatch", "gate", "dclaim", "send",
       "sent", "recancel", "recancelling", "unstopped", "cancel",
       "cancelling", "unconfirmed", "manual", "estop", "regate"}

Job == [at : At, snap : Orch, cmd : Command \cup {NoCommand},
        ev : Event \cup {"none"}, stopping : BOOLEAN, stop : StopRequest]

NoJob == [at |-> "idle", snap |-> NoOrch, cmd |-> NoCommand, ev |-> "none",
          stopping |-> FALSE, stop |-> NoStop]

TypeOK ==
    /\ NavTypeOK
    /\ task \in TaskStatus
    /\ robot \in {"BUSY", "IDLE"}
    /\ applied \in Nat
    /\ orch \in Orch
    /\ up \in BOOLEAN
    /\ job \in [Worker -> Job]
    /\ loaded \in BOOLEAN

Init ==
    /\ NavInit
    /\ task = "ASSIGNED"
    /\ robot = "BUSY"
    /\ applied = 0
    /\ orch = NoOrch
    /\ up = TRUE
    /\ job = [w \in Worker |-> NoJob]
    /\ loaded = FALSE

-----------------------------------------------------------------------------
(* Helpers.                                                                *)

\* deterministic_step_command_id
CommandOf(o) == <<o.idx, o.gen[o.idx]>>

InPlan(o) == o.idx <= o.len

\* mutant: a move is taken for ended by DONE, which Nav never posts for it
DoneEventsNotArrived(i) == {"DONE"}

DoneEvents(i) == IF Kind[i] \in MoveKinds THEN {"ARRIVED", "DONE"} ELSE {"DONE"}

\* The poller sees ABORTED without a reason, a callback carries the reason;
\* the transition id names the event alone.
EventName(e) == IF e = "ESTOP" THEN "ABORTED" ELSE e

SetStatus(o, s) == [o EXCEPT !.st[o.idx] = s, !.tid = NoTransition]

Held(o, why, c) ==
    [o EXCEPT !.phase = "AWAITING_OPERATOR",
              !.rec = [why |-> why, cmd |-> c, conf |-> FALSE]]

InHold(o) == o.phase = "AWAITING_OPERATOR"

\* cargo_state_after_steps: the last transfer done decides
CargoAfterSteps(o) ==
    IF \E i \in Step :
          /\ Kind[i] = "load" /\ o.st[i] = "DONE"
          /\ \A k \in Step : k > i /\ o.st[k] = "DONE" => Kind[k] # "unload"
    THEN "LOADED" ELSE "EMPTY"

\* A task that failed or was cancelled loses its robot.
HasRobot == task \notin {"FAILED", "CANCELLED"}

Idle(w) == up /\ job[w].at = "idle"
Doing(w, a) == up /\ job[w].at = a
Goto(w, a) == job' = [job EXCEPT ![w].at = a]
Finish(w) == job' = [job EXCEPT ![w] = NoJob]

SameTask == UNCHANGED <<task, robot, applied>>
SameWorld == UNCHANGED <<navVars, loaded>>

\* What a dock transfer that does not complete leaves on the forks.
Disturb(c) ==
    IF nav[c] = "ACTIVE" /\ Kind[c[1]] \in {"load", "unload"}
    THEN loaded' \in BOOLEAN ELSE UNCHANGED loaded

-----------------------------------------------------------------------------
(* Start: the status is read without a lock, the robot is asked which map  *)
(* it lives in, and then the fresh record, the status and the first step's *)
(* dispatch claim commit in one transaction, whatever was written since.   *)

\* By an operator's request, by the poller right after it assigned the task,
\* or by the thread that chains it to the robot's last one.
BeginStart(w) ==
    /\ Idle(w)
    /\ task = "ASSIGNED"
    /\ "start" \in Faults \/ \A x \in Worker : job[x].at # "start"
    /\ Goto(w, "start")
    /\ UNCHANGED <<orch, up>>
    /\ SameTask
    /\ SameWorld

StartTask(w) ==
    /\ Doing(w, "start")
    /\ HasRobot
    /\ LET o == SetStatus(NewOrch, "dispatching")
       IN  /\ orch' = o
           /\ job' = [job EXCEPT ![w] =
                         [NoJob EXCEPT !.at = "send", !.cmd = CommandOf(o)]]
    /\ task' = "RUNNING"
    /\ robot' = "BUSY"
    /\ UNCHANGED <<applied, up>>
    /\ SameWorld

\* 409: the robot does not answer or lives in another map, or the task has
\* no robot any more and its first dispatch rolls the start back.
RefuseStart(w) ==
    /\ Doing(w, "start")
    /\ "loss" \in Faults \/ ~HasRobot
    /\ Finish(w)
    /\ UNCHANGED <<orch, up>>
    /\ SameTask
    /\ SameWorld

-----------------------------------------------------------------------------
(* A terminal observation, by callback or by the poller, is read without a *)
(* lock, claimed in a transaction of its own, and finalized in another.    *)

\* The events _advance_on_command_event goes on to claim.
WorthClaiming(stopping, e, i) ==
    \/ e \in DoneEvents(i) \cup {"FAILED", "ABORTED", "ESTOP", "CANCELLED"}
    \/ stopping /\ e = "STOP_UNCONFIRMED"

\* The read that precedes the claim: the thread keeps the phase it saw and
\* the stop request it will apply.
Observe(w, c, e) ==
    LET stopping == orch.phase = "CANCEL_REQUESTED"
    IN  IF WorthClaiming(stopping, e, orch.idx)
        THEN job' = [job EXCEPT ![w] =
                        [NoJob EXCEPT !.at = "claim", !.cmd = c, !.ev = e,
                                      !.stopping = stopping,
                                      !.stop = orch.stop]]
        ELSE UNCHANGED job

Observable(c, statuses) ==
    /\ task = "RUNNING"
    /\ ~InHold(orch)
    /\ InPlan(orch)
    /\ c = CommandOf(orch)
    /\ orch.st[orch.idx] \in statuses

\* _matches_active_orchestration: other callbacks are only recorded.
CallbackStatuses(c) ==
    {"dispatched"} \cup
        (IF orch.phase = "CANCEL_REQUESTED" /\ orch.stop.cmd = c
         THEN {"dispatching"} ELSE {})

Callback(w, m) ==
    /\ Idle(w)
    /\ m \in mail
    /\ mail' = mail \ {m}
    /\ IF Observable(m.cmd, CallbackStatuses(m.cmd))
       THEN Observe(w, m.cmd, m.ev) ELSE UNCHANGED job
    /\ UNCHANGED <<orch, up, nav, gate, estop, loaded>>
    /\ SameTask

PollStatuses ==
    {"dispatched"} \cup
        (IF orch.phase = "CANCEL_REQUESTED" THEN {"dispatching"} ELSE {})

\* mutant: Nav's CANCELED is not translated into Main's CANCELLED
ReportedVerbatim(c) == nav[c]

\* The state of a command in the status answer, by its callback name.
Reported(c) == IF nav[c] = "CANCELED" THEN "CANCELLED" ELSE nav[c]

Poll(c) ==
    /\ Idle(Poller)
    /\ Observable(c, PollStatuses)
    /\ Reported(c) \in Event
    /\ Observe(Poller, c, Reported(c))
    /\ UNCHANGED <<orch, up>>
    /\ SameTask
    /\ SameWorld

TransitionOf(w) == [cmd |-> job[w].cmd, ev |-> EventName(job[w].ev)]

\* mutant: the command is not compared with that of the current step
ClaimableByPhase(c) ==
    /\ orch.phase \in {"RUNNING", "CANCEL_REQUESTED"}
    /\ InPlan(orch)
    /\ orch.st[orch.idx] \in PollStatuses

\* claim_terminal_transition, under the task lock.
Claimable(c) ==
    /\ orch.phase \in {"RUNNING", "CANCEL_REQUESTED"}
    /\ InPlan(orch)
    /\ c = CommandOf(orch)
    /\ orch.st[orch.idx] \in PollStatuses

Claim(w) ==
    /\ Doing(w, "claim")
    /\ IF Claimable(job[w].cmd)
       THEN LET o == [orch EXCEPT !.phase = "ADVANCING",
                                  !.st[orch.idx] = "transition_claimed",
                                  !.tid = TransitionOf(w)]
            IN  /\ orch' = o
                /\ job' = [job EXCEPT ![w].at = "claimed", ![w].snap = o]
       ELSE Finish(w) /\ UNCHANGED orch
    /\ UNCHANGED up
    /\ SameTask
    /\ SameWorld

\* The compare-and-set of finalize_terminal_transition.
Won(w) ==
    /\ orch.phase = "ADVANCING"
    /\ InPlan(orch)
    /\ orch.st[orch.idx] = "transition_claimed"
    /\ orch.idx = job[w].snap.idx
    /\ orch.tid = TransitionOf(w)

LoseClaim(w) ==
    /\ Doing(w, "claimed")
    /\ ~Won(w)
    /\ Finish(w)
    /\ UNCHANGED <<orch, up>>
    /\ SameTask
    /\ SameWorld

Winning(w) == Doing(w, "claimed") /\ Won(w)

\* complete_task, in the transaction of the last finalize.
Deliver ==
    /\ task = "RUNNING"
    /\ task' = "DONE"
    /\ robot' = "IDLE"
    /\ applied' = applied + 1

\* set_status(..., clear_robot=True) and robots.set_task("IDLE")
Release(s) == task' = s /\ robot' = "IDLE" /\ UNCHANGED applied

Settle(w, o) == orch' = o /\ Finish(w) /\ UNCHANGED up /\ SameWorld

SettleUnexpectedCancel(w) ==
    /\ Winning(w)
    /\ ~job[w].stopping
    /\ job[w].ev = "CANCELLED"
    /\ Settle(w, Held(SetStatus(job[w].snap, "CANCELLED"),
                      "unexpected_movement_cancel", NoCommand))
    /\ SameTask

SettleCancelFailed(w) ==
    /\ Winning(w)
    /\ job[w].stopping
    /\ job[w].ev \in {"STOP_UNCONFIRMED", "FAILED"}
    /\ Settle(w, Held(SetStatus(job[w].snap, job[w].ev),
                      IF job[w].ev = "FAILED" THEN "cancel_terminal_failure"
                      ELSE "physical_stop_unconfirmed", job[w].cmd))
    /\ SameTask

\* The stop is confirmed: close, hold or cancel by the cargo policy that
\* was persisted with the stop request.
SettleStopped(w) ==
    /\ Winning(w)
    /\ job[w].stopping
    /\ job[w].ev \in {"CANCELLED", "ABORTED", "ESTOP"}
    /\ LET o == SetStatus(job[w].snap, "CANCELLED")
       IN  \/ /\ job[w].stop.biz
              /\ Settle(w, [o EXCEPT !.phase = "DONE"])
              /\ Deliver
           \/ /\ ~job[w].stop.biz
              /\ job[w].stop.cargo # "EMPTY"
              /\ Settle(w, Held(o, "operator_safe_stop", NoCommand))
              /\ SameTask
           \/ /\ ~job[w].stop.biz
              /\ job[w].stop.cargo = "EMPTY"
              /\ Settle(w, [o EXCEPT !.phase = "CANCELLED"])
              /\ Release("CANCELLED")

SettleDoneDuringStop(w) ==
    /\ Winning(w)
    /\ job[w].stopping
    /\ job[w].ev \in {"DONE", "ARRIVED"}
    /\ Settle(w, Held(SetStatus(job[w].snap, "DONE"),
                      "command_completed_during_stop", job[w].cmd))
    /\ SameTask

SettleFailed(w) ==
    /\ Winning(w)
    /\ ~job[w].stopping
    /\ job[w].ev \in {"FAILED", "ABORTED", "ESTOP"}
    /\ LET s == job[w].snap
           o == SetStatus(s, EventName(job[w].ev))
           parking == s.biz /\ Kind[s.idx] \in MoveKinds \cup {"align"}
       IN  \/ /\ parking
              /\ Settle(w, [o EXCEPT !.phase = "DONE"])
              /\ Deliver
           \/ /\ ~parking
              /\ job[w].ev = "ESTOP"
              /\ Settle(w, Held(o, "movement_estop", NoCommand))
              /\ SameTask
           \/ /\ ~parking
              /\ job[w].ev # "ESTOP"
              /\ Settle(w, [o EXCEPT !.phase = EventName(job[w].ev)])
              /\ Release("FAILED")

\* POST_PICK_UP: the evidence gate did not approve the load.
SettleLoadHeld(w) ==
    /\ Winning(w)
    /\ "refuse" \in Faults
    /\ ~job[w].stopping
    /\ job[w].ev = "DONE"
    /\ Kind[job[w].snap.idx] = "load"
    /\ Settle(w, Held(SetStatus(job[w].snap, "DONE"), "evidence_gate",
                      NoCommand))
    /\ SameTask

\* mutant: the delivery is not noted in the record
AdvancedUnnoted(s, chained) ==
    LET o == SetStatus(s, "DONE")
    IN  [o EXCEPT !.idx = s.idx + 1,
                  !.phase = "RUNNING",
                  !.len = IF Kind[s.idx] = "unload" /\ chained THEN s.idx
                          ELSE s.len]

\* The step is done (a load: approved).  After the unload the next task may
\* be chained here, and the return home is dropped from the plan.
Advanced(s, chained) ==
    LET o == SetStatus(s, "DONE")
        unload == Kind[s.idx] = "unload"
    IN  [o EXCEPT !.idx = s.idx + 1,
                  !.phase = "RUNNING",
                  !.biz = s.biz \/ unload,
                  !.len = IF unload /\ chained THEN s.idx ELSE s.len]

SettleAdvance(w) ==
    /\ Winning(w)
    /\ ~job[w].stopping
    /\ job[w].ev \in DoneEvents(job[w].snap.idx)
    /\ \E chained \in BOOLEAN :
        LET o == Advanced(job[w].snap, chained)
        IN  \/ /\ InPlan(o)
               /\ orch' = o
               /\ job' = [job EXCEPT ![w] = [NoJob EXCEPT !.at = "dispatch"]]
               /\ UNCHANGED up
               /\ SameTask
               /\ SameWorld
            \/ /\ ~InPlan(o)
               /\ Settle(w, [o EXCEPT !.phase = "DONE"])
               /\ Deliver

\* An exception between the claim and the finalize (complete_task raises one
\* for a task that is not running): roll back, then hold.
FailClose(w) ==
    /\ Winning(w)
    /\ "loss" \in Faults \/ task # "RUNNING"
    /\ Settle(w, Held(orch, "terminal_transition_error", job[w].cmd))
    /\ SameTask

Advance(w) ==
    \/ Claim(w)
    \/ LoseClaim(w)
    \/ SettleUnexpectedCancel(w)
    \/ SettleCancelFailed(w)
    \/ SettleStopped(w)
    \/ SettleDoneDuringStop(w)
    \/ SettleFailed(w)
    \/ SettleLoadHeld(w)
    \/ SettleAdvance(w)

-----------------------------------------------------------------------------
(* Dispatch of the current step.                                           *)

\* dispatch_current_step up to its first wait, from an unlocked read.
BeginDispatch(w) ==
    LET o == orch
        unload == Kind[o.idx] = "unload"
    IN  \/ /\ ~HasRobot \/ o.phase # "RUNNING" \/ ~InPlan(o)
           /\ Finish(w)
           /\ UNCHANGED orch
        \/ /\ HasRobot /\ o.phase = "RUNNING" /\ InPlan(o)
           /\ unload /\ o.appr = "none"
           /\ job' = [job EXCEPT ![w] = [NoJob EXCEPT !.at = "gate", !.snap = o]]
           /\ UNCHANGED orch
        \/ /\ HasRobot /\ o.phase = "RUNNING" /\ InPlan(o)
           /\ unload /\ o.appr = "hold"
           /\ orch' = Held(o, "evidence_gate", NoCommand)
           /\ Finish(w)
        \/ /\ HasRobot /\ o.phase = "RUNNING" /\ InPlan(o)
           /\ unload => o.appr = "pass"
           /\ job' = [job EXCEPT ![w] =
                         [NoJob EXCEPT !.at = "dclaim", !.cmd = CommandOf(o)]]
           /\ UNCHANGED orch

DispatchNext(w) ==
    /\ Doing(w, "dispatch")
    /\ BeginDispatch(w)
    /\ UNCHANGED up
    /\ SameTask
    /\ SameWorld

\* poll_running_tasks resumes either side of the dispatch claim.
PollDispatch ==
    /\ Idle(Poller)
    /\ task = "RUNNING"
    /\ orch.phase = "RUNNING"
    /\ InPlan(orch)
    /\ orch.st[orch.idx] \in {"pending", "dispatching"}
    /\ BeginDispatch(Poller)
    /\ UNCHANGED up
    /\ SameTask
    /\ SameWorld

\* PRE_DROP_OFF was evaluated remotely on the record read before; its
\* verdict is saved over whatever the record has become.
GateHold(w) ==
    /\ Doing(w, "gate")
    /\ "refuse" \in Faults
    /\ orch' = Held([job[w].snap EXCEPT !.appr = "hold"], "evidence_gate",
                    NoCommand)
    /\ Finish(w)
    /\ UNCHANGED up
    /\ SameTask
    /\ SameWorld

GatePass(w) ==
    /\ Doing(w, "gate")
    /\ LET o == SetStatus([job[w].snap EXCEPT !.appr = "pass"], "dispatching")
       IN  /\ orch' = o
           /\ job' = [job EXCEPT ![w] =
                         [NoJob EXCEPT !.at = "send", !.cmd = CommandOf(o)]]
    /\ UNCHANGED up
    /\ SameTask
    /\ SameWorld

\* claim_step_dispatch: the command identity is durable before the HTTP call.
DispatchClaim(w) ==
    /\ Doing(w, "dclaim")
    /\ IF /\ orch.phase = "RUNNING"
          /\ orch.idx = job[w].cmd[1]
          /\ InPlan(orch)
          /\ orch.st[orch.idx] \in {"pending", "dispatching"}
       THEN LET o == SetStatus(orch, "dispatching")
            IN  /\ orch' = o
                /\ job' = [job EXCEPT ![w].at = "send", ![w].cmd = CommandOf(o)]
       ELSE Finish(w) /\ UNCHANGED orch
    /\ UNCHANGED up
    /\ SameTask
    /\ SameWorld

\* The person monitor cannot be armed: hold, commit, then E-stop.
ArmFail(w) ==
    /\ Doing(w, "dclaim")
    /\ "hold" \in Faults
    /\ Kind[job[w].cmd[1]] = "carry"
    /\ orch' = Held(orch, "safety", NoCommand)
    /\ Goto(w, "estop")
    /\ UNCHANGED up
    /\ SameTask
    /\ SameWorld

\* The POST reaches Nav and its answer reaches Main.
Send(w) ==
    /\ Doing(w, "send")
    /\ \/ Accept(job[w].cmd) /\ Goto(w, "sent")
       \/ Refuse(job[w].cmd) /\ Finish(w)
    /\ UNCHANGED <<orch, up, loaded>>
    /\ SameTask

\* The POST or its answer is lost, or Nav is not ready: an exception, and
\* the step stays dispatching.
SendLost(w) ==
    /\ Doing(w, "send")
    /\ "loss" \in Faults
    /\ \/ Accept(job[w].cmd)
       \/ RefuseNotReady(job[w].cmd)
       \/ UNCHANGED navVars
    /\ Finish(w)
    /\ UNCHANGED <<orch, up, loaded>>
    /\ SameTask

\* _matches_persisted_step_stop
StopMatches(c) ==
    /\ orch.phase \in {"CANCEL_REQUESTED", "AWAITING_OPERATOR"}
    /\ c = IF orch.stop.cmd # NoCommand THEN orch.stop.cmd ELSE orch.rec.cmd

FinalizeDispatch(w) ==
    /\ Doing(w, "sent")
    /\ LET c == job[w].cmd
       IN  IF /\ orch.phase = "RUNNING" \/ StopMatches(c)
              /\ InPlan(orch)
              /\ CommandOf(orch) = c
              /\ orch.st[orch.idx] = "dispatching"
           THEN /\ orch' = SetStatus(orch, "dispatched")
                /\ IF StopMatches(c) THEN Goto(w, "recancel") ELSE Finish(w)
           ELSE Finish(w) /\ UNCHANGED orch
    /\ UNCHANGED up
    /\ SameTask
    /\ SameWorld

\* _enforce_persisted_stop_after_dispatch found no confirmed cancel.
HoldUnstopped(w) ==
    /\ Doing(w, "unstopped")
    /\ orch' = IF StopMatches(job[w].cmd)
               THEN Held(orch, "physical_stop_unconfirmed", job[w].cmd)
               ELSE orch
    /\ Goto(w, "estop")
    /\ UNCHANGED up
    /\ SameTask
    /\ SameWorld

Dispatch(w) ==
    \/ DispatchNext(w)
    \/ GateHold(w)
    \/ GatePass(w)
    \/ DispatchClaim(w)
    \/ Send(w)
    \/ FinalizeDispatch(w)
    \/ HoldUnstopped(w)

-----------------------------------------------------------------------------
(* The operator's stop of the work order.                                  *)

CommandIsActive ==
    InPlan(orch) /\ orch.st[orch.idx] \in {"dispatching", "dispatched"}

\* An unconfirmed manual stop is asked for again.
StopAgain(w) ==
    /\ orch.rec.why = "operator_safe_stop_no_active_command"
    /\ ~orch.rec.conf
    /\ Goto(w, "manual")
    /\ UNCHANGED orch

StopWithoutCommand(w) ==
    /\ orch' = Held(orch, "operator_safe_stop_no_active_command", NoCommand)
    /\ Goto(w, "manual")

\* mutant: a transfer that is under way is forgotten
StopCargoDoneSteps == IF orch.biz THEN "EMPTY" ELSE CargoAfterSteps(orch)

\* The cargo policy of the stop, decided when it is requested.
StopCargo ==
    IF Kind[orch.idx] \in {"load", "unload"} THEN "UNKNOWN"
    ELSE IF orch.biz THEN "EMPTY" ELSE CargoAfterSteps(orch)

\* The stop intent and its cargo policy commit before the cancel request.
StopCommand(w) ==
    LET c == CommandOf(orch)
        persisted == orch.phase = "CANCEL_REQUESTED" /\ orch.stop.cmd = c
    IN  /\ orch' = IF persisted THEN orch
                   ELSE [orch EXCEPT !.phase = "CANCEL_REQUESTED",
                                     !.stop = [cmd |-> c, cargo |-> StopCargo,
                                               biz |-> orch.biz]]
        /\ job' = [job EXCEPT ![w] = [NoJob EXCEPT !.at = "cancel", !.cmd = c]]

RequestStop(w) ==
    /\ Idle(w)
    /\ "stop" \in Faults
    /\ task = "RUNNING"
    /\ \/ InHold(orch) /\ StopAgain(w)
       \/ ~InHold(orch) /\ ~CommandIsActive /\ StopWithoutCommand(w)
       \/ ~InHold(orch) /\ CommandIsActive /\ StopCommand(w)
    /\ UNCHANGED up
    /\ SameTask
    /\ SameWorld

\* Both cancels of a persisted stop: the operator's request and the one a
\* late dispatch answer repeats.
Cancelling ==
    [a \in {"cancelling", "recancelling"} |->
        IF a = "cancelling" THEN "unconfirmed" ELSE "unstopped"]

SendCancel(w) ==
    /\ \/ Doing(w, "cancel") /\ Goto(w, "cancelling")
       \/ Doing(w, "recancel") /\ Goto(w, "recancelling")
    /\ Cancel(job[w].cmd)
    /\ IF nav[job[w].cmd] = "ACTIVE" THEN Disturb(job[w].cmd)
       ELSE UNCHANGED loaded
    /\ UNCHANGED <<orch, up>>
    /\ SameTask

CancelAnswer(w) ==
    /\ up
    /\ job[w].at \in DOMAIN Cancelling
    /\ nav[job[w].cmd] # "CANCEL_REQUESTED"
    /\ IF nav[job[w].cmd] = "STOP_UNCONFIRMED"
       THEN Goto(w, Cancelling[job[w].at]) ELSE Finish(w)
    /\ UNCHANGED <<orch, up>>
    /\ SameTask
    /\ SameWorld

\* The cancel request or its answer is lost.
CancelLost(w) ==
    /\ "loss" \in Faults
    /\ \/ Doing(w, "cancel") /\ Goto(w, "unconfirmed")
       \/ Doing(w, "recancel") /\ Goto(w, "unstopped")
       \/ Doing(w, "cancelling") /\ Goto(w, "unconfirmed")
       \/ Doing(w, "recancelling") /\ Goto(w, "unstopped")
    /\ UNCHANGED <<orch, up>>
    /\ SameTask
    /\ SameWorld

\* Never overwrite a newer terminal or hold state.
HoldUnconfirmed(w) ==
    /\ Doing(w, "unconfirmed")
    /\ IF orch.phase = "CANCEL_REQUESTED"
       THEN /\ orch' = Held(orch, "physical_stop_unconfirmed", job[w].cmd)
            /\ Goto(w, "estop")
       ELSE Finish(w) /\ UNCHANGED orch
    /\ UNCHANGED up
    /\ SameTask
    /\ SameWorld

\* manual_stop touches no command; a confirmed one is noted on the hold it
\* was requested for.
ManualStop(w) ==
    /\ Doing(w, "manual")
    /\ \E confirmed \in IF "loss" \in Faults THEN BOOLEAN ELSE {TRUE} :
        orch' = IF /\ confirmed
                   /\ InHold(orch)
                   /\ orch.rec.why = "operator_safe_stop_no_active_command"
                THEN [orch EXCEPT !.rec.conf = TRUE] ELSE orch
    /\ Finish(w)
    /\ UNCHANGED up
    /\ SameTask
    /\ SameWorld

Stop(w) ==
    \/ SendCancel(w)
    \/ CancelAnswer(w)
    \/ HoldUnconfirmed(w)
    \/ ManualStop(w)

-----------------------------------------------------------------------------
(* Safety holds, and the retry of a held evidence gate.                    *)

\* estop_all_robots and process_advisory: hold, commit, then E-stop.
SafetyHold(w) ==
    /\ Idle(w)
    /\ "hold" \in Faults
    /\ task = "RUNNING"
    /\ ~InHold(orch)
    /\ orch' = Held(orch, "safety", NoCommand)
    /\ Goto(w, "estop")
    /\ UNCHANGED up
    /\ SameTask
    /\ SameWorld

EstopWorld ==
    /\ Estop
    /\ IF \E c \in Active : Kind[c[1]] \in {"load", "unload"}
       THEN loaded' \in BOOLEAN ELSE UNCHANGED loaded

\* The E-stop request may be lost; nobody repeats it.
TryEstop == EstopWorld \/ ("loss" \in Faults /\ SameWorld)

SendEstop(w) ==
    /\ Doing(w, "estop")
    /\ TryEstop
    /\ Finish(w)
    /\ UNCHANGED <<orch, up>>
    /\ SameTask

\* retry_held_evidence reads without the lock and asks the gate again.
BeginRetry(w) ==
    /\ Idle(w)
    /\ InHold(orch)
    /\ orch.rec.why = "evidence_gate"
    /\ InPlan(orch)
    /\ Kind[orch.idx] \in {"load", "unload"}
    /\ job' = [job EXCEPT ![w] = [NoJob EXCEPT !.at = "regate", !.snap = orch]]
    /\ UNCHANGED <<orch, up>>
    /\ SameTask
    /\ SameWorld

RetryHold(w) ==
    /\ Doing(w, "regate")
    /\ "refuse" \in Faults
    /\ LET s == job[w].snap
       IN  orch' = Held(IF Kind[s.idx] = "unload"
                        THEN [s EXCEPT !.appr = "hold"] ELSE s,
                        "evidence_gate", NoCommand)
    /\ Finish(w)
    /\ UNCHANGED up
    /\ SameTask
    /\ SameWorld

\* Approved: a done load moves on; an unload repeats its final approach
\* under a new generation, so that Nav opens a fresh gate.
Retried(s) ==
    LET o == [s EXCEPT !.phase = "RUNNING", !.rec = NoRecovery]
        a == s.idx - 1
    IN  IF Kind[s.idx] = "load"
        THEN [o EXCEPT !.idx = s.idx + 1]
        ELSE [o EXCEPT !.idx = a, !.appr = "pass", !.st[a] = "pending",
                       !.gen[a] = s.gen[a] + 1]

RetryPass(w) ==
    /\ Doing(w, "regate")
    /\ LET s == job[w].snap
       IN  /\ Kind[s.idx] = "unload" => s.gen[s.idx - 1] < MaxGen
           /\ orch' = Retried(s)
    /\ job' = [job EXCEPT ![w] = [NoJob EXCEPT !.at = "dispatch"]]
    /\ UNCHANGED up
    /\ SameTask
    /\ SameWorld

-----------------------------------------------------------------------------
(* Nav, the person who clears the E-stop, and the crash of Main.           *)

NavComplete(c) ==
    /\ Complete(c)
    /\ loaded' = IF Kind[c[1]] = "load" THEN TRUE
                 ELSE IF Kind[c[1]] = "unload" THEN FALSE ELSE loaded
    /\ UNCHANGED mainVars

NavEnd(c) ==
    /\ Fail(c) \/ AbortByEstop(c)
    /\ Disturb(c)
    /\ UNCHANGED mainVars

NavCancelEnd(c) ==
    /\ CancelConfirm(c) \/ ("loss" \in Faults /\ CancelUnconfirmed(c))
    /\ UNCHANGED <<mainVars, loaded>>

NavGateTimeout(c) ==
    /\ "loss" \in Faults
    /\ GateTimeout(c)
    /\ UNCHANGED <<mainVars, loaded>>

OperatorClearEstop == ClearEstop /\ UNCHANGED <<mainVars, loaded>>

Crash ==
    /\ up
    /\ "crash" \in Faults
    /\ up' = FALSE
    /\ job' = [w \in Worker |-> NoJob]
    /\ UNCHANGED orch
    /\ SameTask
    /\ SameWorld

\* mutant: a claimed transition is taken for one that is being finalized
MustReconcileDispatched ==
    /\ task = "RUNNING"
    /\ InPlan(orch)
    /\ Kind[orch.idx] = "carry"
    /\ \/ orch.phase = "RUNNING" /\ orch.st[orch.idx] \in {"dispatching", "dispatched"}
       \/ orch.phase = "CANCEL_REQUESTED"

\* The steps reconcile_startup_person_hazard_safety stops: a monitored leg
\* that may be moving, before the pollers run.
MustReconcile ==
    /\ task = "RUNNING"
    /\ InPlan(orch)
    /\ Kind[orch.idx] = "carry"
    /\ \/ orch.phase = "RUNNING" /\ orch.st[orch.idx] \in {"dispatching", "dispatched"}
       \/ orch.phase = "ADVANCING" /\ orch.st[orch.idx] = "transition_claimed"
       \/ orch.phase = "CANCEL_REQUESTED"

\* held_motion_is_proven_inactive: Nav knows the command and ended it, or
\* does not know it and is idle.
HeldInactive ==
    LET c == IF orch.rec.cmd # NoCommand THEN orch.rec.cmd ELSE CommandOf(orch)
    IN  nav[c] \in CancelTerminal \/ (nav[c] = "NONE" /\ Active = {})

\* A monitored leg under a hold, which may be moving.
HeldLeg ==
    /\ task = "RUNNING"
    /\ InHold(orch)
    /\ InPlan(orch)
    /\ Kind[orch.idx] = "carry"
    /\ orch.st[orch.idx] \in {"dispatching", "dispatched"}

\* A hold is kept, and its E-stop repeated unless Nav proves, with an answer
\* that is not lost, that the held leg is over.
Restart ==
    /\ ~up
    /\ up' = TRUE
    /\ \/ /\ MustReconcile
          /\ orch' = Held(orch, "safety", NoCommand)
          /\ TryEstop
       \/ /\ HeldLeg
          /\ ~HeldInactive \/ "loss" \in Faults
          /\ TryEstop
          /\ UNCHANGED orch
       \/ /\ ~MustReconcile
          /\ HeldLeg => HeldInactive
          /\ UNCHANGED orch
          /\ SameWorld
    /\ UNCHANGED job
    /\ SameTask

-----------------------------------------------------------------------------
\* What a thread does with a job it has begun.
Continue(w) ==
    \/ StartTask(w)
    \/ RefuseStart(w)
    \/ Advance(w)
    \/ Dispatch(w)
    \/ Stop(w)
    \/ SendEstop(w)
    \/ RetryHold(w)
    \/ RetryPass(w)

\* What an HTTP request starts.
Request(w) ==
    \/ \E m \in mail : Callback(w, m)
    \/ RequestStop(w)
    \/ SafetyHold(w)
    \/ BeginRetry(w)

\* What may go wrong with a job.
Break(w) ==
    \/ ArmFail(w)
    \/ SendLost(w)
    \/ CancelLost(w)
    \/ FailClose(w)

PollOnce ==
    \/ PollDispatch
    \/ \E c \in Command : Poll(c)

NavStep(c) ==
    \/ NavComplete(c)
    \/ NavEnd(c)
    \/ NavCancelEnd(c)

Next ==
    \/ \E w \in Worker : BeginStart(w) \/ Continue(w) \/ Break(w)
    \/ \E w \in Worker \ {Poller} : Request(w)
    \/ PollOnce
    \/ \E c \in Command : NavStep(c) \/ NavGateTimeout(c)
    \/ OperatorClearEstop
    \/ Crash
    \/ Restart

Spec == Init /\ [][Next]_vars

\* Threads of Main run on, the poller ticks, every command ends, a crashed
\* Main is restarted, and a request that is repeated gets through at last.
\* Nobody promises that a callback arrives or that a person does anything.
Fairness ==
    /\ \A w \in Worker : WF_vars(Continue(w)) /\ SF_vars(Send(w))
    /\ WF_vars(PollOnce)
    /\ \A c \in Command : WF_vars(NavStep(c))
    /\ WF_vars(Restart)

FairSpec == Spec /\ Fairness
=============================================================================
