------------------------------ MODULE Recovery ------------------------------
(***************************************************************************)
(* Operator recovery of a held task: resume the interrupted step, move to  *)
(* the safe place, or abort; with the dispatch of the step before and      *)
(* after the hold, which Orchestrator models in full and which is reduced  *)
(* here to one step that ends the task.                                    *)
(***************************************************************************)
EXTENDS PersonMonitor

SameRecord == UNCHANGED recordVars
SameMonitor == UNCHANGED monitorVars
SameNav == UNCHANGED navVars

\* The record alone is saved.
Save(o) == orch' = o /\ UNCHANGED <<task, robot, stopOpen>>

-----------------------------------------------------------------------------
(* The dispatch of the step.                                               *)

\* A monitored step is armed before it is claimed, any other disarms.
PrepareStep(w) ==
    /\ orch.phase = "RUNNING"
    /\ \/ /\ Watched
          /\ Arm
          /\ Become(w, [NoHeldJob EXCEPT !.at = "claim"])
          /\ SameRecord
       \/ /\ Watched
          /\ CannotArm
          /\ FailSafe(w, "idle")
       \/ /\ ~Watched
          /\ Disarm
          /\ Become(w, [NoHeldJob EXCEPT !.at = "claim"])
          /\ SameRecord
    /\ UNCHANGED up
    /\ SameNav

DispatchResumed(w) == Doing(w, "arm") /\ PrepareStep(w)

PollDispatch ==
    /\ Idle(Poller)
    /\ orch.st \in {"pending", "dispatching"}
    /\ PrepareStep(Poller)

\* A thread that finds the record changed gives up.
GiveUp(w) == SameRecord /\ Finish(w)

ClaimStep(w) ==
    /\ Doing(w, "claim")
    /\ IF orch.phase = "RUNNING" /\ orch.st \in {"pending", "dispatching"}
       THEN /\ Save([orch EXCEPT !.st = "dispatching"])
            /\ Become(w, [NoHeldJob EXCEPT !.at = "post", !.cmd = StepCmd(orch.gen)])
       ELSE GiveUp(w)
    /\ UNCHANGED up
    /\ SameMonitor
    /\ SameNav

\* A refusal or a lost request or answer raises: the record stays
\* dispatching, and the poller sends the same command again.
PostStep(w) ==
    /\ Doing(w, "post")
    /\ \/ Accept(job[w].cmd) /\ Goto(w, "posted")
       \/ Refuse(job[w].cmd) /\ Finish(w)
       \/ Lossy /\ (Accept(job[w].cmd) \/ SameNav) /\ Finish(w)
    /\ UNCHANGED up
    /\ SameRecord
    /\ SameMonitor

FinishStep(w) ==
    /\ Doing(w, "posted")
    /\ IF /\ orch.phase = "RUNNING"
          /\ orch.st = "dispatching"
          /\ job[w].cmd = StepCmd(orch.gen)
       THEN Save([orch EXCEPT !.st = "dispatched"])
       ELSE SameRecord
    /\ Finish(w)
    /\ UNCHANGED up
    /\ SameMonitor
    /\ SameNav

\* The end of the task releases its robot.
EndTask(status, phase) ==
    /\ task' = status
    /\ robot' = "IDLE"
    /\ orch' = [orch EXCEPT !.phase = phase, !.st = "ended"]
    /\ UNCHANGED stopOpen
    /\ Disarm

\* mutant: the phase is not looked at under the lock
StepEventAnyPhase(c, e) ==
    IF /\ task = "RUNNING"
       /\ orch.st = "dispatched"
       /\ c = StepCmd(orch.gen)
    THEN \/ e \in {"ARRIVED", "DONE"} /\ EndTask("DONE", "DONE")
         \/ e \in {"FAILED", "ABORTED"} /\ EndTask("FAILED", "FAILED")
         \/ /\ e \in {"ESTOP", "CANCELLED", "STOP_UNCONFIRMED"}
            /\ Save([Await(orch) EXCEPT !.st = "ended"])
            /\ SameMonitor
    ELSE SameRecord /\ SameMonitor

\* What a terminal event of the step's command does: here its success ends
\* the task.
StepEvent(c, e) ==
    IF /\ task = "RUNNING"
       /\ orch.phase = "RUNNING"
       /\ orch.st = "dispatched"
       /\ c = StepCmd(orch.gen)
    THEN \/ e \in {"ARRIVED", "DONE"} /\ EndTask("DONE", "DONE")
         \/ e \in {"FAILED", "ABORTED"} /\ EndTask("FAILED", "FAILED")
         \/ /\ e \in {"ESTOP", "CANCELLED", "STOP_UNCONFIRMED"}
            /\ Save([Await(orch) EXCEPT !.st = "ended"])
            /\ SameMonitor
    ELSE SameRecord /\ SameMonitor

\* The name Main gives a state of Nav's registry.
Reported(s) == IF s = "CANCELED" THEN "CANCELLED" ELSE s

\* mutant: a move is taken for ended by DONE, which Nav never posts for it
TerminalNotArrived == {"DONE", "FAILED", "ABORTED", "CANCELED", "STOP_UNCONFIRMED"}

Terminal == {"DONE", "ARRIVED", "FAILED", "ABORTED", "CANCELED", "STOP_UNCONFIRMED"}

-----------------------------------------------------------------------------
(* Terminal events of a recovery move.                                     *)

Owns(c) == orch.phase = "RECOVERY_RUNNING" /\ orch.rcmd # 0 /\ c = SafeCmd(orch.rcmd)

\* _clear_active_recovery_command.
Cleared(o) == [o EXCEPT !.rcmd = 0, !.watch = FALSE]

\* handle_recovery_command_event: every end of the move holds the task.
RecoveryEvent(c, e) ==
    IF task = "RUNNING" /\ Owns(c)
    THEN Save([Await(orch) EXCEPT
            !.rcmd = 0, !.disp = "none", !.stopreq = FALSE,
            !.cargo = IF orch.stopreq \/ e = "STOP_UNCONFIRMED"
                      THEN "UNKNOWN" ELSE orch.cargo])
    ELSE SameRecord

\* A callback is routed by the phase; it may be delivered twice.
Deliver(m) ==
    /\ up
    /\ mail' = mail \ {m}
    /\ IF Owns(m.cmd)
       THEN RecoveryEvent(m.cmd, m.ev) /\ SameMonitor
       ELSE StepEvent(m.cmd, m.ev)
    /\ UNCHANGED <<up, job, nav, gate, estop>>

PollStep ==
    /\ Idle(Poller)
    /\ orch.phase = "RUNNING"
    /\ orch.st = "dispatched"
    /\ LET c == StepCmd(orch.gen)
       IN  nav[c] \in Terminal /\ StepEvent(c, Reported(nav[c]))
    /\ UNCHANGED <<up, job>>
    /\ SameNav

-----------------------------------------------------------------------------
(* The gate of resume and safe move.                                       *)

Held == orch.phase = "AWAITING_OPERATOR" /\ task = "RUNNING"

\* The record is fingerprinted, the task has no active safety stop.
BeginGated(w, at, c) ==
    /\ Request(w)
    /\ Leisure
    /\ Held
    /\ ~stopOpen
    /\ Become(w, [NoHeldJob EXCEPT !.at = at, !.snap = orch, !.cargo = c])
    /\ UNCHANGED up
    /\ SameRecord
    /\ SameMonitor
    /\ SameNav

BeginResume(w, c) == orch.gen < MaxGen /\ BeginGated(w, "rhealth", c)
BeginSafeMove(w, c) == orch.moves < MaxMoves /\ BeginGated(w, "shealth", c)

\* The forced health request shows no emergency.
Health(w) ==
    /\ \/ Doing(w, "rhealth") /\ ~estop /\ Goto(w, "rverify")
       \/ Doing(w, "shealth") /\ ~estop /\ Goto(w, "scommit")
       \/ /\ Doing(w, "rhealth") \/ Doing(w, "shealth")
          /\ estop \/ Lossy
          /\ Finish(w)
    /\ UNCHANGED up
    /\ SameRecord
    /\ SameMonitor
    /\ SameNav

\* mutant: a step that Nav accepted is taken for ended by the hold
AcceptedIsOver(o) == o.st # "dispatching"

\* _verify_interrupted_step_terminal: a step in flight must be over at Nav,
\* or be unknown to a Nav that is idle.
ProvenOver(o) ==
    LET s == nav[StepCmd(o.gen)]
    IN  \/ o.st \in {"pending", "ended"}
        \/ s \in {"ABORTED", "FAILED", "CANCELED"}
        \/ s = "NONE" /\ Active = {}

Verify(w) ==
    /\ Doing(w, "rverify")
    /\ IF ProvenOver(job[w].snap) THEN Goto(w, "rcommit") ELSE Finish(w)
    /\ UNCHANGED up
    /\ SameRecord
    /\ SameMonitor
    /\ SameNav

\* Under the task lock: still held, no stop, and the same fingerprint.
StillGated(w) == Held /\ ~stopOpen /\ orch = job[w].snap

CommitResume(w) ==
    /\ Doing(w, "rcommit")
    /\ IF StillGated(w)
       THEN /\ Save([orch EXCEPT !.phase = "RUNNING", !.st = "pending",
                                 !.gen = orch.gen + 1, !.rcmd = 0,
                                 !.disp = "none", !.stopreq = FALSE,
                                 !.cargo = job[w].cargo])
            /\ Become(w, [NoHeldJob EXCEPT !.at = "arm"])
       ELSE GiveUp(w)
    /\ UNCHANGED up
    /\ SameMonitor
    /\ SameNav

\* recovery.update leaves a stop_requested in the record as it finds it.
CommitSafeMove(w) ==
    /\ Doing(w, "scommit")
    /\ IF StillGated(w)
       THEN LET n == orch.moves + 1
                o == [orch EXCEPT !.phase = "RECOVERY_RUNNING", !.moves = n,
                                  !.rcmd = n, !.disp = "PENDING",
                                  !.watch = (job[w].cargo = "LOADED"),
                                  !.cargo = job[w].cargo]
            IN  /\ Save(o)
                /\ Become(w, [job[w] EXCEPT !.at = "rarm", !.snap = o,
                                            !.cmd = SafeCmd(n)])
       ELSE GiveUp(w)
    /\ UNCHANGED up
    /\ SameMonitor
    /\ SameNav

-----------------------------------------------------------------------------
(* _dispatch_persisted_recovery_command, by the request or by the poller.  *)

ArmRecovery(w) ==
    /\ Doing(w, "rarm")
    /\ \/ job[w].snap.watch /\ Arm /\ Goto(w, "rclaim") /\ SameRecord
       \/ job[w].snap.watch /\ CannotArm /\ FailSafe(w, "rhold")
       \/ ~job[w].snap.watch /\ Disarm /\ Goto(w, "rclaim") /\ SameRecord
    /\ UNCHANGED up
    /\ SameNav

ClaimRecovery(w) ==
    /\ Doing(w, "rclaim")
    /\ IF Owns(job[w].cmd) /\ orch.disp = "PENDING"
       THEN IF orch.stopreq
            THEN /\ Save([Cleared(Await(orch)) EXCEPT !.disp = "none",
                                                      !.cargo = "UNKNOWN"])
                 /\ Finish(w)
            ELSE Save([orch EXCEPT !.disp = "DISPATCHING"]) /\ Goto(w, "rpost")
       ELSE GiveUp(w)
    /\ UNCHANGED up
    /\ SameMonitor
    /\ SameNav

\* Whatever is not an acceptance raises, and is taken for ambiguous.
PostRecovery(w) ==
    /\ Doing(w, "rpost")
    /\ \/ Accept(job[w].cmd) /\ Goto(w, "rfinal")
       \/ Refuse(job[w].cmd) /\ Goto(w, "rclose")
       \/ Lossy /\ (Accept(job[w].cmd) \/ SameNav) /\ Goto(w, "rclose")
    /\ UNCHANGED up
    /\ SameRecord
    /\ SameMonitor

FinalizeRecovery(w) ==
    /\ Doing(w, "rfinal")
    /\ IF Owns(job[w].cmd) /\ orch.disp = "DISPATCHING"
       THEN /\ Save([orch EXCEPT !.disp = "SENT"])
            /\ IF orch.stopreq THEN Goto(w, "rcancel") ELSE Finish(w)
       ELSE GiveUp(w)
    /\ UNCHANGED up
    /\ SameMonitor
    /\ SameNav

\* E-stop after an ambiguous request, then the hold.
CloseAmbiguous(w) ==
    /\ Doing(w, "rclose")
    /\ TryEstop
    /\ Become(w, [job[w] EXCEPT !.at = "rhold", !.cargo = "UNKNOWN"])
    /\ UNCHANGED up
    /\ SameRecord
    /\ SameMonitor

\* _hold_recovery_dispatch; it leaves stop_requested in the record.
HoldRecovery(w) ==
    /\ Doing(w, "rhold")
    /\ IF Owns(job[w].cmd)
       THEN Save([Cleared(Await(orch)) EXCEPT
                !.disp = "REJECTED",
                !.cargo = IF job[w].cargo = "UNKNOWN" THEN "UNKNOWN" ELSE orch.cargo])
       ELSE SameRecord
    /\ Finish(w)
    /\ UNCHANGED up
    /\ SameMonitor
    /\ SameNav

-----------------------------------------------------------------------------
(* Stops of a recovery move.  The cancel answers when Nav has stopped.     *)

RequestRecoveryStop(w) ==
    /\ Request(w)
    /\ "stop" \in Faults
    /\ task = "RUNNING"
    /\ orch.phase = "RECOVERY_RUNNING"
    /\ orch.rcmd # 0
    /\ Save(IF orch.stopreq THEN orch
            ELSE [orch EXCEPT !.stopreq = TRUE, !.cargo = "UNKNOWN"])
    /\ Become(w, [NoHeldJob EXCEPT !.at = "scancel", !.cmd = SafeCmd(orch.rcmd)])
    /\ UNCHANGED up
    /\ SameMonitor
    /\ SameNav

SendCancel(w) ==
    /\ \/ Doing(w, "scancel") /\ Cancel(job[w].cmd) /\ Goto(w, "scancelling")
       \/ Doing(w, "scancel") /\ Lossy /\ SameNav /\ Finish(w)
       \/ Doing(w, "rcancel") /\ Cancel(job[w].cmd) /\ Goto(w, "rcancelling")
       \/ Doing(w, "rcancel") /\ Lossy /\ SameNav /\ Goto(w, "restop")
    /\ UNCHANGED up
    /\ SameRecord
    /\ SameMonitor

Answered(c) == nav[c] \in CancelTerminal \cup {"STOP_UNCONFIRMED"}

\* The stop of an operator or of the poller.
CancelAnswer(w) ==
    /\ Doing(w, "scancelling")
    /\ \/ /\ Answered(job[w].cmd)
          /\ RecoveryEvent(job[w].cmd, Reported(nav[job[w].cmd]))
       \/ Lossy /\ SameRecord
    /\ Finish(w)
    /\ UNCHANGED up
    /\ SameMonitor
    /\ SameNav

\* The stop that met the dispatch: an unconfirmed cancel is not enough.
EnforceAnswer(w) ==
    /\ Doing(w, "rcancelling")
    /\ \/ /\ nav[job[w].cmd] \in CancelTerminal
          /\ RecoveryEvent(job[w].cmd, Reported(nav[job[w].cmd]))
          /\ Finish(w)
       \/ /\ nav[job[w].cmd] = "STOP_UNCONFIRMED" \/ Lossy
          /\ SameRecord
          /\ Goto(w, "restop")
    /\ UNCHANGED up
    /\ SameMonitor
    /\ SameNav

EnforceEstop(w) ==
    /\ Doing(w, "restop")
    /\ \/ Estop /\ Become(w, [job[w] EXCEPT !.at = "rhold", !.cargo = "UNKNOWN"])
       \/ Lossy /\ SameNav /\ Goto(w, "runstopped")
    /\ UNCHANGED up
    /\ SameRecord
    /\ SameMonitor

\* _mark_recovery_stop_unconfirmed: the poller cancels again.
MarkUnstopped(w) ==
    /\ Doing(w, "runstopped")
    /\ IF Owns(job[w].cmd) /\ orch.stopreq
       THEN Save([orch EXCEPT !.cargo = "UNKNOWN"])
       ELSE SameRecord
    /\ Finish(w)
    /\ UNCHANGED up
    /\ SameMonitor
    /\ SameNav

\* poll_recovery_tasks: a stop is sent again, a pending move dispatched, and
\* any other asked for.
PollRecovery ==
    /\ Idle(Poller)
    /\ task = "RUNNING"
    /\ orch.phase = "RECOVERY_RUNNING"
    /\ orch.rcmd # 0
    /\ LET c == SafeCmd(orch.rcmd)
           j == [NoHeldJob EXCEPT !.snap = orch, !.cmd = c, !.cargo = orch.cargo]
       IN  \/ /\ orch.stopreq
              /\ Become(Poller, [j EXCEPT !.at = "scancel"])
              /\ SameRecord
           \/ /\ ~orch.stopreq
              /\ orch.disp = "PENDING"
              /\ Become(Poller, [j EXCEPT !.at = "rarm"])
              /\ SameRecord
           \/ /\ ~orch.stopreq
              /\ orch.disp # "PENDING"
              /\ nav[c] \in Terminal
              /\ RecoveryEvent(c, Reported(nav[c]))
              /\ UNCHANGED job
    /\ UNCHANGED up
    /\ SameMonitor
    /\ SameNav

-----------------------------------------------------------------------------
(* Manual abort.                                                           *)

BeginAbort(w) ==
    /\ Request(w)
    /\ Leisure
    /\ Held
    /\ \E c \in {"LOADED", "EMPTY"} :
          Save([orch EXCEPT !.phase = "RECOVERY_RUNNING", !.cargo = c,
                            !.disp = "ABORT_STOP_REQUESTED"])
    /\ Become(w, [NoHeldJob EXCEPT !.at = "abort"])
    /\ UNCHANGED up
    /\ SameMonitor
    /\ SameNav

\* Nav's manual stop cancels the Nav2 goal of a robot that has one, whose
\* command then fails.  The registry and the latch are left alone: a command
\* that waits for Nav2, or docks, goes on.
ManualStop == (\E c \in Command : Fail(c)) \/ SameNav

AbortStop(w) ==
    /\ Doing(w, "abort")
    /\ \/ ManualStop /\ Goto(w, "afinal")
       \/ Lossy /\ (ManualStop \/ SameNav) /\ Goto(w, "ahold")
    /\ UNCHANGED up
    /\ SameRecord
    /\ SameMonitor

Aborting == orch.phase = "RECOVERY_RUNNING" /\ orch.disp = "ABORT_STOP_REQUESTED"

\* _finalize_manual_abort.
FinishAbort(w) ==
    /\ Doing(w, "afinal")
    /\ IF Aborting /\ task = "RUNNING"
       THEN /\ task' = "CANCELLED"
            /\ robot' = "IDLE"
            /\ orch' = [Cleared(orch) EXCEPT !.phase = "ABORTED", !.disp = "none"]
            /\ Goto(w, "disarm")
            /\ UNCHANGED stopOpen
       ELSE GiveUp(w)
    /\ UNCHANGED up
    /\ SameMonitor
    /\ SameNav

HoldAbort(w) ==
    /\ Doing(w, "ahold")
    /\ IF Aborting
       THEN Save([Cleared(Await(orch)) EXCEPT !.disp = "REJECTED", !.cargo = "UNKNOWN"])
       ELSE SameRecord
    /\ Finish(w)
    /\ UNCHANGED up
    /\ SameMonitor
    /\ SameNav

DisarmAborted(w) ==
    /\ Doing(w, "disarm")
    /\ Disarm
    /\ Finish(w)
    /\ UNCHANGED up
    /\ SameRecord
    /\ SameNav

-----------------------------------------------------------------------------
(* Other requests of the operator.                                         *)

\* estop_all_robots: a running task that is not held yet is held, without a
\* safety stop of its own, before the E-stop is sent.
FleetEstop(w) ==
    /\ Request(w)
    /\ "fleet" \in Faults
    /\ IF task = "RUNNING" /\ orch.phase # "AWAITING_OPERATOR"
       THEN orch.mark < MaxMarks /\ Save(Marked(orch))
       ELSE SameRecord
    /\ Become(w, [NoHeldJob EXCEPT !.at = "festop"])
    /\ UNCHANGED up
    /\ SameMonitor
    /\ SameNav

\* The monitor is closed only when the E-stop was confirmed.
SendFleetEstop(w) ==
    /\ Doing(w, "festop")
    /\ \/ Estop /\ Goto(w, "disarm")
       \/ Lossy /\ (Estop \/ SameNav) /\ Finish(w)
    /\ UNCHANGED up
    /\ SameRecord
    /\ SameMonitor

\* clear_estop_all_robots: the stops are closed after Nav cleared.
ClearAll(w) ==
    /\ Request(w)
    /\ Leisure
    /\ estop \/ stopOpen
    /\ estop' = FALSE
    /\ Become(w, [NoHeldJob EXCEPT !.at = "closing"])
    /\ UNCHANGED <<up, nav, gate, mail>>
    /\ SameRecord
    /\ SameMonitor

CloseStops(w) ==
    /\ Doing(w, "closing")
    /\ stopOpen' = FALSE
    /\ Finish(w)
    /\ UNCHANGED <<up, task, robot, orch>>
    /\ SameMonitor
    /\ SameNav

\* save_recovery_decision reads and saves without the task lock.
ReadDecision(w) ==
    /\ Request(w)
    /\ "note" \in Faults
    /\ Become(w, [NoHeldJob EXCEPT !.at = "note", !.snap = orch])
    /\ UNCHANGED up
    /\ SameRecord
    /\ SameMonitor
    /\ SameNav

SaveDecision(w) ==
    /\ Doing(w, "note")
    /\ \E c \in {"LOADED", "EMPTY"} : Save([job[w].snap EXCEPT !.cargo = c])
    /\ Finish(w)
    /\ UNCHANGED up
    /\ SameMonitor
    /\ SameNav

-----------------------------------------------------------------------------
NavStep ==
    /\ \E c \in Command :
          \/ Complete(c)
          \/ Fail(c)
          \/ AbortByEstop(c)
          \/ CancelConfirm(c)
          \/ Lossy /\ CancelUnconfirmed(c)
    /\ UNCHANGED <<up, job>>
    /\ SameRecord
    /\ SameMonitor

\* What a thread does with what it has begun.
Continue(w) ==
    \/ SendEstop(w)
    \/ DispatchResumed(w) \/ ClaimStep(w) \/ PostStep(w) \/ FinishStep(w)
    \/ Health(w) \/ Verify(w) \/ CommitResume(w) \/ CommitSafeMove(w)
    \/ ArmRecovery(w) \/ ClaimRecovery(w) \/ PostRecovery(w) \/ FinalizeRecovery(w)
    \/ CloseAmbiguous(w) \/ HoldRecovery(w)
    \/ SendCancel(w) \/ CancelAnswer(w)
    \/ EnforceAnswer(w) \/ EnforceEstop(w) \/ MarkUnstopped(w)
    \/ AbortStop(w) \/ FinishAbort(w) \/ HoldAbort(w) \/ DisarmAborted(w)
    \/ SendFleetEstop(w) \/ CloseStops(w) \/ SaveDecision(w)

Operate(w) ==
    \/ \E c \in {"LOADED", "EMPTY"} : BeginResume(w, c) \/ BeginSafeMove(w, c)
    \/ BeginAbort(w)
    \/ RequestRecoveryStop(w)
    \/ FleetEstop(w)
    \/ ClearAll(w)
    \/ ReadDecision(w)

Poll == PollDispatch \/ PollStep \/ PollRecovery

Next ==
    \/ \E w \in Worker : Continue(w) \/ Operate(w)
    \/ \E m \in mail : Deliver(m)
    \/ Poll
    \/ Monitor
    \/ NavStep
    \/ AIRestart
    \/ NavRestart
    \/ Crash
    \/ Restart

Spec == HeldInit /\ [][Next]_vars

\* Threads run on, the pollers tick, commands end and Main is restarted.
Fairness ==
    /\ \A w \in Worker : WF_vars(Continue(w))
    /\ WF_vars(Poll)
    /\ WF_vars(Monitor)
    /\ WF_vars(NavStep)
    /\ WF_vars(Restart)

FairSpec == Spec /\ Fairness
=============================================================================
