------------------------- MODULE OrchestratorProps -------------------------
(***************************************************************************)
(* What is checked of the Orchestrator.                                    *)
(***************************************************************************)
EXTENDS Orchestrator

Ended == task \in {"DONE", "FAILED", "CANCELLED"}

\* Nav ended the last transfer of the plan with DONE: the pallet is delivered.
Delivered == \A i \in Step : Kind[i] = "unload" => nav[<<i, 0>>] = "DONE"

\* The step of the delivery; the way home is no longer work for the order.
Drop == CHOOSE i \in Step : Kind[i] = "unload"

-----------------------------------------------------------------------------
(* Safety.                                                                 *)

\* Until the delivery Nav runs nothing but the command of the step the
\* durable record points at: neither a late dispatch, a repeated one nor a
\* stale observation lets Main's record run ahead of, or fall behind, the
\* robot.  (WORKFLOW.md: one atomic command, that of the current step.)  On
\* the way home it may: a late verdict of PRE_DROP_OFF writes the record of
\* the unload step back.
RunsCurrentStep == ~Delivered => \A c \in Active : c = CommandOf(orch)

\* A command runs only after Nav completed every transfer of an earlier
\* step: the pallet is not carried before it is loaded, and the robot does
\* not return before it is unloaded.
TransfersInOrder ==
    \A c \in Active : \A i \in Step :
        i < c[1] /\ Kind[i] \in {"load", "unload"} => nav[<<i, 0>>] = "DONE"

\* A robot that was released for other work (set_task "IDLE") stands still:
\* completion, failure and cancellation release it only when Nav runs
\* nothing of this order, also when dispatches are still in flight.  A late
\* verdict of PRE_DROP_OFF makes one exception: it brings the record back to
\* the unload, and when the step is ended for the second time the order may
\* become DONE while the robot drives home.
FreedRobotIsStill ==
    robot = "IDLE" => \A c \in Active : task = "DONE" /\ c[1] > Drop

\* An order is cancelled only with empty forks.  The cargo policy is decided
\* when the stop is requested, applied when it is confirmed, and the load
\* may complete or be cut in between.
CancelledIsEmpty == task = "CANCELLED" => ~loaded

\* Goods that were delivered are never booked as failed or cancelled, so the
\* inventory follows the floor; in particular not by a failed return home.
DeliveredIsNotFailed == Delivered => task \notin {"FAILED", "CANCELLED"}

\* An order becomes DONE only for goods that Nav delivered: also when the
\* operator stops it or the way home fails, where the finalize relies on
\* what the record says of the delivery.
BookedIsDelivered == task = "DONE" => Delivered

\* The inventory is moved once, when the order becomes DONE, for goods that
\* Nav delivered, and the order then stays DONE.
AppliedOnce ==
    /\ applied = IF task = "DONE" THEN 1 ELSE 0
    /\ BookedIsDelivered

\* The cursor moves forward by one step, and only past a step whose command
\* Nav ended: not failed, not running, not unknown.
AdvanceOnEnd ==
    [][orch'.idx > orch.idx =>
          /\ orch'.idx = orch.idx + 1
          /\ nav[CommandOf(orch)] \notin {"NONE", "ACTIVE", "FAILED"}]_vars

\* The orchestrated order implements the abstract one.
WO == INSTANCE WorkOrder WITH
        status <- task, moving <- \E c \in Active : c[1] <= Drop,
        cargo <- loaded, delivered <- Delivered

ImplementsWorkOrder == WO!Spec

-----------------------------------------------------------------------------
(* Liveness, under FairSpec.                                               *)

Settled == Ended \/ InHold(orch)

\* However many callbacks are lost, the poller brings every step up to the
\* unload to its end while Main stays up: the cursor moves, the order ends,
\* or it is held.
StepEnds ==
    []up =>
        \A i \in Step : Kind[i] # "unload" =>
            (task = "RUNNING" /\ orch.idx = i) ~> (orch.idx # i \/ Settled)

\* A persisted stop request does not stay pending.
StopResolves ==
    (orch.phase = "CANCEL_REQUESTED") ~> (orch.phase # "CANCEL_REQUESTED")

\* When Main stays up at last, a move that was interrupted by its crash comes
\* to its end or is held, by startup reconciliation or by the poller.  What
\* is left out: a crash between claim and finalize of an unmonitored move
\* leaves ADVANCING, which nothing resumes.
MoveSurvivesCrash ==
    <>[]up =>
        \A i \in Step : Kind[i] \in MoveKinds =>
            (task = "RUNNING" /\ orch.idx = i) ~>
                \/ orch.idx # i \/ Settled
                \/ orch.phase = "ADVANCING" /\ Kind[i] # "carry"

-----------------------------------------------------------------------------
(* Promises of the documentation that the code breaks.                     *)

\* An order that was asked to stop is not run on.
StopIsNotForgotten == orch.phase = "RUNNING" => orch.stop = NoStop
=============================================================================
