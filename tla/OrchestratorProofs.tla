------------------------- MODULE OrchestratorProofs -------------------------
(***************************************************************************)
(* Theorems about the Orchestrator, for any scenario, any number of        *)
(* threads and any faults.                                                 *)
(***************************************************************************)
EXTENDS OrchestratorProps, TLAPS

\* What a thread remembers between two of its steps can be used when it goes
\* on: it left for the evidence gate from a step of the plan, and for a retry
\* from a transfer.
SnapOK(j) ==
    /\ j.at \in {"gate", "regate"} => InPlan(j.snap)
    /\ j.at = "regate" => Kind[j.snap.idx] \in {"load", "unload"}

JobsOK == job \in [Worker -> Job] /\ \A w \in Worker : SnapOK(job[w])

\* TypeOK with what the threads need of their memory.
TypeInv == TypeOK /\ JobsOK

-----------------------------------------------------------------------------
(* The parts of the durable record keep their types.                       *)

\* The first step and generation exist.
LEMMA FirstStep == N \in Step /\ 1 \in Step /\ 0 \in Gen
  BY OrchestratorAssumption DEF Step, Gen

\* Empty parts of a record are typed.
LEMMA NothingTyped ==
    /\ NoTransition \in Transition
    /\ NoRecovery \in Recovery
    /\ NoStop \in StopRequest
  BY DEF NoTransition, Transition, NoRecovery, Recovery, Reason, NoStop,
         StopRequest, Cargo

\* The record of new_orchestration is typed and has a current step.
LEMMA NewOrchTyped == NewOrch \in Orch /\ NoOrch \in Orch /\ InPlan(NewOrch)
<1>1. NewOrch \in Orch
  BY FirstStep, NothingTyped, OrchestratorAssumption
     DEF NewOrch, Orch, Phase, StepStatus
<1>2. NoOrch \in Orch
  BY <1>1 DEF NewOrch, NoOrch, Orch, Phase
<1>3. InPlan(NewOrch)
  BY OrchestratorAssumption DEF InPlan, NewOrch
<1> QED
  BY <1>1, <1>2, <1>3

\* A change of the current step's status leaves the cursor alone.
LEMMA SetStatusTyped ==
    ASSUME NEW o \in Orch, NEW s \in StepStatus
    PROVE  /\ SetStatus(o, s) \in Orch
           /\ SetStatus(o, s).idx = o.idx
           /\ SetStatus(o, s).len = o.len
           /\ SetStatus(o, s).gen = o.gen
  BY NothingTyped DEF SetStatus, Orch

\* A hold is a typed record.
LEMMA HeldTyped ==
    ASSUME NEW o \in Orch, NEW why \in Reason,
           NEW c \in Command \cup {NoCommand}
    PROVE  Held(o, why, c) \in Orch
  BY DEF Held, Orch, Recovery, Phase

\* A record with a current step has a current command.
LEMMA InPlanStep ==
    ASSUME NEW o \in Orch, InPlan(o)
    PROVE  o.idx \in Step /\ CommandOf(o) \in Command
  BY OrchestratorAssumption DEF InPlan, CommandOf, Orch, Step, Gen

\* The cursor moves on inside 1..(N + 1).
LEMMA AdvancedTyped ==
    ASSUME NEW o \in Orch, o.idx \in Step, NEW chained \in BOOLEAN
    PROVE  Advanced(o, chained) \in Orch
<1>1. o.idx + 1 \in 1..(N + 1)
  BY OrchestratorAssumption DEF Step
<1>2. SetStatus(o, "DONE") \in Orch /\ o.len \in Step
  BY SetStatusTyped DEF StepStatus, Orch
<1> QED
  BY <1>1, <1>2 DEF Advanced, Orch, Phase

\* A retry goes on behind a load, or back to the approach of an unload.
LEMMA RetriedTyped ==
    ASSUME NEW o \in Orch, InPlan(o), Kind[o.idx] \in {"load", "unload"},
           Kind[o.idx] = "unload" => o.gen[o.idx - 1] < MaxGen
    PROVE  Retried(o) \in Orch
<1>1. o.idx \in Step /\ o.idx > 1 /\ o.idx \in Nat
  BY InPlanStep, ApproachAssumption, OrchestratorAssumption DEF Step
<1>2. o.idx - 1 \in Step /\ o.idx - 1 \in 1..(N + 1) /\ o.idx + 1 \in 1..(N + 1)
  BY <1>1, OrchestratorAssumption DEF Step
<1>3. CASE Kind[o.idx] = "load"
  BY <1>2, <1>3, NothingTyped DEF Retried, Orch, Phase
<1>4. CASE Kind[o.idx] = "unload"
  <2>1. o.gen[o.idx - 1] + 1 \in Gen
    BY <1>2, <1>4, OrchestratorAssumption DEF Orch, Gen
  <2> QED
    BY <1>2, <1>4, <2>1, NothingTyped
       DEF Retried, Orch, Phase, StepStatus, Gen
<1> QED
  BY <1>3, <1>4

-----------------------------------------------------------------------------
(* The threads' jobs keep their types.                                     *)

\* An idle thread remembers nothing.
LEMMA NoJobTyped == NoJob \in Job /\ SnapOK(NoJob)
  BY NewOrchTyped, NothingTyped DEF NoJob, Job, At, SnapOK

\* One thread gets a new job.
LEMMA AssignTyped ==
    ASSUME JobsOK, NEW w \in Worker, NEW j \in Job, SnapOK(j),
           job' = [job EXCEPT ![w] = j]
    PROVE  JobsOK'
  BY DEF JobsOK, SnapOK, InPlan

\* A thread goes on to a point where it needs no snapshot.
LEMMA GotoTyped ==
    ASSUME JobsOK, NEW w \in Worker, NEW a \in At \ {"gate", "regate"},
           Goto(w, a)
    PROVE  JobsOK'
<1> DEFINE j == [job[w] EXCEPT !.at = a]
<1>1. j \in Job /\ SnapOK(j)
  BY DEF JobsOK, Job, SnapOK
<1>2. job' = [job EXCEPT ![w] = j]
  BY DEF Goto
<1> QED
  BY <1>1, <1>2, AssignTyped

\* A thread is done.
LEMMA FinishTyped ==
    ASSUME JobsOK, NEW w \in Worker, Finish(w)
    PROVE  JobsOK'
  BY NoJobTyped, AssignTyped DEF Finish

\* A thread sets out to dispatch or stop a command.
LEMMA SetOutTyped ==
    ASSUME JobsOK, NEW w \in Worker, NEW a \in At \ {"gate", "regate"},
           NEW c \in Command \cup {NoCommand},
           job' = [job EXCEPT ![w] = [NoJob EXCEPT !.at = a, !.cmd = c]]
    PROVE  JobsOK'
<1>1. [NoJob EXCEPT !.at = a, !.cmd = c] \in Job
  BY NoJobTyped DEF Job
<1>2. SnapOK([NoJob EXCEPT !.at = a, !.cmd = c])
  BY NoJobTyped DEF Job, SnapOK
<1> QED
  BY <1>1, <1>2, AssignTyped

\* A thread sets out to ask the evidence gate about what it read.
LEMMA AskTyped ==
    ASSUME JobsOK, NEW w \in Worker, NEW a \in {"gate", "regate"},
           NEW o \in Orch, InPlan(o),
           a = "regate" => Kind[o.idx] \in {"load", "unload"},
           job' = [job EXCEPT ![w] = [NoJob EXCEPT !.at = a, !.snap = o]]
    PROVE  JobsOK'
<1>1. [NoJob EXCEPT !.at = a, !.snap = o] \in Job
  BY NoJobTyped DEF Job, At
<1>2. SnapOK([NoJob EXCEPT !.at = a, !.snap = o])
  BY NoJobTyped DEF Job, SnapOK
<1> QED
  BY <1>1, <1>2, AssignTyped

-----------------------------------------------------------------------------
(* What Nav does, and the task row.                                        *)

\* A request, known or not, accepted or not, leaves the registry typed.
LEMMA NavRequestTyped ==
    ASSUME NavTypeOK, NEW c,
           Accept(c) \/ Refuse(c) \/ RefuseNotReady(c) \/ Cancel(c)
    PROVE  NavTypeOK'
<1> USE DEF NavTypeOK, NavState, GateAfter
<1>1. CASE Accept(c)
  BY <1>1 DEF Accept, Register, Duplicate
<1>2. CASE Refuse(c) \/ RefuseNotReady(c)
  BY <1>2 DEF Refuse, RefuseGate, RefuseBusy, RefuseNotReady
<1>3. CASE Cancel(c)
  BY <1>3 DEF Cancel, CancelUnknown, CancelSettled, CancelBegin, navVars
<1> QED
  BY <1>1, <1>2, <1>3

\* The executor threads, the timers and the E-stop leave it typed.
LEMMA NavOwnTyped ==
    ASSUME NavTypeOK, NEW c \in Command,
           \/ Complete(c) \/ Fail(c) \/ AbortByEstop(c) \/ GateTimeout(c)
           \/ CancelConfirm(c) \/ CancelUnconfirmed(c)
    PROVE  NavTypeOK'
<1> USE DEF NavTypeOK, NavState, Post, Letter, Event
<1>1. CASE Complete(c)
  <2>1. gate' \in Command \cup {NoCommand} /\ estop' \in BOOLEAN
    BY <1>1 DEF Complete
  <2>2. nav' \in [Command -> NavState]
    BY <1>1 DEF Complete
  <2>3. mail' \subseteq Letter
    BY <1>1 DEF Complete
  <2> QED
    BY <2>1, <2>2, <2>3
<1>2. CASE Fail(c) \/ AbortByEstop(c)
  BY <1>2 DEF Fail, AbortByEstop
<1>3. CASE GateTimeout(c)
  BY <1>3 DEF GateTimeout
<1>4. CASE CancelConfirm(c)
  BY <1>4 DEF CancelConfirm
<1>5. CASE CancelUnconfirmed(c)
  BY <1>5 DEF CancelUnconfirmed
<1> QED
  BY <1>1, <1>2, <1>3, <1>4, <1>5

\* So do the E-stop and its release.
LEMMA NavEstopTyped ==
    ASSUME NavTypeOK, Estop \/ ClearEstop
    PROVE  NavTypeOK'
<1>1. CASE Estop
  <2>1. [cmd : Active, ev : {"ESTOP"}] \subseteq Letter
    BY DEF Active, Letter, Event
  <2> QED
    BY <1>1, <2>1 DEF Estop, NavTypeOK, NavState
<1>2. CASE ClearEstop
  BY <1>2 DEF ClearEstop, NavTypeOK
<1> QED
  BY <1>1, <1>2

\* Nav and the pallet untouched.
LEMMA SameWorldTyped ==
    ASSUME NavTypeOK, loaded \in BOOLEAN, SameWorld
    PROVE  NavTypeOK' /\ loaded' \in BOOLEAN
  BY DEF SameWorld, navVars, NavTypeOK

TaskOK == task \in TaskStatus /\ robot \in {"BUSY", "IDLE"} /\ applied \in Nat

\* Completion, release and neither of them keep the task row typed.
LEMMA TaskTyped ==
    ASSUME TaskOK,
           \/ SameTask \/ Deliver
           \/ Release("FAILED") \/ Release("CANCELLED")
    PROVE  TaskOK'
  BY DEF TaskOK, SameTask, Deliver, Release, TaskStatus

\* The transaction that finalizes a claim.
LEMMA SettleTyped ==
    ASSUME TypeInv, NEW w \in Worker, NEW o \in Orch, Settle(w, o),
           \/ SameTask \/ Deliver
           \/ Release("FAILED") \/ Release("CANCELLED")
    PROVE  TypeInv'
<1>1. TaskOK'
  BY TaskTyped DEF TypeInv, TypeOK, TaskOK
<1>2. NavTypeOK' /\ loaded' \in BOOLEAN
  BY SameWorldTyped DEF Settle, TypeInv, TypeOK
<1>3. JobsOK'
  BY FinishTyped DEF Settle, TypeInv
<1>4. orch' \in Orch /\ up' \in BOOLEAN
  BY DEF Settle, TypeInv, TypeOK
<1> QED
  BY <1>1, <1>2, <1>3, <1>4 DEF TypeInv, TypeOK, TaskOK, JobsOK

\* A step that ends in typed parts ends in a typed whole.
LEMMA PartsTyped ==
    ASSUME TypeInv, SameTask \/ TaskOK', SameWorld \/ (NavTypeOK' /\ loaded' \in BOOLEAN),
           orch' \in Orch, up' \in BOOLEAN, JobsOK'
    PROVE  TypeInv'
<1>1. TaskOK'
  BY TaskTyped DEF TypeInv, TypeOK, TaskOK
<1>2. NavTypeOK' /\ loaded' \in BOOLEAN
  BY SameWorldTyped DEF TypeInv, TypeOK
<1> QED
  BY <1>1, <1>2 DEF TypeInv, TypeOK, TaskOK, JobsOK

-----------------------------------------------------------------------------
(* The steps of Main.                                                      *)

\* A started order has its fresh record; a start that is refused leaves none.
LEMMA StartTyped ==
    ASSUME TypeInv, NEW w \in Worker,
           BeginStart(w) \/ StartTask(w) \/ RefuseStart(w)
    PROVE  TypeInv'
<1>1. CASE BeginStart(w)
  <2>1. JobsOK'
    BY <1>1, GotoTyped DEF BeginStart, TypeInv, At
  <2> QED
    BY <1>1, <2>1, PartsTyped DEF BeginStart, TypeInv, TypeOK
<1>2. CASE StartTask(w)
  <2> DEFINE o == SetStatus(NewOrch, "dispatching")
  <2>1. o \in Orch /\ InPlan(o)
    BY NewOrchTyped, SetStatusTyped DEF StepStatus, InPlan
  <2>2. JobsOK'
    BY <1>2, <2>1, InPlanStep, SetOutTyped DEF StartTask, TypeInv, At
  <2>3. TaskOK'
    BY <1>2 DEF StartTask, TaskOK, TaskStatus, TypeInv, TypeOK
  <2> QED
    BY <1>2, <2>1, <2>2, <2>3, PartsTyped DEF StartTask, TypeInv, TypeOK
<1>3. CASE RefuseStart(w)
  <2>1. JobsOK'
    BY <1>3, FinishTyped DEF RefuseStart, TypeInv
  <2> QED
    BY <1>3, <2>1, PartsTyped DEF RefuseStart, TypeInv, TypeOK
<1> QED
  BY <1>1, <1>2, <1>3

\* Looking at an observation keeps no untyped memory of it.
LEMMA ObserveTyped ==
    ASSUME TypeInv, NEW w \in Worker, NEW c \in Command, NEW e \in Event,
           Observe(w, c, e)
    PROVE  JobsOK'
<1> DEFINE j == [NoJob EXCEPT !.at = "claim", !.cmd = c, !.ev = e,
                              !.stopping = (orch.phase = "CANCEL_REQUESTED"),
                              !.stop = orch.stop]
<1>1. orch.stop \in StopRequest
  BY DEF TypeInv, TypeOK, Orch
<1>2. j \in Job /\ SnapOK(j)
  BY <1>1, NoJobTyped DEF Job, At, SnapOK
<1>3. CASE job' = [job EXCEPT ![w] = j]
  BY <1>2, <1>3, AssignTyped DEF TypeInv
<1>4. CASE UNCHANGED job
  BY <1>4 DEF TypeInv, JobsOK, SnapOK
<1> QED
  BY <1>3, <1>4 DEF Observe

\* A delivered callback and a poll are observations.
LEMMA HearTyped ==
    ASSUME TypeInv, NEW w \in Worker,
           (\E m \in mail : Callback(w, m))
             \/ (w = Poller /\ \E c \in Command : Poll(c))
    PROVE  TypeInv'
<1>1. ASSUME NEW m \in mail, Callback(w, m)
      PROVE  TypeInv'
  <2>1. m.cmd \in Command /\ m.ev \in Event
    BY DEF TypeInv, TypeOK, NavTypeOK, Letter
  <2>2. JobsOK'
    <3>1. CASE Observe(w, m.cmd, m.ev)
      BY <2>1, <3>1, ObserveTyped
    <3>2. CASE UNCHANGED job
      BY <3>2 DEF TypeInv, JobsOK, SnapOK
    <3> QED
      BY <1>1, <3>1, <3>2 DEF Callback
  <2>3. NavTypeOK' /\ loaded' \in BOOLEAN
    BY <1>1 DEF Callback, TypeInv, TypeOK, NavTypeOK
  <2> QED
    BY <1>1, <2>2, <2>3, PartsTyped DEF Callback, TypeInv, TypeOK
<1>2. ASSUME NEW c \in Command, w = Poller, Poll(c)
      PROVE  TypeInv'
  <2>1. JobsOK'
    BY <1>2, ObserveTyped DEF Poll
  <2> QED
    BY <1>2, <2>1, PartsTyped DEF Poll, TypeInv, TypeOK
<1> QED
  BY <1>1, <1>2

\* A claim keeps the record it made.
LEMMA ClaimTyped ==
    ASSUME TypeInv, NEW w \in Worker, Claim(w) \/ LoseClaim(w)
    PROVE  TypeInv'
<1>1. CASE LoseClaim(w)
  <2>1. JobsOK'
    BY <1>1, FinishTyped DEF LoseClaim, TypeInv
  <2> QED
    BY <1>1, <2>1, PartsTyped DEF LoseClaim, TypeInv, TypeOK
<1>2. CASE Claim(w) /\ ~Claimable(job[w].cmd)
  <2>1. JobsOK'
    BY <1>2, FinishTyped DEF Claim, TypeInv
  <2> QED
    BY <1>2, <2>1, PartsTyped DEF Claim, TypeInv, TypeOK
<1>3. CASE Claim(w) /\ Claimable(job[w].cmd)
  <2> DEFINE o == [orch EXCEPT !.phase = "ADVANCING",
                               !.st[orch.idx] = "transition_claimed",
                               !.tid = TransitionOf(w)]
             j == [job[w] EXCEPT !.at = "claimed", !.snap = o]
  <2>1. job[w] \in Job
    BY DEF TypeInv, JobsOK
  <2>2. TransitionOf(w) \in Transition
    BY <2>1 DEF TransitionOf, Transition, EventName, Job, Event
  <2>3. o \in Orch
    BY <2>2 DEF TypeInv, TypeOK, Orch, Phase, StepStatus
  <2>4. j \in Job /\ SnapOK(j)
    BY <2>1, <2>3 DEF Job, At, SnapOK
  <2>5. job' = [job EXCEPT ![w] = j] /\ orch' = o
    BY <1>3, <2>1 DEF Claim, Job
  <2>6. JobsOK'
    BY <2>4, <2>5, AssignTyped DEF TypeInv
  <2> QED
    BY <1>3, <2>3, <2>5, <2>6, PartsTyped DEF Claim, TypeInv, TypeOK
<1> QED
  BY <1>1, <1>2, <1>3

\* What a winning thread knows: its snapshot has a current step.
LEMMA WinningSnap ==
    ASSUME TypeInv, NEW w \in Worker, Winning(w)
    PROVE  /\ job[w] \in Job
           /\ job[w].snap \in Orch
           /\ job[w].cmd \in Command \cup {NoCommand}
           /\ job[w].snap.idx \in Step
           /\ orch \in Orch
  BY InPlanStep DEF TypeInv, TypeOK, JobsOK, Job, Winning, Won

\* Every finalize of a claimed transition, approved or not.
LEMMA FinalizeTyped ==
    ASSUME TypeInv, NEW w \in Worker,
           \/ SettleUnexpectedCancel(w) \/ SettleCancelFailed(w)
           \/ SettleStopped(w) \/ SettleDoneDuringStop(w)
           \/ SettleFailed(w) \/ SettleLoadHeld(w) \/ FailClose(w)
    PROVE  TypeInv'
<1> DEFINE s == job[w].snap
<1>1. CASE SettleUnexpectedCancel(w)
  <2>1. Held(SetStatus(s, "CANCELLED"), "unexpected_movement_cancel", NoCommand)
          \in Orch
    BY <1>1, WinningSnap, SetStatusTyped, HeldTyped
       DEF SettleUnexpectedCancel, StepStatus, Reason
  <2> QED
    BY <1>1, <2>1, SettleTyped DEF SettleUnexpectedCancel
<1>2. CASE SettleCancelFailed(w)
  <2>1. ASSUME NEW why \in Reason
        PROVE  Held(SetStatus(s, job[w].ev), why, job[w].cmd) \in Orch
    BY <1>2, WinningSnap, SetStatusTyped, HeldTyped
       DEF SettleCancelFailed, StepStatus
  <2>2. "cancel_terminal_failure" \in Reason /\ "physical_stop_unconfirmed" \in Reason
    BY DEF Reason
  <2> QED
    BY <1>2, <2>1, <2>2, SettleTyped DEF SettleCancelFailed
<1>3. CASE SettleStopped(w)
  <2> DEFINE o == SetStatus(s, "CANCELLED")
  <2>1. o \in Orch
    BY <1>3, WinningSnap, SetStatusTyped DEF SettleStopped, StepStatus
  <2>2. /\ [o EXCEPT !.phase = "DONE"] \in Orch
        /\ [o EXCEPT !.phase = "CANCELLED"] \in Orch
    BY <2>1 DEF Orch, Phase
  <2>3. Held(o, "operator_safe_stop", NoCommand) \in Orch
    BY <2>1, HeldTyped DEF Reason
  <2> QED
    BY <1>3, <2>2, <2>3, SettleTyped DEF SettleStopped
<1>4. CASE SettleDoneDuringStop(w)
  <2>1. Held(SetStatus(s, "DONE"), "command_completed_during_stop", job[w].cmd)
          \in Orch
    BY <1>4, WinningSnap, SetStatusTyped, HeldTyped
       DEF SettleDoneDuringStop, StepStatus, Reason
  <2> QED
    BY <1>4, <2>1, SettleTyped DEF SettleDoneDuringStop
<1>5. CASE SettleFailed(w)
  <2> DEFINE e == EventName(job[w].ev)
             o == SetStatus(s, e)
  <2>1. e \in {"FAILED", "ABORTED"}
    BY <1>5 DEF SettleFailed, EventName
  <2>2. o \in Orch
    BY <1>5, <2>1, WinningSnap, SetStatusTyped DEF SettleFailed, StepStatus
  <2>3. [o EXCEPT !.phase = "DONE"] \in Orch /\ [o EXCEPT !.phase = e] \in Orch
    BY <2>1, <2>2 DEF Orch, Phase
  <2>4. Held(o, "movement_estop", NoCommand) \in Orch
    BY <2>2, HeldTyped DEF Reason
  <2> QED
    BY <1>5, <2>3, <2>4, SettleTyped DEF SettleFailed
<1>6. CASE SettleLoadHeld(w)
  <2>1. Held(SetStatus(s, "DONE"), "evidence_gate", NoCommand) \in Orch
    BY <1>6, WinningSnap, SetStatusTyped, HeldTyped
       DEF SettleLoadHeld, StepStatus, Reason
  <2> QED
    BY <1>6, <2>1, SettleTyped DEF SettleLoadHeld
<1>7. CASE FailClose(w)
  <2>1. Held(orch, "terminal_transition_error", job[w].cmd) \in Orch
    BY <1>7, WinningSnap, HeldTyped DEF FailClose, Reason
  <2> QED
    BY <1>7, <2>1, SettleTyped DEF FailClose
<1> QED
  BY <1>1, <1>2, <1>3, <1>4, <1>5, <1>6, <1>7

\* The cursor moves to a step of the plan, or the order ends.
LEMMA AdvanceTyped ==
    ASSUME TypeInv, NEW w \in Worker, SettleAdvance(w)
    PROVE  TypeInv'
<1> DEFINE o(chained) == Advanced(job[w].snap, chained)
<1>1. PICK chained \in BOOLEAN :
        \/ /\ InPlan(o(chained))
           /\ orch' = o(chained)
           /\ job' = [job EXCEPT ![w] = [NoJob EXCEPT !.at = "dispatch"]]
           /\ UNCHANGED up /\ SameTask /\ SameWorld
        \/ /\ ~InPlan(o(chained))
           /\ Settle(w, [o(chained) EXCEPT !.phase = "DONE"])
           /\ Deliver
  BY DEF SettleAdvance
<1>2. o(chained) \in Orch
  BY WinningSnap, AdvancedTyped DEF SettleAdvance
<1>3. CASE InPlan(o(chained))
  <2>1. JobsOK'
    <3>1. [NoJob EXCEPT !.at = "dispatch"] \in Job
      BY NoJobTyped DEF Job, At
    <3>2. SnapOK([NoJob EXCEPT !.at = "dispatch"])
      BY NoJobTyped DEF Job, SnapOK
    <3> QED
      BY <1>1, <1>3, <3>1, <3>2, AssignTyped DEF TypeInv
  <2> QED
    BY <1>1, <1>2, <1>3, <2>1, PartsTyped DEF TypeInv, TypeOK
<1>4. CASE ~InPlan(o(chained))
  <2>1. [o(chained) EXCEPT !.phase = "DONE"] \in Orch
    BY <1>2 DEF Orch, Phase
  <2> QED
    BY <1>1, <1>4, <2>1, SettleTyped
<1> QED
  BY <1>3, <1>4

\* The beginning of a dispatch.
LEMMA BeginDispatchTyped ==
    ASSUME TypeInv, NEW w \in Worker, BeginDispatch(w)
    PROVE  orch' \in Orch /\ JobsOK'
<1>1. orch \in Orch /\ NoCommand \in Command \cup {NoCommand}
  BY DEF TypeInv, TypeOK
<1>2. Held(orch, "evidence_gate", NoCommand) \in Orch
  BY <1>1, HeldTyped DEF Reason
<1>3. CASE Finish(w) /\ (UNCHANGED orch \/ orch' = Held(orch, "evidence_gate", NoCommand))
  BY <1>1, <1>2, <1>3, FinishTyped DEF TypeInv
<1>4. CASE /\ InPlan(orch) /\ UNCHANGED orch
           /\ job' = [job EXCEPT ![w] = [NoJob EXCEPT !.at = "gate", !.snap = orch]]
  BY <1>1, <1>4, AskTyped DEF TypeInv
<1>5. CASE /\ InPlan(orch) /\ UNCHANGED orch
           /\ job' = [job EXCEPT ![w] =
                         [NoJob EXCEPT !.at = "dclaim", !.cmd = CommandOf(orch)]]
  BY <1>1, <1>5, InPlanStep, SetOutTyped DEF TypeInv, At
<1> QED
  BY <1>3, <1>4, <1>5 DEF BeginDispatch

\* Both ways to begin one.
LEMMA DispatchBegunTyped ==
    ASSUME TypeInv, NEW w \in Worker,
           DispatchNext(w) \/ (w = Poller /\ PollDispatch)
    PROVE  TypeInv'
<1>1. orch' \in Orch /\ JobsOK'
  BY BeginDispatchTyped DEF DispatchNext, PollDispatch
<1> QED
  BY <1>1, PartsTyped DEF DispatchNext, PollDispatch, TypeInv, TypeOK

\* The verdict of the evidence gate.
LEMMA GateTyped ==
    ASSUME TypeInv, NEW w \in Worker, GateHold(w) \/ GatePass(w)
    PROVE  TypeInv'
<1> DEFINE s == job[w].snap
<1>1. s \in Orch /\ InPlan(s)
  BY DEF TypeInv, JobsOK, SnapOK, Job, GateHold, GatePass, Doing
<1>2. [s EXCEPT !.appr = "hold"] \in Orch /\ [s EXCEPT !.appr = "pass"] \in Orch
  BY <1>1 DEF Orch
<1>3. CASE GateHold(w)
  <2>1. orch' \in Orch
    BY <1>2, <1>3, HeldTyped DEF GateHold, Reason
  <2>2. JobsOK'
    BY <1>3, FinishTyped DEF GateHold, TypeInv
  <2> QED
    BY <1>3, <2>1, <2>2, PartsTyped DEF GateHold, TypeInv, TypeOK
<1>4. CASE GatePass(w)
  <2> DEFINE o == SetStatus([s EXCEPT !.appr = "pass"], "dispatching")
  <2>1. o \in Orch /\ InPlan(o)
    <3>1. InPlan([s EXCEPT !.appr = "pass"])
      BY <1>1 DEF InPlan, Orch
    <3> QED
      BY <1>2, <3>1, SetStatusTyped DEF StepStatus, InPlan
  <2>2. JobsOK'
    BY <1>4, <2>1, InPlanStep, SetOutTyped DEF GatePass, TypeInv, At
  <2> QED
    BY <1>4, <2>1, <2>2, PartsTyped DEF GatePass, TypeInv, TypeOK
<1> QED
  BY <1>3, <1>4

\* The durable dispatch claim.
LEMMA DispatchClaimTyped ==
    ASSUME TypeInv, NEW w \in Worker, DispatchClaim(w)
    PROVE  TypeInv'
<1> DEFINE o == SetStatus(orch, "dispatching")
           j == [job[w] EXCEPT !.at = "send", !.cmd = CommandOf(o)]
<1>1. job[w] \in Job /\ orch \in Orch
  BY DEF TypeInv, TypeOK, JobsOK
<1>2. CASE Finish(w) /\ UNCHANGED orch
  BY <1>1, <1>2, FinishTyped, PartsTyped DEF DispatchClaim, TypeInv, TypeOK
<1>3. CASE /\ InPlan(orch) /\ orch' = o
           /\ job' = [job EXCEPT ![w].at = "send", ![w].cmd = CommandOf(o)]
  <2>1. o \in Orch /\ InPlan(o)
    BY <1>1, <1>3, SetStatusTyped DEF StepStatus, InPlan
  <2>2. j \in Job /\ SnapOK(j)
    BY <1>1, <2>1, InPlanStep DEF Job, At, SnapOK
  <2>3. job' = [job EXCEPT ![w] = j]
    BY <1>1, <1>3 DEF Job
  <2>4. JobsOK'
    BY <2>2, <2>3, AssignTyped DEF TypeInv
  <2> QED
    BY <1>3, <2>1, <2>4, PartsTyped DEF DispatchClaim, TypeInv, TypeOK
<1> QED
  BY <1>2, <1>3 DEF DispatchClaim

\* Before, during and after the HTTP call of a dispatch.
LEMMA SendTyped ==
    ASSUME TypeInv, NEW w \in Worker,
           ArmFail(w) \/ Send(w) \/ SendLost(w) \/ FinalizeDispatch(w)
             \/ HoldUnstopped(w)
    PROVE  TypeInv'
<1>1. orch \in Orch /\ job[w].cmd \in Command \cup {NoCommand}
  BY DEF TypeInv, TypeOK, JobsOK, Job
<1>2. CASE ArmFail(w)
  <2>1. orch' \in Orch
    BY <1>1, <1>2, HeldTyped DEF ArmFail, Reason
  <2>2. JobsOK'
    BY <1>2, GotoTyped DEF ArmFail, TypeInv, At
  <2> QED
    BY <1>2, <2>1, <2>2, PartsTyped DEF ArmFail, TypeInv, TypeOK
<1>3. CASE Send(w)
  <2>1. NavTypeOK'
    BY <1>3, NavRequestTyped DEF Send, TypeInv, TypeOK
  <2>2. JobsOK'
    BY <1>3, GotoTyped, FinishTyped DEF Send, TypeInv, At
  <2> QED
    BY <1>3, <2>1, <2>2, PartsTyped DEF Send, TypeInv, TypeOK
<1>4. CASE SendLost(w)
  <2>1. NavTypeOK'
    BY <1>4, NavRequestTyped DEF SendLost, TypeInv, TypeOK, navVars, NavTypeOK
  <2>2. JobsOK'
    BY <1>4, FinishTyped DEF SendLost, TypeInv
  <2> QED
    BY <1>4, <2>1, <2>2, PartsTyped DEF SendLost, TypeInv, TypeOK
<1>5. CASE FinalizeDispatch(w)
  <2>1. orch' \in Orch
    BY <1>1, <1>5, SetStatusTyped DEF FinalizeDispatch, StepStatus
  <2>2. JobsOK'
    BY <1>5, GotoTyped, FinishTyped DEF FinalizeDispatch, TypeInv, At
  <2> QED
    BY <1>5, <2>1, <2>2, PartsTyped DEF FinalizeDispatch, TypeInv, TypeOK
<1>6. CASE HoldUnstopped(w)
  <2>1. orch' \in Orch
    BY <1>1, <1>6, HeldTyped DEF HoldUnstopped, Reason
  <2>2. JobsOK'
    BY <1>6, GotoTyped DEF HoldUnstopped, TypeInv, At
  <2> QED
    BY <1>6, <2>1, <2>2, PartsTyped DEF HoldUnstopped, TypeInv, TypeOK
<1> QED
  BY <1>2, <1>3, <1>4, <1>5, <1>6

\* The operator's stop request.
LEMMA RequestStopTyped ==
    ASSUME TypeInv, NEW w \in Worker, RequestStop(w)
    PROVE  TypeInv'
<1>1. orch \in Orch
  BY DEF TypeInv, TypeOK
<1>2. CASE StopAgain(w)
  <2>1. JobsOK'
    BY <1>2, GotoTyped DEF StopAgain, TypeInv, At
  <2> QED
    BY <1>1, <1>2, <2>1, PartsTyped DEF RequestStop, StopAgain, TypeInv, TypeOK
<1>3. CASE StopWithoutCommand(w)
  <2>1. orch' \in Orch
    BY <1>1, <1>3, HeldTyped DEF StopWithoutCommand, Reason
  <2>2. JobsOK'
    BY <1>3, GotoTyped DEF StopWithoutCommand, TypeInv, At
  <2> QED
    BY <2>1, <2>2, PartsTyped DEF RequestStop, TypeInv, TypeOK
<1>4. CASE CommandIsActive /\ StopCommand(w)
  <2> DEFINE c == CommandOf(orch)
  <2>1. c \in Command
    BY <1>1, <1>4, InPlanStep DEF CommandIsActive
  <2>2. StopCargo \in Cargo
    BY DEF StopCargo, CargoAfterSteps, Cargo
  <2>3. [cmd |-> c, cargo |-> StopCargo, biz |-> orch.biz] \in StopRequest
    BY <1>1, <2>1, <2>2 DEF StopRequest, Orch
  <2>4. [orch EXCEPT !.phase = "CANCEL_REQUESTED",
                     !.stop = [cmd |-> c, cargo |-> StopCargo,
                               biz |-> orch.biz]] \in Orch
    BY <1>1, <2>3 DEF Orch, Phase
  <2>5. orch' \in Orch
    BY <1>1, <1>4, <2>4 DEF StopCommand
  <2>6. JobsOK'
    BY <1>4, <2>1, SetOutTyped DEF StopCommand, TypeInv, At
  <2> QED
    BY <2>5, <2>6, PartsTyped DEF RequestStop, TypeInv, TypeOK
<1> QED
  BY <1>2, <1>3, <1>4 DEF RequestStop

\* The cancel of the stopped command, and a stop that is not confirmed.
LEMMA StopTyped ==
    ASSUME TypeInv, NEW w \in Worker, Stop(w) \/ CancelLost(w)
    PROVE  TypeInv'
<1>1. orch \in Orch /\ job[w].cmd \in Command \cup {NoCommand}
  BY DEF TypeInv, TypeOK, JobsOK, Job
<1>2. CASE SendCancel(w)
  <2>1. NavTypeOK'
    BY <1>2, NavRequestTyped DEF SendCancel, TypeInv, TypeOK
  <2>2. loaded' \in BOOLEAN
    BY <1>2 DEF SendCancel, Disturb, TypeInv, TypeOK
  <2>3. JobsOK'
    BY <1>2, GotoTyped DEF SendCancel, TypeInv, At
  <2> QED
    BY <1>1, <1>2, <2>1, <2>2, <2>3, PartsTyped DEF SendCancel, TypeInv, TypeOK
<1>3. CASE CancelAnswer(w)
  <2>1. job[w].at \in DOMAIN Cancelling =>
          Cancelling[job[w].at] \in At \ {"gate", "regate"}
    BY DEF Cancelling, At
  <2>2. JobsOK'
    BY <1>3, <2>1, GotoTyped, FinishTyped DEF CancelAnswer, TypeInv
  <2> QED
    BY <1>1, <1>3, <2>2, PartsTyped DEF CancelAnswer, TypeInv, TypeOK
<1>4. CASE CancelLost(w)
  <2>1. JobsOK'
    BY <1>4, GotoTyped DEF CancelLost, TypeInv, At
  <2> QED
    BY <1>1, <1>4, <2>1, PartsTyped DEF CancelLost, TypeInv, TypeOK
<1>5. CASE HoldUnconfirmed(w)
  <2>1. orch' \in Orch
    BY <1>1, <1>5, HeldTyped DEF HoldUnconfirmed, Reason
  <2>2. JobsOK'
    BY <1>5, GotoTyped, FinishTyped DEF HoldUnconfirmed, TypeInv, At
  <2> QED
    BY <1>5, <2>1, <2>2, PartsTyped DEF HoldUnconfirmed, TypeInv, TypeOK
<1>6. CASE ManualStop(w)
  <2>1. [orch EXCEPT !.rec.conf = TRUE] \in Orch
    BY <1>1 DEF Orch, Recovery
  <2>2. orch' \in Orch
    BY <1>1, <1>6, <2>1 DEF ManualStop
  <2>3. JobsOK'
    BY <1>6, FinishTyped DEF ManualStop, TypeInv
  <2> QED
    BY <1>6, <2>2, <2>3, PartsTyped DEF ManualStop, TypeInv, TypeOK
<1> QED
  BY <1>2, <1>3, <1>4, <1>5, <1>6 DEF Stop

\* Safety holds and their E-stop.
LEMMA SafetyTyped ==
    ASSUME TypeInv, NEW w \in Worker, SafetyHold(w) \/ SendEstop(w)
    PROVE  TypeInv'
<1>1. orch \in Orch
  BY DEF TypeInv, TypeOK
<1>2. CASE SafetyHold(w)
  <2>1. orch' \in Orch
    BY <1>1, <1>2, HeldTyped DEF SafetyHold, Reason
  <2>2. JobsOK'
    BY <1>2, GotoTyped DEF SafetyHold, TypeInv, At
  <2> QED
    BY <1>2, <2>1, <2>2, PartsTyped DEF SafetyHold, TypeInv, TypeOK
<1>3. CASE SendEstop(w)
  <2>1. NavTypeOK' /\ loaded' \in BOOLEAN
    BY <1>3, NavEstopTyped, SameWorldTyped
       DEF SendEstop, TryEstop, EstopWorld, TypeInv, TypeOK
  <2>2. JobsOK'
    BY <1>3, FinishTyped DEF SendEstop, TypeInv
  <2> QED
    BY <1>1, <1>3, <2>1, <2>2, PartsTyped DEF SendEstop, TypeInv, TypeOK
<1> QED
  BY <1>2, <1>3

\* The retry of a held transfer.
LEMMA RetryTyped ==
    ASSUME TypeInv, NEW w \in Worker,
           BeginRetry(w) \/ RetryHold(w) \/ RetryPass(w)
    PROVE  TypeInv'
<1> DEFINE s == job[w].snap
<1>1. orch \in Orch
  BY DEF TypeInv, TypeOK
<1>2. CASE BeginRetry(w)
  <2>1. JobsOK'
    BY <1>1, <1>2, AskTyped DEF BeginRetry, TypeInv
  <2> QED
    BY <1>1, <1>2, <2>1, PartsTyped DEF BeginRetry, TypeInv, TypeOK
<1>3. ASSUME Doing(w, "regate")
      PROVE  s \in Orch /\ InPlan(s) /\ Kind[s.idx] \in {"load", "unload"}
  BY <1>3 DEF Doing, TypeInv, JobsOK, SnapOK, Job
<1>4. CASE RetryHold(w)
  <2>1. s \in Orch /\ [s EXCEPT !.appr = "hold"] \in Orch
    BY <1>3, <1>4 DEF RetryHold, Orch
  <2>2. orch' \in Orch
    BY <1>4, <2>1, HeldTyped DEF RetryHold, Reason
  <2>3. JobsOK'
    BY <1>4, FinishTyped DEF RetryHold, TypeInv
  <2> QED
    BY <1>4, <2>2, <2>3, PartsTyped DEF RetryHold, TypeInv, TypeOK
<1>5. CASE RetryPass(w)
  <2>1. orch' \in Orch
    BY <1>3, <1>5, RetriedTyped DEF RetryPass
  <2>2. [NoJob EXCEPT !.at = "dispatch"] \in Job
    BY NoJobTyped DEF Job, At
  <2>3. SnapOK([NoJob EXCEPT !.at = "dispatch"])
    BY NoJobTyped DEF Job, SnapOK
  <2>4. JobsOK'
    BY <1>5, <2>2, <2>3, AssignTyped DEF RetryPass, TypeInv
  <2> QED
    BY <1>5, <2>1, <2>4, PartsTyped DEF RetryPass, TypeInv, TypeOK
<1> QED
  BY <1>2, <1>4, <1>5

-----------------------------------------------------------------------------
(* The steps of Nav, of the operator at the robot, and the crash of Main.  *)

\* Nav and the person at the robot leave Main alone.
LEMMA WorldTyped ==
    ASSUME TypeInv,
           \/ \E c \in Command : NavStep(c) \/ NavGateTimeout(c)
           \/ OperatorClearEstop
    PROVE  TypeInv'
<1>1. NavTypeOK'
  BY NavOwnTyped, NavEstopTyped
     DEF NavStep, NavComplete, NavEnd, NavCancelEnd, NavGateTimeout,
         OperatorClearEstop, TypeInv, TypeOK
<1>2. loaded' \in BOOLEAN
  BY DEF NavStep, NavComplete, NavEnd, NavCancelEnd, NavGateTimeout,
         OperatorClearEstop, Disturb, TypeInv, TypeOK
<1>3. UNCHANGED mainVars
  BY DEF NavStep, NavComplete, NavEnd, NavCancelEnd, NavGateTimeout,
         OperatorClearEstop
<1> QED
  BY <1>1, <1>2, <1>3, PartsTyped
     DEF mainVars, SameTask, TypeInv, TypeOK, JobsOK, SnapOK

\* A crash forgets the jobs; the restart holds what it must.
LEMMA CrashTyped ==
    ASSUME TypeInv, Crash \/ Restart
    PROVE  TypeInv'
<1>1. orch \in Orch
  BY DEF TypeInv, TypeOK
<1>2. CASE Crash
  <2>1. JobsOK'
    BY <1>2, NoJobTyped DEF Crash, JobsOK, SnapOK, InPlan
  <2> QED
    BY <1>1, <1>2, <2>1, PartsTyped DEF Crash, TypeInv, TypeOK
<1>3. CASE Restart
  <2>1. JobsOK'
    BY <1>3 DEF Restart, TypeInv, JobsOK, SnapOK
  <2>2. orch' \in Orch
    BY <1>1, <1>3, HeldTyped DEF Restart, Reason
  <2>3. NavTypeOK' /\ loaded' \in BOOLEAN
    BY <1>3, NavEstopTyped, SameWorldTyped
       DEF Restart, TryEstop, EstopWorld, TypeInv, TypeOK
  <2> QED
    BY <1>3, <2>1, <2>2, <2>3, PartsTyped DEF Restart, TypeInv, TypeOK
<1> QED
  BY <1>2, <1>3

-----------------------------------------------------------------------------
(* The theorems.                                                           *)

\* It holds at the start,
LEMMA InitTyped == Init => TypeInv
<1> SUFFICES ASSUME Init PROVE TypeInv
  OBVIOUS
<1>1. NavTypeOK
  BY DEF Init, NavInit, NavTypeOK, NavState
<1>2. JobsOK
  BY NoJobTyped DEF Init, JobsOK
<1> QED
  BY <1>1, <1>2, NewOrchTyped DEF Init, TypeInv, TypeOK, TaskStatus, JobsOK

\* and every step keeps it.
LEMMA NextTyped == TypeInv /\ [Next]_vars => TypeInv'
<1> SUFFICES ASSUME TypeInv, [Next]_vars PROVE TypeInv'
  OBVIOUS
<1>1. ASSUME NEW w \in Worker, BeginStart(w) \/ Continue(w) \/ Break(w)
      PROVE  TypeInv'
  BY <1>1, StartTyped, ClaimTyped, FinalizeTyped, AdvanceTyped, DispatchBegunTyped,
     GateTyped, DispatchClaimTyped, SendTyped, StopTyped, SafetyTyped,
     RetryTyped
     DEF Continue, Break, Advance, Dispatch
<1>2. ASSUME NEW w \in Worker \ {Poller}, Request(w)
      PROVE  TypeInv'
  BY <1>2, HearTyped, RequestStopTyped, SafetyTyped, RetryTyped
     DEF Request
<1>3. CASE PollOnce
  BY <1>3, OrchestratorAssumption, DispatchBegunTyped, HearTyped DEF PollOnce
<1>4. CASE \/ \E c \in Command : NavStep(c) \/ NavGateTimeout(c)
           \/ OperatorClearEstop
  BY <1>4, WorldTyped
<1>5. CASE Crash \/ Restart
  BY <1>5, CrashTyped
<1>6. CASE UNCHANGED vars
  BY <1>6 DEF vars, TypeInv, TypeOK, NavTypeOK, JobsOK, SnapOK
<1> QED
  BY <1>1, <1>2, <1>3, <1>4, <1>5, <1>6 DEF Next

\* Whatever the scenario, the number of threads and the faults, every record,
\* job, command and callback keeps its type: the cursor never leaves the plan
\* by more than one step, and a job never needs what its snapshot lacks.
THEOREM TypeCorrect == Spec => []TypeOK
<1>1. Init => TypeInv
  BY InitTyped
<1>2. TypeInv /\ [Next]_vars => TypeInv'
  BY NextTyped
<1>3. TypeInv => TypeOK
  BY DEF TypeInv
<1> QED
  BY <1>1, <1>2, <1>3, PTL DEF Spec

-----------------------------------------------------------------------------
(* One start at a time, and the inventory moved at most once.              *)

\* No start is asked for while another one waits for the robot's answer.
OneStart == "start" \notin Faults

\* Until it is started an order has no record and no thread works on it, and
\* only one thread is about to start it.
StartInv ==
    /\ task = "ASSIGNED" =>
          orch = NoOrch /\ \A w \in Worker : job[w].at \in {"idle", "start"}
    /\ \A w \in Worker : job[w].at = "start" =>
          /\ task = "ASSIGNED"
          /\ \A x \in Worker : job[x].at = "start" => x = w

\* A step that begins no start and does not make one.
Calm ==
    /\ \A w \in Worker : job'[w].at = "start" => job[w].at = "start"
    /\ task # "ASSIGNED" => task' # "ASSIGNED"
    /\ task = "ASSIGNED" =>
          UNCHANGED <<task, orch>> /\ \A w \in Worker : job'[w].at \in {"idle", "start"}

\* Thread w is not about to start the order, and no other thread set out to.
Apart(w) ==
    \A x \in Worker : job'[x].at = "start" => x # w /\ job[x].at = "start"

\* A thread gets a job that is not a start.
LEMMA JobApart ==
    ASSUME TypeInv, NEW w \in Worker, NEW j, j.at # "start",
           job' = [job EXCEPT ![w] = j]
    PROVE  Apart(w)
  BY DEF Apart, TypeInv, JobsOK

\* It is done,
LEMMA DoneApart ==
    ASSUME TypeInv, NEW w \in Worker, Finish(w)
    PROVE  Apart(w)
  BY JobApart DEF Finish, NoJob

\* goes on, or sets out.
LEMMA GoApart ==
    ASSUME TypeInv, NEW w \in Worker, NEW a, a # "start", NEW c, NEW o,
           \/ Goto(w, a)
           \/ job' = [job EXCEPT ![w] = [NoJob EXCEPT !.at = a]]
           \/ job' = [job EXCEPT ![w] = [NoJob EXCEPT !.at = a, !.cmd = c]]
           \/ job' = [job EXCEPT ![w] = [NoJob EXCEPT !.at = a, !.snap = o]]
           \/ job' = [job EXCEPT ![w].at = a, ![w].cmd = c]
           \/ job' = [job EXCEPT ![w].at = a, ![w].snap = o]
    PROVE  Apart(w)
<1>1. job[w] \in Job /\ job \in [Worker -> Job]
  BY DEF TypeInv, JobsOK
<1>2. CASE Goto(w, a)
  <2>1. [job[w] EXCEPT !.at = a].at = a
    BY <1>1 DEF Job
  <2>2. job' = [job EXCEPT ![w] = [job[w] EXCEPT !.at = a]]
    BY <1>1, <1>2 DEF Goto
  <2> QED
    BY <2>1, <2>2, JobApart
<1>3. CASE \/ job' = [job EXCEPT ![w] = [NoJob EXCEPT !.at = a]]
           \/ job' = [job EXCEPT ![w] = [NoJob EXCEPT !.at = a, !.cmd = c]]
           \/ job' = [job EXCEPT ![w] = [NoJob EXCEPT !.at = a, !.snap = o]]
  <2>1. /\ [NoJob EXCEPT !.at = a].at = a
        /\ [NoJob EXCEPT !.at = a, !.cmd = c].at = a
        /\ [NoJob EXCEPT !.at = a, !.snap = o].at = a
    BY NoJobTyped DEF Job
  <2> QED
    BY <1>3, <2>1, JobApart
<1>4. CASE \/ job' = [job EXCEPT ![w].at = a, ![w].cmd = c]
           \/ job' = [job EXCEPT ![w].at = a, ![w].snap = o]
  <2>1. /\ [job[w] EXCEPT !.at = a, !.cmd = c].at = a
        /\ [job[w] EXCEPT !.at = a, !.snap = o].at = a
    BY <1>1 DEF Job
  <2>2. \/ job' = [job EXCEPT ![w] = [job[w] EXCEPT !.at = a, !.cmd = c]]
        \/ job' = [job EXCEPT ![w] = [job[w] EXCEPT !.at = a, !.snap = o]]
    BY <1>1, <1>4 DEF Job
  <2> QED
    BY <2>1, <2>2, JobApart
<1> QED
  BY <1>2, <1>3, <1>4

\* It begins a dispatch from what it reads of the record.
LEMMA BeginApart ==
    ASSUME TypeInv, NEW w \in Worker, BeginDispatch(w)
    PROVE  Apart(w)
<1>1. \/ Finish(w)
      \/ job' = [job EXCEPT ![w] = [NoJob EXCEPT !.at = "gate", !.snap = orch]]
      \/ job' = [job EXCEPT ![w] =
                    [NoJob EXCEPT !.at = "dclaim", !.cmd = CommandOf(orch)]]
  BY DEF BeginDispatch
<1>2. "gate" # "start" /\ "dclaim" # "start"
  OBVIOUS
<1> QED
  BY <1>1, <1>2, DoneApart, GoApart

\* A thread that works on a started order leaves it started.
LEMMA ApartCalm ==
    ASSUME TypeInv, StartInv, NEW w \in Worker, Apart(w),
           job[w].at \notin {"idle", "start"} \/ task = "RUNNING",
           SameTask \/ Deliver \/ Release("FAILED") \/ Release("CANCELLED")
    PROVE  Calm
<1>1. task # "ASSIGNED"
  BY DEF StartInv
<1>2. task' # "ASSIGNED"
  BY <1>1 DEF SameTask, Deliver, Release
<1> QED
  BY <1>1, <1>2 DEF Apart, Calm

\* What a thread does with a job of a started order.
LEMMA WorkCalm ==
    ASSUME TypeInv, StartInv, NEW w \in Worker,
           Continue(w) \/ Break(w)
    PROVE  StartTask(w) \/ Calm
<1> USE DEF Doing
<1>1. CASE RefuseStart(w)
  <2>1. Apart(w)
    BY <1>1, DoneApart, GoApart DEF RefuseStart
  <2>2. job' = [job EXCEPT ![w] = NoJob] /\ UNCHANGED <<task, orch>>
    BY <1>1 DEF RefuseStart, Finish, SameTask
  <2>3. job'[w].at = "idle" /\ \A x \in Worker \ {w} : job'[x] = job[x]
    BY <2>2 DEF TypeInv, JobsOK, NoJob
  <2> QED
    BY <2>1, <2>2, <2>3 DEF Apart, Calm, StartInv
<1>2. CASE Advance(w) \/ FailClose(w)
  <2>1. CASE Claim(w)
    BY <2>1, DoneApart, GoApart, ApartCalm DEF Claim
  <2>2. CASE LoseClaim(w)
    BY <2>2, DoneApart, GoApart, ApartCalm DEF LoseClaim
  <2>3. ASSUME Winning(w), NEW o, Settle(w, o)
        PROVE  Apart(w) /\ job[w].at = "claimed"
    BY <2>3, DoneApart, GoApart DEF Winning, Settle
  <2>4. CASE SettleUnexpectedCancel(w) \/ SettleCancelFailed(w)
             \/ SettleDoneDuringStop(w) \/ SettleLoadHeld(w) \/ FailClose(w)
    BY <2>3, <2>4, ApartCalm DEF SettleUnexpectedCancel, SettleCancelFailed,
       SettleDoneDuringStop, SettleLoadHeld, FailClose
  <2>5. CASE SettleStopped(w)
    BY <2>3, <2>5, ApartCalm DEF SettleStopped
  <2>6. CASE SettleFailed(w)
    BY <2>3, <2>6, ApartCalm DEF SettleFailed
  <2>7. CASE SettleAdvance(w)
    <3>1. Apart(w) /\ job[w].at = "claimed"
      BY <2>3, <2>7, DoneApart, GoApart DEF SettleAdvance, Winning
    <3> QED
      BY <2>7, <3>1, ApartCalm DEF SettleAdvance
  <2> QED
    BY <1>2, <2>1, <2>2, <2>4, <2>5, <2>6, <2>7 DEF Advance
<1>3. CASE Dispatch(w) \/ ArmFail(w) \/ SendLost(w)
  <2>1. CASE DispatchNext(w)
    BY <2>1, BeginApart, ApartCalm DEF DispatchNext
  <2>2. CASE GateHold(w) \/ GatePass(w) \/ DispatchClaim(w)
    <3>1. ASSUME GateHold(w) \/ GatePass(w)
          PROVE  Apart(w)
      BY <3>1, DoneApart, GoApart DEF GateHold, GatePass
    <3>2. ASSUME DispatchClaim(w)
          PROVE  Apart(w)
      <4>1. \/ Finish(w)
            \/ job' = [job EXCEPT ![w].at = "send",
                                  ![w].cmd = CommandOf(SetStatus(orch, "dispatching"))]
        BY <3>2 DEF DispatchClaim
      <4>2. "send" # "start"
        OBVIOUS
      <4> QED
        BY <4>1, <4>2, DoneApart, GoApart
    <3>3. Apart(w)
      BY <2>2, <3>1, <3>2
    <3> QED
      BY <2>2, <3>3, ApartCalm DEF GateHold, GatePass, DispatchClaim
  <2>3. CASE Send(w) \/ SendLost(w) \/ FinalizeDispatch(w)
             \/ HoldUnstopped(w) \/ ArmFail(w)
    <3>1. Apart(w)
      BY <2>3, DoneApart, GoApart DEF Send, SendLost, FinalizeDispatch, HoldUnstopped, ArmFail
    <3> QED
      BY <2>3, <3>1, ApartCalm
         DEF Send, SendLost, FinalizeDispatch, HoldUnstopped, ArmFail
  <2> QED
    BY <1>3, <2>1, <2>2, <2>3 DEF Dispatch
<1>4. CASE Stop(w) \/ CancelLost(w) \/ SendEstop(w) \/ RetryHold(w) \/ RetryPass(w)
  <2>1. \A a \in DOMAIN Cancelling : a \notin {"idle", "start"} /\ Cancelling[a] # "start"
    BY DEF Cancelling
  <2>2. CASE SendCancel(w) \/ CancelAnswer(w) \/ CancelLost(w)
    <3>1. Apart(w)
      BY <2>1, <2>2, DoneApart, GoApart DEF SendCancel, CancelAnswer, CancelLost
    <3> QED
      BY <2>1, <2>2, <3>1, ApartCalm DEF SendCancel, CancelAnswer, CancelLost
  <2>3. CASE HoldUnconfirmed(w) \/ ManualStop(w)
    <3>1. Apart(w)
      BY <2>3, DoneApart, GoApart DEF HoldUnconfirmed, ManualStop
    <3> QED
      BY <2>3, <3>1, ApartCalm DEF HoldUnconfirmed, ManualStop
  <2>4. CASE SendEstop(w) \/ RetryHold(w) \/ RetryPass(w)
    <3>1. Apart(w)
      BY <2>4, DoneApart, GoApart DEF SendEstop, RetryHold, RetryPass
    <3> QED
      BY <2>4, <3>1, ApartCalm DEF SendEstop, RetryHold, RetryPass
  <2> QED
    BY <1>4, <2>2, <2>3, <2>4 DEF Stop
<1> QED
  BY <1>1, <1>2, <1>3, <1>4 DEF Continue, Break

\* A thread that looks at an observation does not start the order.
LEMMA ObserveCalm ==
    ASSUME TypeInv, StartInv, NEW w \in Worker, NEW c, NEW e,
           IF Observable(c, CallbackStatuses(c)) \/ Observable(c, PollStatuses)
           THEN Observe(w, c, e) ELSE UNCHANGED job,
           SameTask, UNCHANGED orch
    PROVE  Calm
<1>1. CASE UNCHANGED job
  BY <1>1 DEF Calm, StartInv, SameTask
<1>2. CASE ~UNCHANGED job
  <2> DEFINE j == [NoJob EXCEPT !.at = "claim", !.cmd = c, !.ev = e,
                                !.stopping = (orch.phase = "CANCEL_REQUESTED"),
                                !.stop = orch.stop]
  <2>1. j.at = "claim" /\ task = "RUNNING" /\ job' = [job EXCEPT ![w] = j]
    BY <1>2, NoJobTyped DEF Observable, Observe, Job
  <2>2. Apart(w)
    BY <2>1, JobApart
  <2> QED
    BY <2>1, <2>2, ApartCalm
<1> QED
  BY <1>1, <1>2

\* Requests, the poller, Nav, and the crash of Main.
LEMMA RestCalm ==
    ASSUME TypeInv, StartInv,
           \/ \E w \in Worker : Request(w)
           \/ PollOnce
           \/ \E c \in Command : NavStep(c) \/ NavGateTimeout(c)
           \/ OperatorClearEstop \/ Crash \/ Restart \/ UNCHANGED vars
    PROVE  Calm /\ UNCHANGED <<task, applied>>
<1>1. ASSUME NEW w \in Worker, Request(w)
      PROVE  Calm /\ UNCHANGED <<task, applied>>
  <2>1. CASE \E m \in mail : Callback(w, m)
    <3>1. PICK m \in mail : Callback(w, m)
      BY <2>1
    <3>2. UNCHANGED orch /\ SameTask
      BY <3>1 DEF Callback
    <3>3. CASE Observable(m.cmd, CallbackStatuses(m.cmd))
      BY <3>1, <3>2, <3>3, ObserveCalm DEF Callback, SameTask
    <3>4. CASE ~Observable(m.cmd, CallbackStatuses(m.cmd))
      BY <3>1, <3>2, <3>4 DEF Callback, Calm, StartInv, SameTask
    <3> QED
      BY <3>3, <3>4
  <2>2. CASE RequestStop(w)
    <3>1. Apart(w)
      BY <2>2, DoneApart, GoApart
         DEF RequestStop, StopAgain, StopWithoutCommand, StopCommand
    <3> QED
      BY <2>2, <3>1, ApartCalm DEF RequestStop, SameTask
  <2>3. CASE SafetyHold(w)
    <3>1. Apart(w)
      BY <2>3, DoneApart, GoApart DEF SafetyHold
    <3> QED
      BY <2>3, <3>1, ApartCalm DEF SafetyHold, SameTask
  <2>4. CASE BeginRetry(w)
    <3>1. Apart(w)
      BY <2>4, DoneApart, GoApart DEF BeginRetry
    <3>2. task # "ASSIGNED"
      BY <2>4, NewOrchTyped DEF BeginRetry, InHold, StartInv, NoOrch, NewOrch
    <3> QED
      BY <2>4, <3>1, <3>2 DEF BeginRetry, SameTask, Apart, Calm
  <2> QED
    BY <1>1, <2>1, <2>2, <2>3, <2>4 DEF Request
<1>2. CASE PollOnce
  <2>1. CASE PollDispatch
    BY <2>1, BeginApart, ApartCalm, OrchestratorAssumption
       DEF PollDispatch, SameTask
  <2>2. CASE \E c \in Command : Poll(c)
    BY <2>2, ObserveCalm, OrchestratorAssumption DEF Poll, SameTask
  <2> QED
    BY <1>2, <2>1, <2>2 DEF PollOnce
<1>3. CASE \/ \E c \in Command : NavStep(c) \/ NavGateTimeout(c)
           \/ OperatorClearEstop
  BY <1>3 DEF NavStep, NavComplete, NavEnd, NavCancelEnd, NavGateTimeout,
              OperatorClearEstop, mainVars, StartInv, Calm
<1>4. CASE Crash
  BY <1>4 DEF Crash, NoJob, Calm, SameTask
<1>5. CASE Restart
  BY <1>5 DEF Restart, MustReconcile, StartInv, Calm, SameTask
<1>6. CASE UNCHANGED vars
  BY <1>6 DEF vars, StartInv, Calm
<1> QED
  BY <1>1, <1>2, <1>3, <1>4, <1>5, <1>6

\* Starts stay alone.
LEMMA NextStarts == TypeInv /\ StartInv /\ OneStart /\ [Next]_vars => StartInv'
<1> SUFFICES ASSUME TypeInv, StartInv, OneStart, [Next]_vars PROVE StartInv'
  OBVIOUS
<1>1. job \in [Worker -> Job]
  BY DEF TypeInv, JobsOK
<1>2. ASSUME Calm PROVE StartInv'
  BY <1>2 DEF Calm, StartInv
<1>3. ASSUME NEW w \in Worker, BeginStart(w) PROVE StartInv'
  BY <1>1, <1>3 DEF BeginStart, Idle, Goto, SameTask, OneStart, StartInv
<1>4. ASSUME NEW w \in Worker, StartTask(w) PROVE StartInv'
  BY <1>1, <1>4 DEF StartTask, Doing, NoJob, StartInv
<1> QED
  BY <1>2, <1>3, <1>4, WorkCalm, RestCalm DEF Next

\* An order whose goods were booked does not run any more.
AppliedInv ==
    /\ applied \in {0, 1}
    /\ task \in {"ASSIGNED", "RUNNING"} => applied = 0

\* All that a step may do to the task row.
TaskMove ==
    \/ UNCHANGED <<task, applied>>
    \/ task = "ASSIGNED" /\ task' = "RUNNING" /\ UNCHANGED applied
    \/ Deliver
    \/ Release("FAILED")
    \/ Release("CANCELLED")

\* A finalize completes or releases the order, or leaves it alone.
LEMMA AdvanceMovesTask ==
    ASSUME NEW w \in Worker, Advance(w)
    PROVE  TaskMove
<1>1. CASE Claim(w) \/ LoseClaim(w) \/ SettleUnexpectedCancel(w)
             \/ SettleCancelFailed(w) \/ SettleDoneDuringStop(w)
             \/ SettleLoadHeld(w)
  BY <1>1 DEF Claim, LoseClaim, SettleUnexpectedCancel, SettleCancelFailed,
              SettleDoneDuringStop, SettleLoadHeld, SameTask, TaskMove
<1>2. CASE SettleStopped(w)
  BY <1>2 DEF SettleStopped, SameTask, TaskMove
<1>3. CASE SettleFailed(w)
  BY <1>3 DEF SettleFailed, SameTask, TaskMove
<1>4. CASE SettleAdvance(w)
  BY <1>4 DEF SettleAdvance, SameTask, TaskMove
<1> QED
  BY <1>1, <1>2, <1>3, <1>4 DEF Advance

\* Every other step leaves it alone, but the start.
LEMMA NextMovesTask == TypeInv /\ StartInv /\ [Next]_vars => TaskMove
<1> SUFFICES ASSUME TypeInv, StartInv, [Next]_vars PROVE TaskMove
  OBVIOUS
<1>1. ASSUME NEW w \in Worker, BeginStart(w) \/ Continue(w) \/ Break(w)
      PROVE  TaskMove
  <2>1. CASE BeginStart(w) \/ StartTask(w) \/ RefuseStart(w)
    BY <2>1 DEF BeginStart, StartTask, RefuseStart, Doing, StartInv, SameTask,
                TaskMove
  <2>2. CASE Dispatch(w)
    BY <2>2 DEF Dispatch, DispatchNext, GateHold, GatePass, DispatchClaim, Send,
                FinalizeDispatch, HoldUnstopped, SameTask, TaskMove
  <2>3. CASE Stop(w) \/ SendEstop(w) \/ RetryHold(w) \/ RetryPass(w)
    BY <2>3 DEF Stop, SendCancel, CancelAnswer, HoldUnconfirmed, ManualStop,
                SendEstop, RetryHold, RetryPass, SameTask, TaskMove
  <2>4. CASE Break(w)
    BY <2>4 DEF Break, ArmFail, SendLost, CancelLost, FailClose, SameTask,
                TaskMove
  <2> QED
    BY <1>1, <2>1, <2>2, <2>3, <2>4, AdvanceMovesTask DEF Continue
<1> QED
  BY <1>1, RestCalm DEF Next, TaskMove

\* As long as two starts of an order do not overlap, complete_task moves the
\* inventory at most once in its life: also when transfers are refused and
\* retried, and late writers bring the record of a finished order back to
\* life.  The run stays away from that by approving every transfer
\* (AppliedOnce); what overlapping starts do is in the README.
THEOREM InventoryMovedOnce == OneStart => (Spec => [](applied \in {0, 1}))
<1> SUFFICES ASSUME OneStart PROVE Spec => [](applied \in {0, 1})
  OBVIOUS
<1>1. Init => StartInv /\ AppliedInv
  BY DEF Init, StartInv, NoJob, AppliedInv
<1>2. TypeInv /\ StartInv /\ AppliedInv /\ [Next]_vars => AppliedInv'
  BY NextMovesTask DEF AppliedInv, TaskMove, Deliver, Release
<1>3. AppliedInv => applied \in {0, 1}
  BY DEF AppliedInv
<1>4. TypeInv /\ StartInv /\ [Next]_vars => TypeInv' /\ StartInv'
  BY NextTyped, NextStarts
<1> QED
  BY <1>1, <1>2, <1>3, <1>4, InitTyped, PTL DEF Spec
=============================================================================
