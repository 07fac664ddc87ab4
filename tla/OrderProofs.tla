---------------------------- MODULE OrderProofs ----------------------------
(***************************************************************************)
(* The order in which a mission handles its pallet, for any scenario, any  *)
(* number of threads and any faults: no command runs before Nav completed  *)
(* the transfers of all earlier steps, and only delivered goods are booked.*)
(*                                                                         *)
(* The proof says what the record, every thread, every command that runs   *)
(* and every callback on its way know of Nav's registry.  The registry is  *)
(* a parameter of these predicates: what is known of it stays true, since  *)
(* it only moves on (Later).                                               *)
(***************************************************************************)
EXTENDS OrchestratorProofs

Transfers == {"load", "unload"}

\* Nav completed every transfer before step k.
Carried(k, n) ==
    \A i \in Step : i < k /\ Kind[i] \in Transfers => n[<<i, 0>>] = "DONE"

DeliveredIn(n) == \A i \in Step : Kind[i] = "unload" => n[<<i, 0>>] = "DONE"

\* A command that ran to a state from which the cursor may pass its step,
\* and one that did not do its work.
Over == {"DONE", "ARRIVED", "ABORTED", "CANCEL_REQUESTED", "CANCELED",
         "STOP_UNCONFIRMED"}
Bad == {"FAILED", "ABORTED", "CANCELED", "STOP_UNCONFIRMED"}

\* What an event tells for good of its command.
EventKnows(c, e, n) ==
    /\ e = "DONE" => n[c] = "DONE"
    /\ e = "ARRIVED" => n[c] \in Over
    /\ e \in Event \ {"DONE", "ARRIVED"} => n[c] \in Bad

\* A load that is held for its evidence is on the forks.
LoadGate(o, n) ==
    InHold(o) /\ o.rec.why = "evidence_gate" /\ o.idx \in Step
        /\ Kind[o.idx] = "load" => n[<<o.idx, 0>>] = "DONE"

\* A retry repeats the approach of an unload, never a transfer; the rest of
\* the plan is dropped, and the business called complete, after the delivery.
RecordKnows(o, n) ==
    /\ Carried(o.idx, n)
    /\ \A i \in Step : Kind[i] \in Transfers => o.gen[i] = 0
    /\ o.biz \/ o.stop.biz \/ o.len # N => DeliveredIn(n)
    /\ LoadGate(o, n)

JobKnows(j, n) ==
    /\ RecordKnows(j.snap, n)
    /\ j.stop.biz => DeliveredIn(n)
    /\ j.cmd \in Command => Carried(j.cmd[1], n)
    /\ j.at \in {"claim", "claimed"} =>
          j.cmd \in Command /\ EventKnows(j.cmd, j.ev, n)
    /\ j.at \in {"cancel", "recancel"} => j.cmd \in Command
    /\ j.at = "claimed" => InPlan(j.snap) /\ j.cmd = CommandOf(j.snap)
    /\ j.at = "gate" => Kind[j.snap.idx] = "unload"
    /\ j.at = "regate" /\ Kind[j.snap.idx] = "load"
         => n[<<j.snap.idx, 0>>] = "DONE"

OrderKnows ==
    /\ RecordKnows(orch, nav)
    /\ \A w \in Worker : JobKnows(job[w], nav)
    /\ \A c \in Active : Carried(c[1], nav)
    /\ \A m \in mail : EventKnows(m.cmd, m.ev, nav)
    /\ task = "DONE" => DeliveredIn(nav)

OrderInv == TypeInv /\ OrderKnows

-----------------------------------------------------------------------------
(* How a step changes what they know.                                      *)

\* Nav's registry only moves on.
Later(n, m) ==
    \A c \in Command :
        /\ n[c] = "DONE" => m[c] = "DONE"
        /\ n[c] \in Over => m[c] \in Over
        /\ n[c] \in Bad => m[c] \in Bad
        /\ n[c] # "NONE" => m[c] # "NONE"

\* p is the record o with another phase, reason, claim, approval or status of
\* its current step.
Marks(o, p) ==
    /\ p.idx = o.idx /\ p.gen = o.gen /\ p.len = o.len
    /\ p.biz = o.biz /\ p.stop = o.stop
    /\ \A i \in Step : i # o.idx => p.st[i] = o.st[i]
    /\ p.phase = "CANCEL_REQUESTED" => o.phase = "CANCEL_REQUESTED"
    /\ p.appr \in {o.appr, "pass"}

\* ... and is not held for its evidence where o was not.
NoNewGate(o, p) ==
    p.rec.why = "evidence_gate" =>
        o.rec.why = "evidence_gate" /\ (InHold(p) => InHold(o))

\* Where a thread needs no memory of a record or an observation.
PlainAt == At \ {"claim", "claimed", "gate", "regate"}

PlainJob(w) ==
    \/ UNCHANGED job
    \/ Finish(w)
    \/ \E a \in PlainAt \ {"cancel", "recancel"} : Goto(w, a)
    \/ /\ InPlan(orch')
       /\ \E a \in PlainAt : \E j \in {NoJob, job[w]} :
            job' = [job EXCEPT ![w] =
                       [j EXCEPT !.at = a, !.cmd = CommandOf(orch')]]

\* Nav registers or reserves what a thread sends, ends what runs, and says so.
NavMove ==
    /\ Later(nav, nav')
    /\ \A c \in Command :
          /\ nav[c] = "NONE" /\ nav'[c] # "NONE" => \E w \in Worker : job[w].cmd = c
          /\ nav'[c] = "DONE" => nav[c] \in {"DONE", "ACTIVE"}
    /\ \A m \in mail' : m \in mail \/ EventKnows(m.cmd, m.ev, nav')
    /\ loaded' # loaded => \E c \in Active : Kind[c[1]] \in Transfers

\* A step that decides nothing about the mission.
Quiet(w) ==
    /\ Marks(orch, orch') /\ NoNewGate(orch, orch')
    /\ orch'.phase \in {orch.phase, "AWAITING_OPERATOR"}
    /\ PlainJob(w)
    /\ NavMove
    /\ SameTask

\* A record keeps its mission under a hold, a status or another phase.
LEMMA MarksHeld ==
    ASSUME NEW o \in Orch, NEW why, NEW c
    PROVE  /\ Marks(o, Held(o, why, c))
           /\ Held(o, why, c).phase = "AWAITING_OPERATOR"
           /\ Held(o, why, c).rec.why = why
           /\ Held(o, why, c).appr = o.appr
  BY DEF Held, Orch, Marks

LEMMA MarksStatus ==
    ASSUME NEW o \in Orch, NEW s
    PROVE  /\ Marks(o, SetStatus(o, s))
           /\ SetStatus(o, s).phase = o.phase
           /\ SetStatus(o, s).rec = o.rec
           /\ SetStatus(o, s).appr = o.appr
  BY DEF SetStatus, Orch, Marks

LEMMA MarksPhase ==
    ASSUME NEW o \in Orch, NEW ph, ph # "CANCEL_REQUESTED"
    PROVE  /\ Marks(o, [o EXCEPT !.phase = ph])
           /\ [o EXCEPT !.phase = ph].phase = ph
           /\ [o EXCEPT !.phase = ph].rec = o.rec
           /\ [o EXCEPT !.phase = ph].appr = o.appr
  BY DEF Orch, Marks

LEMMA MarksTrans ==
    ASSUME NEW o, NEW p, NEW q, Marks(o, p), Marks(p, q)
    PROVE  Marks(o, q)
  BY DEF Marks

LEMMA MarksSelf ==
    ASSUME NEW o
    PROVE  Marks(o, o) /\ NoNewGate(o, o)
  BY DEF Marks, NoNewGate

-----------------------------------------------------------------------------
(* Nav only moves on.                                                      *)

\* Nothing happens on the floor.
LEMMA SameWorldMoves ==
    ASSUME SameWorld
    PROVE  NavMove
  BY DEF SameWorld, navVars, NavMove, Later

\* A request of a thread registers or reserves its command, or nothing.
LEMMA RequestMoves ==
    ASSUME TypeInv, NEW w \in Worker,
           \/ Accept(job[w].cmd) \/ Refuse(job[w].cmd)
           \/ RefuseNotReady(job[w].cmd) \/ Cancel(job[w].cmd),
           loaded' # loaded => \E c \in Active : Kind[c[1]] \in Transfers
    PROVE  NavMove
<1> DEFINE c == job[w].cmd
<1>1. mail' = mail /\ nav \in [Command -> NavState]
  BY DEF Accept, Register, Duplicate, Refuse, RefuseGate, RefuseBusy,
         RefuseNotReady, Cancel, CancelUnknown, CancelSettled, CancelBegin,
         navVars, TypeInv, TypeOK, NavTypeOK
<1>2. \/ nav' = nav
      \/ nav[c] = "NONE" /\ nav' = [nav EXCEPT ![c] = "ACTIVE"]
      \/ nav[c] = "NONE" /\ nav' = [nav EXCEPT ![c] = "CANCELED"]
      \/ /\ nav[c] \in {"ACTIVE", "ARRIVED", "CANCEL_REQUESTED"}
         /\ nav' = [nav EXCEPT ![c] = "CANCEL_REQUESTED"]
  BY DEF Accept, Register, Duplicate, Refuse, RefuseGate, RefuseBusy,
         RefuseNotReady, Cancel, CancelUnknown, CancelSettled, CancelBegin,
         navVars
<1>3. Later(nav, nav')
  BY <1>1, <1>2 DEF Later, Over, Bad
<1>4. ASSUME NEW d \in Command
      PROVE  /\ nav[d] = "NONE" /\ nav'[d] # "NONE" => d = c
             /\ nav'[d] = "DONE" => nav[d] \in {"DONE", "ACTIVE"}
  BY <1>1, <1>2
<1> QED
  BY <1>1, <1>3, <1>4 DEF NavMove

\* What a running command becomes, and what is told of it.
LEMMA EndMoves ==
    ASSUME TypeInv, NEW c \in Command, NEW s \in NavState, NEW e \in Event,
           \/ nav[c] = "ACTIVE"
           \/ nav[c] \in {"ARRIVED", "CANCEL_REQUESTED"} /\ s \in Over \ {"DONE"},
           s # "NONE", nav' = [nav EXCEPT ![c] = s],
           mail' = mail \/ (mail' = mail \cup {[cmd |-> c, ev |-> e]}
                             /\ EventKnows(c, e, nav')),
           loaded' # loaded => \E d \in Active : Kind[d[1]] \in Transfers
    PROVE  NavMove
<1>1. nav \in [Command -> NavState]
  BY DEF TypeInv, TypeOK, NavTypeOK
<1>2. Later(nav, nav')
  BY <1>1 DEF Later, Over, Bad
<1>3. ASSUME NEW d \in Command
      PROVE  /\ ~(nav[d] = "NONE" /\ nav'[d] # "NONE")
             /\ nav'[d] = "DONE" => nav[d] \in {"DONE", "ACTIVE"}
  BY <1>1 DEF Over
<1>4. ASSUME NEW m \in mail'
      PROVE  m \in mail \/ EventKnows(m.cmd, m.ev, nav')
  BY <1>4
<1> QED
  BY <1>2, <1>3, <1>4 DEF NavMove

\* The executor threads, the timers and the confirmations of a cancel.
LEMMA OwnMoves ==
    ASSUME TypeInv, NEW c \in Command, NavStep(c) \/ NavGateTimeout(c)
    PROVE  NavMove
<1> USE DEF NavState, Event, EventKnows, Over, Bad, Post
<1>1. nav \in [Command -> NavState]
  BY DEF TypeInv, TypeOK, NavTypeOK
<1>2. nav[c] = "ACTIVE" => c \in Active
  BY DEF Active
<1>3. CASE NavComplete(c)
  <2> DEFINE end == IF c \in Opens THEN "ARRIVED" ELSE "DONE"
  <2>1. /\ nav[c] = "ACTIVE" /\ nav' = [nav EXCEPT ![c] = end]
        /\ mail' = mail \cup {[cmd |-> c, ev |-> end]}
    BY <1>3 DEF NavComplete, Complete
  <2>2. loaded' # loaded => Kind[c[1]] \in Transfers
    BY <1>3 DEF NavComplete, Transfers
  <2>3. EventKnows(c, end, nav')
    BY <1>1, <2>1
  <2> QED
    BY <1>2, <2>1, <2>2, <2>3, EndMoves
<1>4. CASE NavEnd(c)
  <2>1. loaded' # loaded => Kind[c[1]] \in Transfers /\ nav[c] = "ACTIVE"
    BY <1>4 DEF NavEnd, Disturb, Transfers
  <2>2. CASE Fail(c)
    <3>1. /\ nav[c] = "ACTIVE" /\ nav' = [nav EXCEPT ![c] = "FAILED"]
          /\ mail' = mail \cup {[cmd |-> c, ev |-> "FAILED"]}
      BY <2>2 DEF Fail
    <3>2. EventKnows(c, "FAILED", nav')
      BY <1>1, <3>1
    <3> QED
      BY <1>2, <2>1, <3>1, <3>2, EndMoves
  <2>3. CASE AbortByEstop(c)
    <3>1. /\ nav[c] = "ACTIVE" /\ nav' = [nav EXCEPT ![c] = "ABORTED"]
          /\ mail' = mail \cup {[cmd |-> c, ev |-> "ESTOP"]}
      BY <2>3 DEF AbortByEstop
    <3>2. EventKnows(c, "ESTOP", nav')
      BY <1>1, <3>1
    <3> QED
      BY <1>2, <2>1, <3>1, <3>2, EndMoves
  <2> QED
    BY <1>4, <2>2, <2>3 DEF NavEnd
<1>5. CASE NavCancelEnd(c)
  <2>1. loaded' = loaded
    BY <1>5 DEF NavCancelEnd
  <2>2. CASE CancelConfirm(c)
    <3>1. /\ nav[c] = "CANCEL_REQUESTED" /\ nav' = [nav EXCEPT ![c] = "CANCELED"]
          /\ mail' = mail \cup {[cmd |-> c, ev |-> "CANCELLED"]}
      BY <2>2 DEF CancelConfirm
    <3>2. EventKnows(c, "CANCELLED", nav')
      BY <1>1, <3>1
    <3> QED
      BY <2>1, <3>1, <3>2, EndMoves
  <2>3. CASE CancelUnconfirmed(c)
    <3>1. /\ nav[c] = "CANCEL_REQUESTED"
          /\ nav' = [nav EXCEPT ![c] = "STOP_UNCONFIRMED"] /\ mail' = mail
      BY <2>3 DEF CancelUnconfirmed
    <3> QED
      BY <2>1, <3>1, EndMoves
  <2> QED
    BY <1>5, <2>2, <2>3 DEF NavCancelEnd
<1>6. CASE NavGateTimeout(c)
  <2>1. /\ nav[c] = "ARRIVED" /\ nav' = [nav EXCEPT ![c] = "ABORTED"]
        /\ mail' = mail \cup {[cmd |-> c, ev |-> "ABORTED"]} /\ loaded' = loaded
    BY <1>6 DEF NavGateTimeout, GateTimeout
  <2>2. EventKnows(c, "ABORTED", nav')
    BY <1>1, <2>1
  <2> QED
    BY <2>1, <2>2, EndMoves
<1> QED
  BY <1>3, <1>4, <1>5, <1>6 DEF NavStep

\* The E-stop aborts what runs; clearing it, or losing it, changes nothing.
LEMMA EstopMoves ==
    ASSUME TypeInv, TryEstop \/ OperatorClearEstop
    PROVE  NavMove
<1>1. nav \in [Command -> NavState]
  BY DEF TypeInv, TypeOK, NavTypeOK
<1>2. CASE EstopWorld
  <2>1. nav' = [c \in Command |-> IF nav[c] = "ACTIVE" THEN "ABORTED" ELSE nav[c]]
    BY <1>2 DEF EstopWorld, Estop
  <2>2. Later(nav, nav')
    BY <1>1, <2>1 DEF Later, Over, Bad
  <2>3. ASSUME NEW d \in Command
        PROVE  /\ ~(nav[d] = "NONE" /\ nav'[d] # "NONE")
               /\ nav'[d] = "DONE" => nav[d] \in {"DONE", "ACTIVE"}
    BY <1>1, <2>1
  <2>4. ASSUME NEW m \in mail', m \notin mail
        PROVE  EventKnows(m.cmd, m.ev, nav')
    <3>1. m.cmd \in Active /\ m.ev = "ESTOP"
      BY <1>2, <2>4 DEF EstopWorld, Estop
    <3>2. nav'[m.cmd] = "ABORTED"
      BY <2>1, <3>1 DEF Active
    <3> QED
      BY <3>1, <3>2 DEF EventKnows, Bad
  <2>5. loaded' # loaded => \E c \in Active : Kind[c[1]] \in Transfers
    BY <1>2 DEF EstopWorld, Transfers
  <2> QED
    BY <2>2, <2>3, <2>4, <2>5 DEF NavMove
<1>3. CASE SameWorld \/ OperatorClearEstop
  BY <1>3, SameWorldMoves
     DEF OperatorClearEstop, ClearEstop, NavMove, Later
<1> QED
  BY <1>2, <1>3 DEF TryEstop

-----------------------------------------------------------------------------
(* The steps that decide nothing about the mission.                        *)

\* Around the HTTP calls of a dispatch and of a stop.
LEMMA CallQuiet ==
    ASSUME OrderInv, NEW w \in Worker,
           Send(w) \/ SendLost(w) \/ SendCancel(w) \/ CancelAnswer(w)
             \/ CancelLost(w) \/ SendEstop(w)
    PROVE  Quiet(w)
<1>1. Marks(orch, orch') /\ NoNewGate(orch, orch') /\ orch' = orch /\ SameTask
  BY MarksSelf
     DEF Send, SendLost, SendCancel, CancelAnswer, CancelLost, SendEstop
<1>2. PlainJob(w)
  BY DEF Send, SendLost, SendCancel, CancelAnswer, CancelLost, SendEstop,
         Cancelling, PlainJob, PlainAt, At
<1>3. NavMove
  <2> USE DEF OrderInv
  <2>1. CASE Send(w)
    BY <2>1, RequestMoves DEF Send
  <2>2. CASE SendLost(w)
    BY <2>2, RequestMoves, SameWorldMoves DEF SendLost, SameWorld
  <2>3. CASE SendCancel(w)
    <3>1. ASSUME loaded' # loaded
          PROVE  \E c \in Active : Kind[c[1]] \in Transfers
      <4>1. nav[job[w].cmd] = "ACTIVE" /\ Kind[job[w].cmd[1]] \in Transfers
        BY <2>3, <3>1 DEF SendCancel, Disturb, Transfers
      <4>2. job[w].cmd \in Command
        BY <2>3 DEF OrderInv, OrderKnows, JobKnows, SendCancel, Doing
      <4> QED
        BY <4>1, <4>2 DEF Active
    <3> QED
      BY <2>3, <3>1, RequestMoves DEF SendCancel
  <2>4. CASE CancelAnswer(w) \/ CancelLost(w)
    BY <2>4, SameWorldMoves DEF CancelAnswer, CancelLost
  <2>5. CASE SendEstop(w)
    BY <2>5, EstopMoves DEF SendEstop
  <2> QED
    BY <2>1, <2>2, <2>3, <2>4, <2>5
<1> QED
  BY <1>1, <1>2, <1>3 DEF Quiet

\* A hold that is not for the evidence, and whatever the thread does next.
LEMMA HoldQuiet ==
    ASSUME TypeInv, NEW w \in Worker, NEW why \in Reason \ {"evidence_gate"},
           NEW c \in Command \cup {NoCommand},
           orch' = Held(orch, why, c), PlainJob(w), NavMove, SameTask
    PROVE  Quiet(w)
  BY MarksHeld DEF Quiet, NoNewGate, TypeInv, TypeOK

\* A thread that leaves the record alone.
LEMMA IdleQuiet ==
    ASSUME NEW w \in Worker, UNCHANGED orch, PlainJob(w), NavMove, SameTask
    PROVE  Quiet(w)
  BY MarksSelf DEF Quiet

\* The steps that mark the record without deciding about the mission.
LEMMA MarkQuiet ==
    ASSUME TypeInv, NEW w \in Worker,
           \/ LoseClaim(w) \/ FailClose(w) \/ DispatchClaim(w)
           \/ FinalizeDispatch(w) \/ HoldUnstopped(w) \/ ArmFail(w)
           \/ HoldUnconfirmed(w) \/ ManualStop(w) \/ SafetyHold(w)
    PROVE  Quiet(w)
<1>1. orch \in Orch /\ job[w].cmd \in Command \cup {NoCommand}
  BY DEF TypeInv, TypeOK, JobsOK, Job
<1>2. NavMove
  BY SameWorldMoves
     DEF LoseClaim, FailClose, Settle, DispatchClaim, FinalizeDispatch,
         HoldUnstopped, ArmFail, HoldUnconfirmed, ManualStop, SafetyHold
<1>3. SameTask
  BY DEF LoseClaim, FailClose, DispatchClaim, FinalizeDispatch,
         HoldUnstopped, ArmFail, HoldUnconfirmed, ManualStop, SafetyHold
<1>4. ASSUME Finish(w) \/ (\E a \in {"estop", "manual"} : Goto(w, a))
      PROVE  PlainJob(w)
  BY <1>4 DEF PlainJob, PlainAt, At
<1>5. CASE LoseClaim(w)
  BY <1>2, <1>3, <1>4, <1>5, IdleQuiet DEF LoseClaim
<1>6. CASE FailClose(w)
  BY <1>1, <1>2, <1>3, <1>4, <1>6, HoldQuiet DEF FailClose, Settle, Reason
<1>7. CASE DispatchClaim(w)
  <2>1. CASE Finish(w) /\ UNCHANGED orch
    BY <1>2, <1>3, <1>4, <2>1, IdleQuiet
  <2>2. CASE /\ InPlan(orch)
             /\ orch' = SetStatus(orch, "dispatching")
             /\ job' = [job EXCEPT ![w].at = "send", ![w].cmd = CommandOf(orch')]
    <3>1. InPlan(orch')
      BY <1>1, <2>2, SetStatusTyped DEF InPlan, StepStatus
    <3>2. job' = [job EXCEPT ![w] = [job[w] EXCEPT !.at = "send",
                                                   !.cmd = CommandOf(orch')]]
      BY <2>2 DEF TypeInv, JobsOK, Job
    <3>3. PlainJob(w)
      BY <3>1, <3>2 DEF PlainJob, PlainAt, At
    <3>4. /\ Marks(orch, orch') /\ NoNewGate(orch, orch')
          /\ orch'.phase = orch.phase
      BY <1>1, <2>2, MarksStatus DEF NoNewGate, InHold
    <3> QED
      BY <1>2, <1>3, <3>3, <3>4 DEF Quiet
  <2> QED
    BY <1>7, <2>1, <2>2 DEF DispatchClaim
<1>8. CASE FinalizeDispatch(w)
  <2>1. CASE Finish(w) /\ UNCHANGED orch
    BY <1>2, <1>3, <1>4, <2>1, IdleQuiet
  <2>2. CASE /\ orch' = SetStatus(orch, "dispatched")
             /\ InPlan(orch) /\ CommandOf(orch) = job[w].cmd
             /\ Goto(w, "recancel") \/ Finish(w)
    <3>1. /\ Marks(orch, orch') /\ NoNewGate(orch, orch')
          /\ orch'.phase = orch.phase
      BY <1>1, <2>2, MarksStatus DEF NoNewGate, InHold
    <3>2. CASE Goto(w, "recancel")
      <4>1. InPlan(orch') /\ CommandOf(orch') = job[w].cmd
        BY <1>1, <2>2, <3>1 DEF Marks, InPlan, CommandOf
      <4>2. job' = [job EXCEPT ![w] = [job[w] EXCEPT !.at = "recancel",
                                                     !.cmd = CommandOf(orch')]]
        BY <3>2, <4>1 DEF Goto, TypeInv, JobsOK, Job
      <4>3. PlainJob(w)
        BY <4>1, <4>2 DEF PlainJob, PlainAt, At
      <4> QED
        BY <1>2, <1>3, <3>1, <4>3 DEF Quiet
    <3> QED
      BY <1>2, <1>3, <1>4, <2>2, <3>1, <3>2 DEF Quiet
  <2> QED
    BY <1>8, <2>1, <2>2 DEF FinalizeDispatch
<1>9. CASE HoldUnstopped(w)
  <2>1. PlainJob(w)
    BY <1>4, <1>9 DEF HoldUnstopped
  <2> QED
    BY <1>1, <1>2, <1>3, <1>9, <2>1, HoldQuiet, IdleQuiet
       DEF HoldUnstopped, Reason
<1>10. CASE ArmFail(w)
  BY <1>1, <1>2, <1>3, <1>4, <1>10, HoldQuiet DEF ArmFail, Reason
<1>11. CASE HoldUnconfirmed(w)
  <2>1. PlainJob(w)
    BY <1>4, <1>11 DEF HoldUnconfirmed
  <2> QED
    BY <1>1, <1>2, <1>3, <1>11, <2>1, HoldQuiet, IdleQuiet
       DEF HoldUnconfirmed, Reason
<1>12. CASE ManualStop(w)
  <2>1. PlainJob(w)
    BY <1>4, <1>12 DEF ManualStop
  <2>2. CASE UNCHANGED orch
    BY <1>2, <1>3, <2>1, <2>2, IdleQuiet
  <2>3. CASE /\ orch.rec.why = "operator_safe_stop_no_active_command"
             /\ orch' = [orch EXCEPT !.rec.conf = TRUE]
    <3>1. /\ Marks(orch, orch') /\ NoNewGate(orch, orch')
          /\ orch'.phase = orch.phase
      BY <1>1, <2>3 DEF Marks, NoNewGate, Orch, Recovery
    <3> QED
      BY <1>2, <1>3, <2>1, <3>1 DEF Quiet
  <2> QED
    BY <1>12, <2>2, <2>3 DEF ManualStop
<1>13. CASE SafetyHold(w)
  BY <1>1, <1>2, <1>3, <1>4, <1>13, HoldQuiet DEF SafetyHold, Reason
<1> QED
  BY <1>5, <1>6, <1>7, <1>8, <1>9, <1>10, <1>11, <1>12, <1>13

\* A stop request, when it does not change the record's stop.
LEMMA StopQuiet ==
    ASSUME TypeInv, NEW w \in Worker, RequestStop(w)
    PROVE  \/ Quiet(w)
           \/ CommandIsActive /\ StopCommand(w) /\ orch' # orch
<1>1. NavMove /\ SameTask
  BY SameWorldMoves DEF RequestStop
<1>2. CASE StopAgain(w)
  <2>1. PlainJob(w)
    BY <1>2 DEF StopAgain, PlainJob, PlainAt, At
  <2> QED
    BY <1>1, <1>2, <2>1, IdleQuiet DEF StopAgain
<1>3. CASE StopWithoutCommand(w)
  <2>1. PlainJob(w)
    BY <1>3 DEF StopWithoutCommand, PlainJob, PlainAt, At
  <2> QED
    BY <1>1, <1>3, <2>1, HoldQuiet DEF StopWithoutCommand, Reason
<1>4. CASE CommandIsActive /\ StopCommand(w) /\ orch' = orch
  <2>1. PlainJob(w)
    BY <1>4 DEF CommandIsActive, StopCommand, PlainJob, PlainAt, At
  <2> QED
    BY <1>1, <1>4, <2>1, IdleQuiet
<1> QED
  BY <1>2, <1>3, <1>4 DEF RequestStop

\* Nav, the person at the robot, and the restart of Main.
LEMMA WorldQuiet ==
    ASSUME TypeInv, NEW w \in Worker,
           \/ \E c \in Command : NavStep(c) \/ NavGateTimeout(c)
           \/ OperatorClearEstop
           \/ Restart
           \/ UNCHANGED vars
    PROVE  Quiet(w)
<1>1. UNCHANGED job => PlainJob(w)
  BY DEF PlainJob
<1>2. CASE \/ \E c \in Command : NavStep(c) \/ NavGateTimeout(c)
           \/ OperatorClearEstop
  <2>1. UNCHANGED mainVars
    BY <1>2 DEF NavStep, NavComplete, NavEnd, NavCancelEnd, NavGateTimeout,
                OperatorClearEstop
  <2>2. NavMove
    BY <1>2, OwnMoves, EstopMoves
  <2> QED
    BY <1>1, <2>1, <2>2, IdleQuiet DEF mainVars, SameTask
<1>3. CASE Restart
  <2>1. NavMove
    BY <1>3, EstopMoves, SameWorldMoves DEF Restart
  <2>2. \/ UNCHANGED orch
        \/ orch' = Held(orch, "safety", NoCommand)
    BY <1>3 DEF Restart
  <2> QED
    BY <1>1, <1>3, <2>1, <2>2, IdleQuiet, HoldQuiet DEF Restart, Reason
<1>4. CASE UNCHANGED vars
  <2>1. SameWorld
    BY <1>4 DEF vars, SameWorld, navVars
  <2> QED
    BY <1>1, <1>4, <2>1, SameWorldMoves, IdleQuiet DEF vars, SameTask
<1> QED
  BY <1>2, <1>3, <1>4

-----------------------------------------------------------------------------
(* What is known stays true.                                               *)

\* Every step has its command of the first generation.
LEMMA FirstCommand == \A i \in Step : <<i, 0>> \in Command
  BY OrchestratorAssumption DEF Gen

\* Nothing is forgotten when Nav moves on.
LEMMA CarriedLater ==
    ASSUME NEW n, NEW m, Later(n, m)
    PROVE  /\ \A k : Carried(k, n) => Carried(k, m)
           /\ DeliveredIn(n) => DeliveredIn(m)
  BY FirstCommand DEF Later, Carried, DeliveredIn

LEMMA EventLater ==
    ASSUME NEW n, NEW m, Later(n, m), NEW c \in Command, NEW e,
           EventKnows(c, e, n)
    PROVE  EventKnows(c, e, m)
  BY DEF Later, EventKnows

LEMMA RecordLater ==
    ASSUME NEW n, NEW m, Later(n, m), NEW o, RecordKnows(o, n)
    PROVE  RecordKnows(o, m)
<1>1. LoadGate(o, m)
  BY FirstCommand DEF Later, RecordKnows, LoadGate
<1> QED
  BY <1>1, CarriedLater DEF RecordKnows

LEMMA JobLater ==
    ASSUME NEW n, NEW m, Later(n, m), NEW j, SnapOK(j), j.snap \in Orch,
           JobKnows(j, n)
    PROVE  JobKnows(j, m)
<1>1. RecordKnows(j.snap, m)
  BY RecordLater DEF JobKnows
<1>2. j.at \in {"claim", "claimed"} => EventKnows(j.cmd, j.ev, m)
  BY EventLater DEF JobKnows
<1>3. /\ j.stop.biz => DeliveredIn(m)
      /\ j.cmd \in Command => Carried(j.cmd[1], m)
  BY CarriedLater DEF JobKnows
<1>4. j.at = "regate" => j.snap.idx \in Step
  BY InPlanStep DEF SnapOK
<1>5. j.at = "regate" /\ Kind[j.snap.idx] = "load" => m[<<j.snap.idx, 0>>] = "DONE"
  BY <1>4, FirstCommand DEF JobKnows, Later
<1> QED
  BY <1>1, <1>2, <1>3, <1>5 DEF JobKnows

\* A mark leaves a record's knowledge alone.
LEMMA MarksKnow ==
    ASSUME NEW n, NEW o, NEW p, RecordKnows(o, n), Marks(o, p),
           NoNewGate(o, p) \/ LoadGate(p, n)
    PROVE  RecordKnows(p, n)
<1>1. LoadGate(p, n)
  BY DEF RecordKnows, LoadGate, NoNewGate, Marks
<1> QED
  BY <1>1 DEF RecordKnows, Marks

\* A fresh record and an idle thread know nothing.
LEMMA FreshKnows ==
    ASSUME NEW n
    PROVE  /\ RecordKnows(NewOrch, n) /\ RecordKnows(NoOrch, n)
           /\ JobKnows(NoJob, n)
<1>1. Carried(1, n)
  BY OrchestratorAssumption DEF Carried, Step
<1>2. /\ NewOrch.idx = 1 /\ NewOrch.len = N /\ ~NewOrch.biz /\ ~NewOrch.stop.biz
      /\ \A i \in Step : NewOrch.gen[i] = 0
      /\ NewOrch.phase = "RUNNING"
  BY DEF NewOrch, NoStop
<1>3. RecordKnows(NewOrch, n)
  BY <1>1, <1>2 DEF RecordKnows, LoadGate, InHold
<1>4. /\ NoOrch.idx = 1 /\ NoOrch.len = N /\ ~NoOrch.biz /\ ~NoOrch.stop.biz
      /\ \A i \in Step : NoOrch.gen[i] = 0
      /\ NoOrch.phase = "NONE"
  BY <1>2 DEF NoOrch, NewOrch
<1>5. RecordKnows(NoOrch, n)
  BY <1>1, <1>4 DEF RecordKnows, LoadGate, InHold
<1>6. JobKnows(NoJob, n)
  BY <1>5, NavAssumption DEF JobKnows, NoJob, NoStop
<1> QED
  BY <1>3, <1>5, <1>6

\* A thread that sets out with a command knows what its step rests on.
LEMMA SetOutKnows ==
    ASSUME NEW n, NEW j \in Job, JobKnows(j, n), NEW a \in PlainAt,
           NEW c \in Command, Carried(c[1], n)
    PROVE  JobKnows([j EXCEPT !.at = a, !.cmd = c], n)
  BY DEF JobKnows, Job, PlainAt

LEMMA GotoKnows ==
    ASSUME NEW n, NEW j \in Job, JobKnows(j, n),
           NEW a \in PlainAt \ {"cancel", "recancel"}
    PROVE  JobKnows([j EXCEPT !.at = a], n)
  BY DEF JobKnows, Job, PlainAt

\* The current command rests on what its record knows.
LEMMA CurrentKnows ==
    ASSUME NEW n, NEW o, RecordKnows(o, n)
    PROVE  Carried(CommandOf(o)[1], n)
  BY DEF RecordKnows, CommandOf

\* A plain job knows what its thread knew.
LEMMA PlainKnows ==
    ASSUME OrderInv, TypeInv', NEW w \in Worker, PlainJob(w), NEW n,
           RecordKnows(orch', n), \A v \in Worker : JobKnows(job[v], n),
           NEW v \in Worker
    PROVE  JobKnows(job'[v], n)
<1>1. job \in [Worker -> Job] /\ NoJob \in Job /\ orch' \in Orch
  BY NoJobTyped DEF OrderInv, TypeInv, TypeOK, JobsOK
<1>2. CASE UNCHANGED job
  BY <1>2
<1>3. CASE Finish(w)
  BY <1>1, <1>3, FreshKnows DEF Finish
<1>4. ASSUME NEW a \in PlainAt \ {"cancel", "recancel"}, Goto(w, a)
      PROVE  JobKnows(job'[v], n)
  <2>1. job' = [job EXCEPT ![w] = [job[w] EXCEPT !.at = a]]
    BY <1>4 DEF Goto
  <2>2. JobKnows([job[w] EXCEPT !.at = a], n)
    BY <1>1, <1>4, GotoKnows
  <2> QED
    BY <1>1, <2>1, <2>2
<1>5. ASSUME InPlan(orch'), NEW a \in PlainAt, NEW j \in {NoJob, job[w]},
             job' = [job EXCEPT ![w] =
                        [j EXCEPT !.at = a, !.cmd = CommandOf(orch')]]
      PROVE  JobKnows(job'[v], n)
  <2>1. CommandOf(orch') \in Command /\ Carried(CommandOf(orch')[1], n)
    BY <1>1, <1>5, InPlanStep, CurrentKnows
  <2>2. j \in Job /\ JobKnows(j, n)
    BY <1>1, FreshKnows
  <2>3. JobKnows([j EXCEPT !.at = a, !.cmd = CommandOf(orch')], n)
    BY <2>1, <2>2, SetOutKnows
  <2> QED
    BY <1>1, <1>5, <2>3
<1> QED
  BY <1>2, <1>3, <1>4, <1>5 DEF PlainJob

\* A quiet step keeps what is known.
LEMMA QuietKnows ==
    ASSUME OrderInv, TypeInv', NEW w \in Worker, Quiet(w)
    PROVE  OrderKnows'
<1>1. Later(nav, nav') /\ nav \in [Command -> NavState]
  BY DEF Quiet, NavMove, OrderInv, TypeInv, TypeOK, NavTypeOK
<1>2. RecordKnows(orch', nav')
  <2>1. RecordKnows(orch', nav)
    BY MarksKnow DEF Quiet, OrderInv, OrderKnows
  <2> QED
    BY <1>1, <2>1, RecordLater
<1>3. ASSUME NEW v \in Worker
      PROVE  JobKnows(job[v], nav')
  <2>1. SnapOK(job[v]) /\ job[v].snap \in Orch /\ JobKnows(job[v], nav)
    BY DEF OrderInv, OrderKnows, TypeInv, JobsOK, Job
  <2> QED
    BY <1>1, <2>1, JobLater
<1>4. \A v \in Worker : JobKnows(job'[v], nav')
  BY <1>2, <1>3, PlainKnows DEF Quiet
<1>5. ASSUME NEW c \in Active'
      PROVE  Carried(c[1], nav')
  <2>1. c \in Command /\ nav'[c] = "ACTIVE"
    BY DEF Active
  <2>2. nav[c] \in {"NONE", "ACTIVE"}
    BY <1>1, <2>1 DEF Later, Over, Bad, NavState
  <2>3. Carried(c[1], nav)
    BY <2>1, <2>2 DEF Quiet, NavMove, OrderInv, OrderKnows, JobKnows, Active
  <2> QED
    BY <1>1, <2>3, CarriedLater
<1>6. ASSUME NEW m \in mail'
      PROVE  EventKnows(m.cmd, m.ev, nav')
  <2>1. CASE m \in mail
    <3>1. m.cmd \in Command /\ EventKnows(m.cmd, m.ev, nav)
      BY <2>1 DEF OrderInv, OrderKnows, TypeInv, TypeOK, NavTypeOK, Letter
    <3> QED
      BY <1>1, <3>1, EventLater
  <2> QED
    BY <2>1 DEF Quiet, NavMove
<1>7. task' = "DONE" => DeliveredIn(nav')
  BY <1>1, CarriedLater DEF Quiet, SameTask, OrderInv, OrderKnows
<1> QED
  BY <1>2, <1>4, <1>5, <1>6, <1>7 DEF OrderKnows

\* A step of one thread that leaves Nav alone keeps what is known when its
\* record and its job know enough.
LEMMA ThreadKnows ==
    ASSUME OrderInv, NEW w \in Worker, NEW j, JobKnows(j, nav),
           job' = [job EXCEPT ![w] = j], nav' = nav, mail' \subseteq mail,
           RecordKnows(orch', nav),
           task' = "DONE" => task = "DONE" \/ DeliveredIn(nav)
    PROVE  OrderKnows'
<1>1. \A v \in Worker : JobKnows(job'[v], nav')
  BY DEF OrderInv, OrderKnows, TypeInv, JobsOK
<1>2. \A c \in Active' : Carried(c[1], nav')
  BY DEF OrderInv, OrderKnows, Active
<1>3. \A m \in mail' : EventKnows(m.cmd, m.ev, nav')
  BY DEF OrderInv, OrderKnows
<1>4. task' = "DONE" => DeliveredIn(nav')
  BY DEF OrderInv, OrderKnows
<1> QED
  BY <1>1, <1>2, <1>3, <1>4 DEF OrderKnows

-----------------------------------------------------------------------------
(* The steps that decide about the mission.                                *)

\* The goods of a plan are delivered when its last transfer is done.
LEMMA AllCarried ==
    ASSUME NEW n, NEW k \in Nat, N < k, Carried(k, n)
    PROVE  DeliveredIn(n)
  BY OrchestratorAssumption DEF Carried, DeliveredIn, Transfers, Step

\* The plan delivers once, and only drives and parks afterwards.
LEMMA OneDelivery ==
    /\ Drop \in Step /\ Kind[Drop] = "unload"
    /\ \A i \in Step : Kind[i] = "unload" => i = Drop
    /\ \E i \in Step : i < Drop /\ Kind[i] = "load"
    /\ \A i \in Step : i > Drop => Kind[i] \in MoveKinds \cup {"align"}
<1>1. PICK u \in Step :
        /\ Kind[u] = "unload"
        /\ \A i \in Step : i # u => Kind[i] # "unload"
        /\ \E i \in Step : i < u /\ Kind[i] = "load"
        /\ \A i \in Step : i > u => Kind[i] \in MoveKinds \cup {"align"}
  BY DeliveryAssumption
<1>2. Drop = u
  BY <1>1 DEF Drop
<1> QED
  BY <1>1, <1>2

LEMMA DropDelivers ==
    ASSUME NEW n
    PROVE  DeliveredIn(n) <=> n[<<Drop, 0>>] = "DONE"
  BY OneDelivery DEF DeliveredIn

\* A step that only takes a callback from the mail.
LEMMA SilentKnows ==
    ASSUME OrderInv, UNCHANGED job, UNCHANGED orch, SameTask, nav' = nav,
           mail' \subseteq mail
    PROVE  OrderKnows'
  BY DEF OrderInv, OrderKnows, SameTask, Active

\* A start that is only begun, or refused, decides nothing.
LEMMA StartQuiet ==
    ASSUME TypeInv, NEW w \in Worker, BeginStart(w) \/ RefuseStart(w)
    PROVE  Quiet(w)
<1>1. UNCHANGED orch /\ SameTask /\ NavMove
  BY SameWorldMoves DEF BeginStart, RefuseStart
<1>2. PlainJob(w)
  BY DEF BeginStart, RefuseStart, PlainJob, PlainAt, At
<1> QED
  BY <1>1, <1>2, IdleQuiet

\* A started order knows nothing yet.
LEMMA StartKnows ==
    ASSUME OrderInv, NEW w \in Worker, StartTask(w)
    PROVE  OrderKnows'
<1> DEFINE o == SetStatus(NewOrch, "dispatching")
           j == [NoJob EXCEPT !.at = "send", !.cmd = CommandOf(o)]
<1>1. o \in Orch /\ InPlan(o) /\ Marks(NewOrch, o) /\ NoNewGate(NewOrch, o)
  BY NewOrchTyped, SetStatusTyped, MarksStatus
     DEF StepStatus, InPlan, NoNewGate, InHold
<1>2. RecordKnows(o, nav)
  BY <1>1, FreshKnows, MarksKnow
<1>3. CommandOf(o) \in Command /\ Carried(CommandOf(o)[1], nav)
  BY <1>1, <1>2, InPlanStep, CurrentKnows
<1>4. JobKnows(j, nav)
  BY <1>3, FreshKnows, NoJobTyped, SetOutKnows DEF PlainAt, At
<1>5. /\ orch' = o /\ job' = [job EXCEPT ![w] = j] /\ task' = "RUNNING"
      /\ nav' = nav /\ mail' = mail
  BY DEF StartTask, SameWorld, navVars
<1> QED
  BY <1>2, <1>4, <1>5, ThreadKnows

\* An observation knows what its event tells.
LEMMA HearKnows ==
    ASSUME OrderInv, NEW w \in Worker,
           (\E m \in mail : Callback(w, m))
             \/ (w = Poller /\ \E c \in Command : Poll(c))
    PROVE  OrderKnows'
<1>1. ASSUME NEW c, NEW e, EventKnows(c, e, nav), InPlan(orch),
             c = CommandOf(orch), Observe(w, c, e), UNCHANGED orch, SameTask,
             nav' = nav, mail' \subseteq mail
      PROVE  OrderKnows'
  <2> DEFINE j == [NoJob EXCEPT !.at = "claim", !.cmd = c, !.ev = e,
                                !.stopping = (orch.phase = "CANCEL_REQUESTED"),
                                !.stop = orch.stop]
  <2>1. CASE job' = [job EXCEPT ![w] = j]
    <3>1. c \in Command /\ Carried(c[1], nav)
      BY <1>1, InPlanStep, CurrentKnows
         DEF OrderInv, OrderKnows, TypeInv, TypeOK
    <3>2. orch.stop.biz => DeliveredIn(nav)
      BY DEF OrderInv, OrderKnows, RecordKnows
    <3>3. /\ j.at = "claim" /\ j.snap = NoJob.snap /\ j.cmd = c /\ j.ev = e
          /\ j.stop = orch.stop
      BY NoJobTyped DEF Job
    <3>4. RecordKnows(NoJob.snap, nav)
      BY FreshKnows DEF JobKnows
    <3> HIDE DEF j
    <3>5. JobKnows(j, nav)
      BY <1>1, <3>1, <3>2, <3>3, <3>4 DEF JobKnows
    <3> QED
      BY <1>1, <2>1, <3>5, ThreadKnows DEF SameTask, OrderInv, OrderKnows
  <2>2. CASE UNCHANGED job
    BY <1>1, <2>2, SilentKnows
  <2> QED
    BY <1>1, <2>1, <2>2 DEF Observe
<1>2. ASSUME NEW m \in mail, Callback(w, m)
      PROVE  OrderKnows'
  <2>1. EventKnows(m.cmd, m.ev, nav)
    BY DEF OrderInv, OrderKnows
  <2>2. UNCHANGED orch /\ SameTask /\ nav' = nav /\ mail' \subseteq mail
    BY <1>2 DEF Callback
  <2>3. CASE Observable(m.cmd, CallbackStatuses(m.cmd)) /\ Observe(w, m.cmd, m.ev)
    BY <1>1, <2>1, <2>2, <2>3 DEF Observable
  <2>4. CASE UNCHANGED job
    BY <2>2, <2>4, SilentKnows
  <2> QED
    BY <1>2, <2>3, <2>4 DEF Callback
<1>3. ASSUME NEW c \in Command, w = Poller, Poll(c)
      PROVE  OrderKnows'
  <2>1. EventKnows(c, Reported(c), nav)
    BY <1>3 DEF Poll, Reported, EventKnows, Event, Over, Bad, NavState,
                OrderInv, TypeInv, TypeOK, NavTypeOK
  <2>2. UNCHANGED orch /\ SameTask /\ nav' = nav /\ mail' \subseteq mail
    BY <1>3 DEF Poll, SameWorld, navVars
  <2> QED
    BY <1>1, <1>3, <2>1, <2>2 DEF Poll, Observable
<1> QED
  BY <1>2, <1>3

\* A claim keeps the record it marked, for its own command.
LEMMA ClaimKnows ==
    ASSUME OrderInv, TypeInv', NEW w \in Worker, Claim(w)
    PROVE  OrderKnows'
<1>1. CASE ~Claimable(job[w].cmd)
  <2>1. Quiet(w)
    BY <1>1, IdleQuiet, SameWorldMoves DEF Claim, PlainJob
  <2> QED
    BY <2>1, QuietKnows
<1>2. CASE Claimable(job[w].cmd)
  <2> DEFINE o == [orch EXCEPT !.phase = "ADVANCING",
                               !.st[orch.idx] = "transition_claimed",
                               !.tid = TransitionOf(w)]
             j == [job[w] EXCEPT !.at = "claimed", !.snap = o]
  <2>1. orch \in Orch /\ job[w] \in Job /\ job \in [Worker -> Job]
    BY DEF OrderInv, TypeInv, TypeOK, JobsOK
  <2>2. Marks(orch, o) /\ NoNewGate(orch, o)
    BY <2>1 DEF Marks, NoNewGate, InHold, Orch
  <2>3. RecordKnows(orch, nav) /\ JobKnows(job[w], nav)
    BY DEF OrderInv, OrderKnows
  <2>4. /\ orch' = o /\ job' = [job EXCEPT ![w] = j] /\ nav' = nav
        /\ mail' = mail /\ task' = task /\ job[w].at = "claim"
    BY <1>2, <2>1 DEF Claim, Doing, SameWorld, SameTask, navVars, Job
  <2>5. InPlan(orch) /\ job[w].cmd = CommandOf(orch)
    BY <1>2 DEF Claimable
  <2>6. /\ j.at = "claimed" /\ j.snap = o /\ j.cmd = job[w].cmd
        /\ j.ev = job[w].ev /\ j.stop = job[w].stop
    BY <2>1 DEF Job
  <2> HIDE DEF o, j
  <2>7. RecordKnows(o, nav)
    BY <2>2, <2>3, MarksKnow
  <2>8. InPlan(o) /\ job[w].cmd = CommandOf(o)
    BY <2>2, <2>5 DEF InPlan, CommandOf, Marks
  <2>9. JobKnows(j, nav)
    BY <2>3, <2>4, <2>6, <2>7, <2>8 DEF JobKnows
  <2> QED
    BY <2>4, <2>7, <2>9, ThreadKnows DEF OrderInv, OrderKnows
<1> QED
  BY <1>1, <1>2

\* What a winning thread knows of the step it finalizes.
LEMMA WinningKnows ==
    ASSUME OrderInv, NEW w \in Worker, Winning(w)
    PROVE  /\ job[w].snap \in Orch /\ job[w].snap.idx \in Step
           /\ InPlan(job[w].snap) /\ job[w].snap.idx = orch.idx
           /\ job[w].cmd = CommandOf(job[w].snap)
           /\ RecordKnows(job[w].snap, nav)
           /\ EventKnows(job[w].cmd, job[w].ev, nav)
           /\ job[w].stop.biz => DeliveredIn(nav)
           /\ job[w].ev \in Event \cup {"none"}
  BY WinningSnap
     DEF OrderInv, OrderKnows, JobKnows, Winning, Won, Doing, TypeInv, JobsOK,
         Job

\* A finalize that keeps the cursor: the record it saved is marked.
SettleSteps(w) ==
    \/ SettleUnexpectedCancel(w) \/ SettleCancelFailed(w)
    \/ SettleStopped(w) \/ SettleDoneDuringStop(w)
    \/ SettleFailed(w) \/ SettleLoadHeld(w)

LEMMA SettleMarks ==
    ASSUME OrderInv, NEW w \in Worker, SettleSteps(w)
    PROVE  /\ Winning(w) /\ Finish(w) /\ SameWorld
           /\ Marks(job[w].snap, orch')
           /\ orch'.phase \notin {"RUNNING", "ADVANCING", "CANCEL_REQUESTED"}
           /\ \/ NoNewGate(job[w].snap, orch')
              \/ SettleLoadHeld(w)
           /\ orch'.appr = job[w].snap.appr
<1> DEFINE s == job[w].snap
<1>1. Winning(w)
  BY DEF SettleSteps, SettleUnexpectedCancel, SettleCancelFailed,
         SettleStopped, SettleDoneDuringStop, SettleFailed, SettleLoadHeld
<1>2. s \in Orch /\ s.idx \in Step /\ job[w].ev \in Event \cup {"none"}
  BY <1>1, WinningKnows
<1>3. Finish(w) /\ SameWorld
  BY DEF SettleSteps, SettleUnexpectedCancel, SettleCancelFailed,
         SettleStopped, SettleDoneDuringStop, SettleFailed, SettleLoadHeld,
         Settle
<1>4. PICK x \in StepStatus :
               \/ \E why, c : orch' = Held(SetStatus(s, x), why, c)
                                /\ (why = "evidence_gate" => SettleLoadHeld(w))
               \/ \E ph \in {"DONE", "CANCELLED", "FAILED", "ABORTED"} :
                     orch' = [SetStatus(s, x) EXCEPT !.phase = ph]
  <2>1. CASE SettleUnexpectedCancel(w)
    BY <2>1 DEF SettleUnexpectedCancel, Settle, StepStatus
  <2>2. CASE SettleCancelFailed(w)
    BY <2>2 DEF SettleCancelFailed, Settle, StepStatus
  <2>3. CASE SettleStopped(w)
    BY <2>3 DEF SettleStopped, Settle, StepStatus
  <2>4. CASE SettleDoneDuringStop(w)
    BY <2>4 DEF SettleDoneDuringStop, Settle, StepStatus
  <2>5. CASE SettleFailed(w)
    <3>1. /\ EventName(job[w].ev) \in StepStatus
          /\ job[w].ev # "ESTOP" => EventName(job[w].ev) \in {"FAILED", "ABORTED"}
      BY <2>5 DEF SettleFailed, EventName, StepStatus
    <3>2. \/ \E ph \in {"DONE", EventName(job[w].ev)} :
                /\ orch' = [SetStatus(s, EventName(job[w].ev)) EXCEPT !.phase = ph]
                /\ ph = "DONE" \/ job[w].ev # "ESTOP"
          \/ orch' = Held(SetStatus(s, EventName(job[w].ev)), "movement_estop", NoCommand)
      BY <2>5 DEF SettleFailed, Settle
    <3> QED
      BY <3>1, <3>2
  <2>6. CASE SettleLoadHeld(w)
    BY <2>6 DEF SettleLoadHeld, Settle, StepStatus
  <2> QED
    BY <2>1, <2>2, <2>3, <2>4, <2>5, <2>6 DEF SettleSteps
<1>5. /\ SetStatus(s, x) \in Orch /\ Marks(s, SetStatus(s, x))
      /\ SetStatus(s, x).phase = s.phase /\ SetStatus(s, x).rec = s.rec
      /\ SetStatus(s, x).appr = s.appr
  BY <1>2, SetStatusTyped, MarksStatus
<1>6. CASE \E why, c : orch' = Held(SetStatus(s, x), why, c)
                         /\ (why = "evidence_gate" => SettleLoadHeld(w))
  <2>1. PICK why, c : orch' = Held(SetStatus(s, x), why, c)
                        /\ (why = "evidence_gate" => SettleLoadHeld(w))
    BY <1>6
  <2>2. /\ Marks(SetStatus(s, x), orch') /\ orch'.phase = "AWAITING_OPERATOR"
        /\ orch'.rec.why = why /\ orch'.appr = s.appr
    BY <1>5, <2>1, MarksHeld
  <2> QED
    BY <1>1, <1>3, <1>5, <2>1, <2>2, MarksTrans DEF NoNewGate
<1>7. CASE \E ph \in {"DONE", "CANCELLED", "FAILED", "ABORTED"} :
              orch' = [SetStatus(s, x) EXCEPT !.phase = ph]
  <2>1. PICK ph \in {"DONE", "CANCELLED", "FAILED", "ABORTED"} :
              orch' = [SetStatus(s, x) EXCEPT !.phase = ph]
    BY <1>7
  <2>2. /\ Marks(SetStatus(s, x), orch') /\ orch'.phase = ph
        /\ orch'.rec = s.rec /\ orch'.appr = s.appr
    BY <1>5, <2>1, MarksPhase
  <2> QED
    BY <1>1, <1>3, <1>5, <2>2, MarksTrans DEF NoNewGate, InHold
<1> QED
  BY <1>4, <1>6, <1>7

\* It keeps what is known; it books the goods only when they are delivered.
LEMMA SettleKnows ==
    ASSUME OrderInv, NEW w \in Worker, SettleSteps(w)
    PROVE  OrderKnows'
<1> DEFINE s == job[w].snap
<1>1. /\ Winning(w) /\ Finish(w) /\ SameWorld /\ Marks(s, orch')
      /\ NoNewGate(s, orch') \/ SettleLoadHeld(w)
  BY SettleMarks
<1>2. /\ s \in Orch /\ s.idx \in Step /\ job[w].cmd = CommandOf(s)
      /\ RecordKnows(s, nav) /\ EventKnows(job[w].cmd, job[w].ev, nav)
      /\ job[w].stop.biz => DeliveredIn(nav)
  BY <1>1, WinningKnows
<1>3. s.biz => DeliveredIn(nav)
  BY <1>2 DEF RecordKnows
<1>4. SettleLoadHeld(w) => LoadGate(orch', nav)
  <2> SUFFICES ASSUME SettleLoadHeld(w) PROVE nav[<<s.idx, 0>>] = "DONE"
    BY <1>1 DEF LoadGate, Marks
  <2>1. Kind[s.idx] = "load" /\ nav[CommandOf(s)] = "DONE"
    BY <1>2 DEF SettleLoadHeld, EventKnows
  <2> QED
    BY <1>2, <2>1 DEF RecordKnows, CommandOf, Transfers
<1>5. RecordKnows(orch', nav)
  BY <1>1, <1>2, <1>4, MarksKnow
<1>6. task' = "DONE" => task = "DONE" \/ DeliveredIn(nav)
  BY <1>2, <1>3
     DEF SettleSteps, SettleUnexpectedCancel, SettleCancelFailed,
         SettleStopped, SettleDoneDuringStop, SettleFailed, SettleLoadHeld,
         SameTask, Release
<1>7. job' = [job EXCEPT ![w] = NoJob] /\ nav' = nav /\ mail' = mail
  BY <1>1 DEF Finish, SameWorld, navVars
<1> QED
  BY <1>5, <1>6, <1>7, FreshKnows, ThreadKnows

\* The cursor moves on past a transfer only when Nav did it.
LEMMA AdvancedKnows ==
    ASSUME NEW n, NEW s \in Orch, s.idx \in Step, InPlan(s), RecordKnows(s, n),
           NEW e \in DoneEvents(s.idx), EventKnows(CommandOf(s), e, n),
           NEW chained \in BOOLEAN
    PROVE  /\ RecordKnows(Advanced(s, chained), n)
           /\ ~InPlan(Advanced(s, chained)) => DeliveredIn(n)
<1> DEFINE o == Advanced(s, chained)
           unload == Kind[s.idx] = "unload"
<1>1. /\ o.idx = s.idx + 1 /\ o.gen = s.gen /\ o.stop = s.stop
      /\ o.biz = (s.biz \/ unload) /\ o.phase = "RUNNING"
      /\ o.len = IF unload /\ chained THEN s.idx ELSE s.len
  BY DEF Advanced, SetStatus, Orch
<1> HIDE DEF o
<1>2. s.idx \in Nat /\ s.idx <= N /\ s.len \in Nat /\ s.idx <= s.len
  BY OrchestratorAssumption DEF Step, Orch, InPlan
<1>3. Kind[s.idx] \in Transfers => n[<<s.idx, 0>>] = "DONE"
  <2> SUFFICES ASSUME Kind[s.idx] \in Transfers
               PROVE  n[<<s.idx, 0>>] = "DONE"
    OBVIOUS
  <2>1. e = "DONE"
    BY DEF DoneEvents, MoveKinds, Transfers
  <2>2. CommandOf(s) = <<s.idx, 0>>
    BY DEF RecordKnows, CommandOf
  <2> QED
    BY <2>1, <2>2 DEF EventKnows
<1>4. Carried(o.idx, n)
  <2> SUFFICES ASSUME NEW i \in Step, i < s.idx + 1, Kind[i] \in Transfers
               PROVE  n[<<i, 0>>] = "DONE"
    BY <1>1 DEF Carried
  <2>1. i < s.idx \/ i = s.idx
    BY <1>2 DEF Step
  <2> QED
    BY <1>3, <2>1 DEF RecordKnows, Carried
<1>5. unload => DeliveredIn(n)
  BY <1>3, OneDelivery DEF DeliveredIn, Transfers
<1>6. o.biz \/ o.stop.biz \/ o.len # N => DeliveredIn(n)
  BY <1>1, <1>5 DEF RecordKnows
<1>7. RecordKnows(o, n)
  BY <1>1, <1>4, <1>6 DEF RecordKnows, LoadGate, InHold
<1>8. ~InPlan(o) => DeliveredIn(n)
  <2> SUFFICES ASSUME ~(o.idx <= o.len), ~unload, s.len = N
               PROVE  DeliveredIn(n)
    BY <1>1, <1>5, <1>6 DEF InPlan
  <2>1. N < o.idx /\ o.idx \in Nat
    BY <1>1, <1>2, OrchestratorAssumption
  <2> QED
    BY <1>4, <2>1, AllCarried
<1> QED
  BY <1>7, <1>8 DEF o

LEMMA AdvanceKnows ==
    ASSUME OrderInv, NEW w \in Worker, SettleAdvance(w)
    PROVE  OrderKnows'
<1> DEFINE s == job[w].snap
<1>1. /\ s \in Orch /\ s.idx \in Step /\ InPlan(s) /\ RecordKnows(s, nav)
      /\ EventKnows(CommandOf(s), job[w].ev, nav)
  BY WinningKnows DEF SettleAdvance
<1>2. PICK chained \in BOOLEAN :
        \/ /\ orch' = Advanced(s, chained)
           /\ job' = [job EXCEPT ![w] = [NoJob EXCEPT !.at = "dispatch"]]
           /\ SameTask /\ SameWorld
        \/ /\ ~InPlan(Advanced(s, chained))
           /\ Settle(w, [Advanced(s, chained) EXCEPT !.phase = "DONE"])
           /\ Deliver
  BY DEF SettleAdvance
<1> DEFINE o == Advanced(s, chained)
<1>3. o \in Orch /\ RecordKnows(o, nav) /\ (~InPlan(o) => DeliveredIn(nav))
  BY <1>1, AdvancedTyped, AdvancedKnows DEF SettleAdvance
<1> HIDE DEF o
<1>4. CASE /\ orch' = o
           /\ job' = [job EXCEPT ![w] = [NoJob EXCEPT !.at = "dispatch"]]
           /\ SameTask /\ SameWorld
  <2>1. JobKnows([NoJob EXCEPT !.at = "dispatch"], nav)
    BY NoJobTyped, FreshKnows, GotoKnows DEF PlainAt, At
  <2> QED
    BY <1>3, <1>4, <2>1, ThreadKnows DEF SameTask, SameWorld, navVars
<1>5. CASE /\ ~InPlan(o)
           /\ Settle(w, [o EXCEPT !.phase = "DONE"])
  <2>1. /\ Marks(o, [o EXCEPT !.phase = "DONE"])
        /\ NoNewGate(o, [o EXCEPT !.phase = "DONE"])
    BY <1>3, MarksPhase DEF NoNewGate, InHold
  <2>2. RecordKnows(orch', nav)
    BY <1>3, <1>5, <2>1, MarksKnow DEF Settle
  <2>3. job' = [job EXCEPT ![w] = NoJob] /\ nav' = nav /\ mail' = mail
    BY <1>5 DEF Settle, Finish, SameWorld, navVars
  <2> QED
    BY <1>3, <1>5, <2>2, <2>3, FreshKnows, ThreadKnows
<1> QED
  BY <1>2, <1>4, <1>5 DEF o

\* A thread that leaves to ask the evidence gate knows what it asks about.
LEMMA AskKnows ==
    ASSUME NEW n, NEW a \in {"gate", "regate"}, NEW o \in Orch,
           RecordKnows(o, n),
           a = "gate" => Kind[o.idx] = "unload",
           a = "regate" /\ Kind[o.idx] = "load" => n[<<o.idx, 0>>] = "DONE"
    PROVE  JobKnows([NoJob EXCEPT !.at = a, !.snap = o], n)
<1> DEFINE j == [NoJob EXCEPT !.at = a, !.snap = o]
<1>1. /\ j.at = a /\ j.snap = o /\ j.cmd = NoJob.cmd /\ j.stop = NoJob.stop
  BY NoJobTyped DEF Job
<1>2. JobKnows(NoJob, n)
  BY FreshKnows
<1> HIDE DEF j
<1>3. JobKnows(j, n)
  BY <1>1, <1>2 DEF JobKnows
<1> QED
  BY <1>3 DEF j

\* The dispatch of the current step, up to its first wait: quiet, or to the
\* evidence gate, or held by it.
LEMMA BeginShape ==
    ASSUME TypeInv, NEW w \in Worker, BeginDispatch(w), SameTask, SameWorld
    PROVE  \/ Quiet(w)
           \/ /\ InPlan(orch) /\ Kind[orch.idx] = "unload" /\ UNCHANGED orch
              /\ job' = [job EXCEPT ![w] =
                            [NoJob EXCEPT !.at = "gate", !.snap = orch]]
           \/ /\ Kind[orch.idx] = "unload" /\ orch.appr = "hold"
              /\ orch' = Held(orch, "evidence_gate", NoCommand)
              /\ Finish(w)
<1>1. NavMove
  BY SameWorldMoves
<1>2. CASE Finish(w) /\ UNCHANGED orch
  BY <1>1, <1>2, IdleQuiet DEF PlainJob
<1>3. CASE /\ InPlan(orch) /\ UNCHANGED orch
           /\ job' = [job EXCEPT ![w] =
                         [NoJob EXCEPT !.at = "dclaim", !.cmd = CommandOf(orch)]]
  <2>1. PlainJob(w)
    BY <1>3 DEF PlainJob, PlainAt, At
  <2> QED
    BY <1>1, <1>3, <2>1, IdleQuiet
<1> QED
  BY <1>2, <1>3 DEF BeginDispatch

LEMMA BeginKnows ==
    ASSUME OrderInv, TypeInv', NEW w \in Worker, BeginDispatch(w), SameTask,
           SameWorld
    PROVE  OrderKnows'
<1>1. orch \in Orch /\ RecordKnows(orch, nav)
  BY DEF OrderInv, OrderKnows, TypeInv, TypeOK
<1>2. nav' = nav /\ mail' = mail /\ task' = task
  BY DEF SameWorld, SameTask, navVars
<1>3. CASE Quiet(w)
  BY <1>3, QuietKnows
<1>4. CASE /\ Kind[orch.idx] = "unload" /\ UNCHANGED orch
           /\ job' = [job EXCEPT ![w] =
                         [NoJob EXCEPT !.at = "gate", !.snap = orch]]
  <2>1. JobKnows([NoJob EXCEPT !.at = "gate", !.snap = orch], nav)
    BY <1>1, <1>4, AskKnows
  <2> QED
    BY <1>1, <1>2, <1>4, <2>1, ThreadKnows
<1>5. CASE /\ Kind[orch.idx] = "unload"
           /\ orch' = Held(orch, "evidence_gate", NoCommand)
           /\ Finish(w)
  <2>1. Marks(orch, orch') /\ LoadGate(orch', nav)
    BY <1>1, <1>5, MarksHeld DEF LoadGate, Marks
  <2>2. RecordKnows(orch', nav)
    BY <1>1, <2>1, MarksKnow
  <2> QED
    BY <1>2, <1>5, <2>2, FreshKnows, ThreadKnows DEF Finish
<1> QED
  BY <1>3, <1>4, <1>5, BeginShape DEF OrderInv

\* The verdict of the gate on an unload: the record goes back to what it was
\* asked about, and Nav has not gone back.
LEMMA GateKnows ==
    ASSUME OrderInv, NEW w \in Worker, GateHold(w) \/ GatePass(w)
    PROVE  OrderKnows'
<1> DEFINE s == job[w].snap
<1>1. /\ s \in Orch /\ RecordKnows(s, nav) /\ InPlan(s)
      /\ Kind[s.idx] = "unload"
  BY DEF GateHold, GatePass, Doing, OrderInv, OrderKnows, JobKnows, TypeInv,
         JobsOK, SnapOK, Job
<1>2. nav' = nav /\ mail' = mail /\ task' = task
  BY DEF GateHold, GatePass, SameWorld, SameTask, navVars
<1>3. CASE GateHold(w)
  <2>1. /\ [s EXCEPT !.appr = "hold"] \in Orch
        /\ orch' = Held([s EXCEPT !.appr = "hold"], "evidence_gate", NoCommand)
    BY <1>1, <1>3 DEF GateHold, Orch
  <2>2. /\ orch'.idx = s.idx /\ orch'.gen = s.gen /\ orch'.len = s.len
        /\ orch'.biz = s.biz /\ orch'.stop = s.stop
    BY <1>1, <2>1 DEF Held, Orch
  <2>3. RecordKnows(orch', nav)
    BY <1>1, <2>2 DEF RecordKnows, LoadGate
  <2> QED
    BY <1>2, <1>3, <2>3, FreshKnows, ThreadKnows DEF GateHold, Finish
<1>4. CASE GatePass(w)
  <2> DEFINE p == [s EXCEPT !.appr = "pass"]
             o == SetStatus(p, "dispatching")
             j == [NoJob EXCEPT !.at = "send", !.cmd = CommandOf(o)]
  <2>1. p \in Orch /\ Marks(s, p) /\ p.phase = s.phase /\ p.rec = s.rec
    BY <1>1 DEF Orch, Marks
  <2>2. orch' = o /\ job' = [job EXCEPT ![w] = j]
    BY <1>4 DEF GatePass
  <2> HIDE DEF p
  <2>3. /\ o \in Orch /\ Marks(p, o) /\ o.phase = s.phase /\ o.rec = s.rec
    BY <2>1, SetStatusTyped, MarksStatus DEF StepStatus
  <2> HIDE DEF o
  <2>4. Marks(s, o) /\ NoNewGate(s, o)
    BY <2>1, <2>3, MarksTrans DEF NoNewGate, InHold
  <2>5. RecordKnows(o, nav) /\ InPlan(o)
    BY <1>1, <2>4, MarksKnow DEF Marks, InPlan
  <2>6. JobKnows(j, nav)
    BY <2>3, <2>5, InPlanStep, CurrentKnows, NoJobTyped, FreshKnows, SetOutKnows
       DEF PlainAt, At
  <2> QED
    BY <1>2, <2>2, <2>5, <2>6, ThreadKnows
<1> QED
  BY <1>3, <1>4

\* A retry goes on behind a load that Nav did, or back to the approach of an
\* unload, whose own command it does not repeat.
LEMMA RetryKnows ==
    ASSUME OrderInv, TypeInv', NEW w \in Worker,
           BeginRetry(w) \/ RetryHold(w) \/ RetryPass(w)
    PROVE  OrderKnows'
<1> DEFINE s == job[w].snap
<1>1. nav' = nav /\ mail' = mail /\ task' = task
  BY DEF BeginRetry, RetryHold, RetryPass, SameWorld, SameTask, navVars
<1>2. CASE BeginRetry(w)
  <2>1. orch \in Orch /\ RecordKnows(orch, nav) /\ orch.idx \in Step
    BY <1>2, InPlanStep DEF BeginRetry, OrderInv, OrderKnows, TypeInv, TypeOK
  <2>2. Kind[orch.idx] = "load" => nav[<<orch.idx, 0>>] = "DONE"
    BY <1>2, <2>1 DEF BeginRetry, RecordKnows, LoadGate
  <2>3. JobKnows([NoJob EXCEPT !.at = "regate", !.snap = orch], nav)
    BY <2>1, <2>2, AskKnows
  <2> QED
    BY <1>1, <1>2, <2>1, <2>3, ThreadKnows DEF BeginRetry
<1>3. ASSUME Doing(w, "regate")
      PROVE  /\ s \in Orch /\ RecordKnows(s, nav) /\ s.idx \in Step
             /\ Kind[s.idx] \in Transfers
             /\ Kind[s.idx] = "load" => nav[<<s.idx, 0>>] = "DONE"
  BY <1>3, InPlanStep
     DEF Doing, OrderInv, OrderKnows, JobKnows, TypeInv, JobsOK, SnapOK, Job,
         Transfers
<1>4. CASE RetryHold(w)
  <2> DEFINE p == IF Kind[s.idx] = "unload" THEN [s EXCEPT !.appr = "hold"] ELSE s
  <2>1. orch' = Held(p, "evidence_gate", NoCommand) /\ s \in Orch
    BY <1>3, <1>4 DEF RetryHold
  <2>2. /\ orch'.idx = s.idx /\ orch'.gen = s.gen /\ orch'.len = s.len
        /\ orch'.biz = s.biz /\ orch'.stop = s.stop
    BY <2>1 DEF Held, Orch
  <2>3. RecordKnows(orch', nav)
    BY <1>3, <1>4, <2>2 DEF RecordKnows, LoadGate, RetryHold
  <2> QED
    BY <1>1, <1>4, <2>3, FreshKnows, ThreadKnows DEF RetryHold, Finish
<1>5. CASE RetryPass(w)
  <2>1. /\ s \in Orch /\ RecordKnows(s, nav) /\ s.idx \in Step
        /\ Kind[s.idx] \in Transfers
        /\ Kind[s.idx] = "load" => nav[<<s.idx, 0>>] = "DONE"
    BY <1>3, <1>5 DEF RetryPass
  <2>2. s.idx \in Nat /\ s.idx > 1
    BY <2>1, ApproachAssumption, OrchestratorAssumption DEF Transfers, Step
  <2>3. /\ orch'.len = s.len /\ orch'.biz = s.biz /\ orch'.stop = s.stop
        /\ orch'.phase = "RUNNING"
    BY <1>5, <2>1 DEF RetryPass, Retried, Orch
  <2>4. /\ Carried(orch'.idx, nav)
        /\ \A i \in Step : Kind[i] \in Transfers => orch'.gen[i] = 0
    <3>1. CASE Kind[s.idx] = "load"
      <4>1. orch'.idx = s.idx + 1 /\ orch'.gen = s.gen
        BY <1>5, <2>1, <3>1 DEF RetryPass, Retried, Orch
      <4>2. Carried(s.idx + 1, nav)
        BY <2>1, <2>2, <3>1 DEF RecordKnows, Carried, Step
      <4> QED
        BY <2>1, <4>1, <4>2 DEF RecordKnows
    <3>2. CASE Kind[s.idx] = "unload"
      <4>1. /\ orch'.idx = s.idx - 1
            /\ orch'.gen = [s.gen EXCEPT ![s.idx - 1] = s.gen[s.idx - 1] + 1]
        BY <1>5, <2>1, <3>2 DEF RetryPass, Retried, Orch
      <4>2. Carried(s.idx - 1, nav)
        BY <2>1, <2>2 DEF RecordKnows, Carried, Step
      <4>3. Kind[s.idx - 1] \notin Transfers
        BY <2>1, ApproachAssumption DEF Transfers, MoveKinds
      <4> QED
        BY <2>1, <4>1, <4>2, <4>3 DEF RecordKnows, Orch
    <3> QED
      BY <2>1, <3>1, <3>2 DEF Transfers
  <2>5. RecordKnows(orch', nav)
    BY <2>1, <2>3, <2>4 DEF RecordKnows, LoadGate, InHold
  <2>6. JobKnows([NoJob EXCEPT !.at = "dispatch"], nav)
    BY NoJobTyped, FreshKnows, GotoKnows DEF PlainAt, At
  <2> QED
    BY <1>1, <1>5, <2>5, <2>6, ThreadKnows DEF RetryPass
<1> QED
  BY <1>2, <1>4, <1>5

\* The stop of the current command notes the delivery as the record has it.
LEMMA StopKnows ==
    ASSUME OrderInv, TypeInv', NEW w \in Worker, RequestStop(w)
    PROVE  OrderKnows'
<1>1. CASE Quiet(w)
  BY <1>1, QuietKnows
<1>2. CASE CommandIsActive /\ StopCommand(w) /\ orch' # orch
  <2> DEFINE c == CommandOf(orch)
             j == [NoJob EXCEPT !.at = "cancel", !.cmd = c]
  <2>1. orch \in Orch /\ RecordKnows(orch, nav) /\ c \in Command
    BY <1>2, InPlanStep
       DEF CommandIsActive, OrderInv, OrderKnows, TypeInv, TypeOK
  <2>2. orch' = [orch EXCEPT !.phase = "CANCEL_REQUESTED",
                             !.stop = [cmd |-> c, cargo |-> StopCargo,
                                       biz |-> orch.biz]]
    BY <1>2 DEF StopCommand
  <2>3. /\ orch'.idx = orch.idx /\ orch'.gen = orch.gen /\ orch'.len = orch.len
        /\ orch'.biz = orch.biz /\ orch'.stop.biz = orch.biz
        /\ orch'.phase = "CANCEL_REQUESTED"
    BY <2>1, <2>2 DEF Orch
  <2>4. RecordKnows(orch', nav)
    BY <2>1, <2>3 DEF RecordKnows, LoadGate, InHold
  <2>5. JobKnows(j, nav)
    BY <2>1, CurrentKnows, NoJobTyped, FreshKnows, SetOutKnows DEF PlainAt, At
  <2>6. job' = [job EXCEPT ![w] = j]
    BY <1>2 DEF StopCommand
  <2>7. nav' = nav /\ mail' = mail /\ task' = task
    BY DEF RequestStop, SameWorld, SameTask, navVars
  <2> QED
    BY <2>4, <2>5, <2>6, <2>7, ThreadKnows
<1> QED
  BY <1>1, <1>2, StopQuiet DEF OrderInv

\* A crash leaves what the record and Nav know.
LEMMA CrashKnows ==
    ASSUME OrderInv, Crash
    PROVE  OrderKnows'
<1>1. \A w \in Worker : JobKnows(job'[w], nav')
  BY FreshKnows DEF Crash
<1>2. /\ orch' = orch /\ nav' = nav /\ mail' = mail /\ task' = task
  BY DEF Crash, SameWorld, SameTask, navVars
<1> QED
  BY <1>1, <1>2 DEF OrderInv, OrderKnows, Active

-----------------------------------------------------------------------------
(* The theorems.                                                           *)

\* At the start nobody knows anything,
LEMMA InitKnows == Init => OrderInv
<1> SUFFICES ASSUME Init PROVE OrderKnows
  BY InitTyped DEF OrderInv
<1>1. Active = {}
  BY DEF Init, NavInit, Active
<1>2. RecordKnows(orch, nav) /\ \A w \in Worker : JobKnows(job[w], nav)
  BY FreshKnows DEF Init
<1> QED
  BY <1>1, <1>2 DEF Init, NavInit, OrderKnows

\* and every step keeps what they know.
LEMMA NextKnows == OrderInv /\ [Next]_vars => OrderInv'
<1> SUFFICES ASSUME OrderInv, [Next]_vars PROVE OrderKnows'
  BY NextTyped DEF OrderInv
<1>1. TypeInv /\ TypeInv'
  BY NextTyped DEF OrderInv
<1>2. ASSUME NEW w \in Worker, BeginStart(w) \/ Continue(w) \/ Break(w)
      PROVE  OrderKnows'
  <2>1. CASE Advance(w)
    BY <1>1, <2>1, ClaimKnows, SettleKnows, AdvanceKnows, MarkQuiet, QuietKnows
       DEF Advance, SettleSteps
  <2>2. CASE Dispatch(w)
    BY <1>1, <2>2, BeginKnows, GateKnows, CallQuiet, MarkQuiet, QuietKnows
       DEF Dispatch, DispatchNext
  <2>3. CASE Stop(w) \/ SendEstop(w)
    BY <1>1, <2>3, CallQuiet, MarkQuiet, QuietKnows DEF Stop
  <2>4. CASE RetryHold(w) \/ RetryPass(w)
    BY <1>1, <2>4, RetryKnows
  <2>5. CASE Break(w)
    BY <1>1, <2>5, CallQuiet, MarkQuiet, QuietKnows DEF Break
  <2>6. CASE BeginStart(w) \/ StartTask(w) \/ RefuseStart(w)
    BY <1>1, <2>6, StartKnows, StartQuiet, QuietKnows
  <2> QED
    BY <1>2, <2>1, <2>2, <2>3, <2>4, <2>5, <2>6 DEF Continue
<1>3. ASSUME NEW w \in Worker \ {Poller}, Request(w)
      PROVE  OrderKnows'
  BY <1>1, <1>3, HearKnows, StopKnows, MarkQuiet, QuietKnows,
     RetryKnows
     DEF Request
<1>4. CASE PollOnce
  BY <1>1, <1>4, OrchestratorAssumption, BeginKnows, HearKnows
     DEF PollOnce, PollDispatch
<1>5. CASE \/ \E c \in Command : NavStep(c) \/ NavGateTimeout(c)
           \/ OperatorClearEstop \/ Restart \/ UNCHANGED vars
  BY <1>1, <1>5, OrchestratorAssumption, WorldQuiet, QuietKnows
<1>6. CASE Crash
  BY <1>6, CrashKnows
<1> QED
  BY <1>2, <1>3, <1>4, <1>5, <1>6 DEF Next

\* However requests, answers and callbacks are lost, repeated or late, and
\* however often Main crashes, transfers are refused and retried: Nav never
\* runs a command before it completed the transfers of all earlier steps.
THEOREM TransfersStayInOrder == Spec => []TransfersInOrder
<1>1. Init => OrderInv
  BY InitKnows
<1>2. OrderInv /\ [Next]_vars => OrderInv'
  BY NextKnows
<1>3. OrderInv => TransfersInOrder
  BY DEF OrderInv, OrderKnows, Carried, TransfersInOrder, Transfers
<1> QED
  BY <1>1, <1>2, <1>3, PTL DEF Spec

\* complete_task books an order only for goods that Nav delivered, whether
\* the last step is finalized, the way home fails or the operator stops it.
THEOREM BookedGoodsAreDelivered == Spec => []BookedIsDelivered
<1>1. Init => OrderInv
  BY InitKnows
<1>2. OrderInv /\ [Next]_vars => OrderInv'
  BY NextKnows
<1>3. OrderInv => BookedIsDelivered
  BY DEF OrderInv, OrderKnows, DeliveredIn, BookedIsDelivered, Delivered
<1> QED
  BY <1>1, <1>2, <1>3, PTL DEF Spec

=============================================================================
