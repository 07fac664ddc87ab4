-------------------------- MODULE WorkOrderProofs --------------------------
(***************************************************************************)
(* What an order promises while its starts do not overlap (OneStart) and   *)
(* the evidence service approves its transfers (Approved), for any         *)
(* scenario, any number of threads, and any lost requests, crashes, stops  *)
(* and safety holds: it implements WorkOrder.                              *)
(*                                                                         *)
(* A late start writes a fresh record over an order that runs or ended,    *)
(* and a refused transfer is held and retried under another generation,    *)
(* with the record as it was read before; what then goes wrong is in the   *)
(* README.                                                                 *)
(***************************************************************************)
EXTENDS OrderProofs

Approved == "refuse" \notin Faults

\* The cargo policy of a stop was decided for the step of its command.
StopGoes(s) ==
    s.cmd \in Command =>
        LET k == s.cmd[1]
        IN  /\ Kind[k] \in Transfers => s.cargo = "UNKNOWN"
            /\ k > Drop => s.biz
            /\ s.cargo = "EMPTY" /\ ~s.biz =>
                  \A i \in Step : i < k => Kind[i] # "load"

\* A record's cursor only passes steps that are over and done, one after the
\* other, and notes the delivery when it passes it.
RecordGoes(o, n) ==
    /\ \A i \in Step : o.gen[i] = 0
    /\ o.appr # "hold"
    /\ o.rec.why # "evidence_gate"
    /\ \A i \in Step : i < o.idx => n[<<i, 0>>] \in Over /\ o.st[i] = "DONE"
    /\ \A i \in Step : o.st[i] = "DONE" => i <= o.idx
    /\ o.idx > Drop => o.biz
    /\ StopGoes(o.stop)
    /\ o.phase = "CANCEL_REQUESTED" => o.stop.cmd = CommandOf(o)

\* The record o, or one it replaced, had its cursor at step k: only after
\* the delivery does a record go back, and then to the unload step.
Reached(k, o, n) == k <= o.idx \/ (DeliveredIn(n) /\ o.idx >= Drop)

JobGoes(j, o, n) ==
    /\ RecordGoes(j.snap, n)
    /\ StopGoes(j.stop)
    /\ j.at # "regate"
    /\ j.cmd \in Command => j.cmd[2] = 0 /\ Reached(j.cmd[1], o, n)
    /\ j.at = "gate" => o.idx >= Drop
    /\ j.at \in {"claim", "claimed"} /\ j.stopping => j.stop.cmd = j.cmd

\* Nav knows no command that Main's record did not reach, and the pallet is
\* on the forks only after a load began.
WorldGoes ==
    /\ \A c \in Command : nav[c] # "NONE" => c[2] = 0 /\ Reached(c[1], orch, nav)
    /\ loaded => \E i \in Step : Kind[i] = "load" /\ nav[<<i, 0>>] # "NONE"

Live == {"RUNNING", "ADVANCING", "CANCEL_REQUESTED"}

Fresh ==
    /\ orch = NoOrch
    /\ mail = {}
    /\ \A c \in Command : nav[c] = "NONE"
    /\ ~loaded

\* The task row agrees with the floor.  The record of a failed order may be
\* brought back to life, but then its current step is over for good.
EndsGo ==
    /\ task = "ASSIGNED" => Fresh
    /\ task \in {"ASSIGNED", "RUNNING"} => robot = "BUSY" /\ applied = 0
    /\ Ended => robot = "IDLE" /\ applied = IF task = "DONE" THEN 1 ELSE 0
    /\ task \in {"FAILED", "CANCELLED"} =>
          /\ ~DeliveredIn(nav)
          /\ nav[<<orch.idx, 0>>] \notin {"NONE", "ACTIVE"}
          /\ orch.idx < Drop => orch.phase \notin Live
    /\ task = "CANCELLED" => orch.idx < Drop /\ ~loaded

OrderGoes ==
    /\ RecordGoes(orch, nav)
    /\ \A w \in Worker : JobGoes(job[w], orch, nav)
    /\ WorldGoes
    /\ EndsGo

WorkInv == OrderInv /\ StartInv /\ OrderGoes

-----------------------------------------------------------------------------
(* What the invariant says of the floor.                                   *)

\* The cursor is beyond the delivery only when the goods are delivered.
LEMMA NotBeyond ==
    ASSUME NEW n, NEW o \in Orch, RecordKnows(o, n), ~DeliveredIn(n)
    PROVE  o.idx <= Drop /\ o.idx \in Step
<1>1. Drop \in Nat /\ o.idx \in Nat /\ o.idx >= 1 /\ Drop <= N /\ Drop \in Step
  BY OneDelivery, OrchestratorAssumption DEF Orch, Step
<1>2. ~(Drop < o.idx)
  BY <1>1, OneDelivery, DropDelivers DEF RecordKnows, Carried, Transfers
<1> QED
  BY <1>1, <1>2, OrchestratorAssumption DEF Step

\* The record of a delivered order is at the delivery or beyond.
LEMMA DeliveredReached == WorkInv /\ DeliveredIn(nav) => orch.idx >= Drop
<1> SUFFICES ASSUME WorkInv, DeliveredIn(nav) PROVE orch.idx >= Drop
  OBVIOUS
<1>1. nav[<<Drop, 0>>] # "NONE" /\ <<Drop, 0>> \in Command
  BY DropDelivers, OneDelivery, FirstCommand
<1>2. Reached(Drop, orch, nav)
  BY <1>1 DEF WorkInv, OrderGoes, WorldGoes
<1>3. Drop \in Nat /\ orch.idx \in Nat
  BY OneDelivery, OrchestratorAssumption
     DEF Step, WorkInv, OrderInv, TypeInv, TypeOK, Orch
<1> QED
  BY <1>2, <1>3 DEF Reached

\* Before the delivery Nav runs the command of the current step; the work of
\* the order is then over.
LEMMA ActiveIsCurrent ==
    ASSUME WorkInv, NEW c \in Active
    PROVE  /\ c[1] \in Step /\ c = <<c[1], 0>>
           /\ ~DeliveredIn(nav) => c[1] = orch.idx
           /\ c[1] <= Drop => ~DeliveredIn(nav)
<1>1. c \in Command /\ nav[c] = "ACTIVE"
  BY DEF Active
<1>2. c[2] = 0 /\ Reached(c[1], orch, nav)
  BY <1>1 DEF WorkInv, OrderGoes, WorldGoes
<1>3. c[1] \in Step /\ c = <<c[1], 0>>
  BY <1>1, <1>2, OrchestratorAssumption
<1>4. ~(c[1] < orch.idx)
  BY <1>1, <1>3 DEF WorkInv, OrderGoes, RecordGoes, Over
<1>5. c[1] \in Nat /\ orch.idx \in Nat /\ Drop \in Nat
  BY <1>3, OneDelivery, OrchestratorAssumption
     DEF Step, WorkInv, OrderInv, TypeInv, TypeOK, Orch
<1>6. ~DeliveredIn(nav) => c[1] = orch.idx
  BY <1>2, <1>4, <1>5 DEF Reached
<1>7. ASSUME c[1] <= Drop, DeliveredIn(nav)
      PROVE  FALSE
  <2>1. orch.idx >= Drop
    BY <1>7, DeliveredReached
  <2>2. c[1] = Drop
    BY <1>4, <1>5, <1>7, <2>1
  <2> QED
    BY <1>1, <1>3, <1>7, <2>2, DropDelivers
<1> QED
  BY <1>3, <1>6, <1>7

\* The transfers are work of the order.
LEMMA TransferIsWork ==
    ASSUME NEW i \in Step, Kind[i] \in Transfers
    PROVE  i <= Drop
<1>1. i \in Nat /\ Drop \in Nat
  BY OneDelivery, OrchestratorAssumption DEF Step
<1>2. ~(i > Drop)
  BY OneDelivery DEF Transfers, MoveKinds
<1> QED
  BY <1>1, <1>2

\* Nav runs nothing of a failed or cancelled order.
LEMMA FailedIsStill == WorkInv /\ task \in {"FAILED", "CANCELLED"} => Active = {}
<1> SUFFICES ASSUME WorkInv, task \in {"FAILED", "CANCELLED"}, NEW c \in Active
             PROVE  FALSE
  BY DEF Active
<1>1. ~DeliveredIn(nav) /\ nav[<<orch.idx, 0>>] # "ACTIVE"
  BY DEF WorkInv, OrderGoes, EndsGo
<1>2. c = <<orch.idx, 0>> /\ nav[c] = "ACTIVE"
  BY <1>1, ActiveIsCurrent DEF Active
<1> QED
  BY <1>1, <1>2

-----------------------------------------------------------------------------
(* What goes stays.                                                        *)

\* From record o to record p the cursor does not go back before the delivery.
Onward(o, p, m) == o.idx <= p.idx \/ (DeliveredIn(m) /\ Drop <= p.idx)

LEMMA RecordGoesLater ==
    ASSUME NEW n, NEW m, Later(n, m), NEW o, RecordGoes(o, n)
    PROVE  RecordGoes(o, m)
  BY FirstCommand DEF RecordGoes, Later

LEMMA ReachedLater ==
    ASSUME NEW n, NEW m, Later(n, m), NEW o \in Orch, NEW p \in Orch,
           Onward(o, p, m), NEW k \in Step, Reached(k, o, n)
    PROVE  Reached(k, p, m)
<1>1. k \in Nat /\ o.idx \in Nat /\ p.idx \in Nat /\ Drop \in Nat
  BY OneDelivery, OrchestratorAssumption DEF Step, Orch
<1>2. DeliveredIn(n) => DeliveredIn(m)
  BY CarriedLater
<1> QED
  BY <1>1, <1>2 DEF Reached, Onward

LEMMA JobGoesLater ==
    ASSUME NEW n, NEW m, Later(n, m), NEW o \in Orch, NEW p \in Orch,
           Onward(o, p, m), NEW j, JobGoes(j, o, n)
    PROVE  JobGoes(j, p, m)
<1>1. RecordGoes(j.snap, m)
  BY RecordGoesLater DEF JobGoes
<1>2. j.cmd \in Command => Reached(j.cmd[1], p, m)
  <2> SUFFICES ASSUME j.cmd \in Command PROVE Reached(j.cmd[1], p, m)
    OBVIOUS
  <2>1. j.cmd[1] \in Step
    BY OrchestratorAssumption
  <2> QED
    BY <2>1, ReachedLater DEF JobGoes
<1>3. j.at = "gate" => p.idx >= Drop
  <2>1. o.idx \in Nat /\ p.idx \in Nat /\ Drop \in Nat
    BY OneDelivery, OrchestratorAssumption DEF Step, Orch
  <2> QED
    BY <2>1 DEF JobGoes, Onward
<1> QED
  BY <1>1, <1>2, <1>3 DEF JobGoes

LEMMA MarksGo ==
    ASSUME NEW n, NEW o \in Orch, NEW p \in Orch, RecordGoes(o, n),
           Marks(o, p), NoNewGate(o, p)
    PROVE  RecordGoes(p, n)
<1>1. \A i \in Step : i < o.idx => i # o.idx
  BY OrchestratorAssumption DEF Step, Orch
<1>2. \A i \in Step : i < p.idx => n[<<i, 0>>] \in Over /\ p.st[i] = "DONE"
  BY <1>1 DEF RecordGoes, Marks
<1>3. o.idx \in Nat
  BY OrchestratorAssumption DEF Orch
<1>4. \A i \in Step : p.st[i] = "DONE" => i <= p.idx
  BY <1>3 DEF RecordGoes, Marks
<1>5. p.phase = "CANCEL_REQUESTED" => p.stop.cmd = CommandOf(p)
  BY DEF RecordGoes, Marks, CommandOf
<1> QED
  BY <1>2, <1>4, <1>5 DEF RecordGoes, Marks, NoNewGate

LEMMA FreshGoes ==
    ASSUME NEW n, NEW o
    PROVE  /\ RecordGoes(NewOrch, n) /\ RecordGoes(NoOrch, n)
           /\ JobGoes(NoJob, o, n)
<1>1. 1 <= Drop /\ \A i \in Step : ~(i < 1)
  BY OneDelivery, OrchestratorAssumption DEF Step
<1>2. StopGoes(NoStop)
  BY NavAssumption DEF StopGoes, NoStop
<1>3. ~(1 > Drop)
  BY OneDelivery, OrchestratorAssumption DEF Step
<1>4. RecordGoes(NewOrch, n)
  BY <1>1, <1>2, <1>3 DEF RecordGoes, NewOrch, NoRecovery
<1>5. /\ NoOrch.gen = NewOrch.gen /\ NoOrch.appr = NewOrch.appr
      /\ NoOrch.rec = NewOrch.rec /\ NoOrch.idx = NewOrch.idx
      /\ NoOrch.st = NewOrch.st /\ NoOrch.biz = NewOrch.biz
      /\ NoOrch.stop = NewOrch.stop /\ NoOrch.phase = "NONE"
  BY NewOrchTyped DEF NoOrch, NewOrch
<1>6. RecordGoes(NoOrch, n)
  BY <1>4, <1>5 DEF RecordGoes
<1>7. JobGoes(NoJob, o, n)
  BY <1>2, <1>6, NavAssumption DEF JobGoes, NoJob
<1> QED
  BY <1>4, <1>6, <1>7

\* The current command of a record that goes.
LEMMA CurrentGoes ==
    ASSUME NEW n, NEW o \in Orch, InPlan(o), RecordGoes(o, n)
    PROVE  /\ CommandOf(o) \in Command /\ CommandOf(o) = <<o.idx, 0>>
           /\ o.idx \in Step /\ Reached(o.idx, o, n)
<1>1. o.idx \in Step /\ CommandOf(o) \in Command
  BY InPlanStep
<1>2. o.idx <= o.idx
  BY <1>1, OrchestratorAssumption DEF Step
<1> QED
  BY <1>1, <1>2 DEF CommandOf, RecordGoes, Reached

-----------------------------------------------------------------------------
(* The kinds of steps.                                                     *)

\* A callback or a poll is looked at.
Hear(w) ==
    /\ SameTask /\ nav' = nav /\ loaded' = loaded /\ mail' \subseteq mail
    /\ UNCHANGED orch
    /\ \/ UNCHANGED job
       \/ /\ InPlan(orch)
          /\ \E e : job' = [job EXCEPT ![w] =
                 [NoJob EXCEPT !.at = "claim", !.cmd = CommandOf(orch), !.ev = e,
                               !.stopping = (orch.phase = "CANCEL_REQUESTED"),
                               !.stop = orch.stop]]

\* The evidence gate is asked about the unload.
Ask(w) ==
    /\ SameTask /\ SameWorld /\ UNCHANGED orch
    /\ InPlan(orch) /\ Kind[orch.idx] = "unload"
    /\ job' = [job EXCEPT ![w] = [NoJob EXCEPT !.at = "gate", !.snap = orch]]

\* The stop of the current command is persisted.
PersistStop(w) ==
    /\ RequestStop(w)
    /\ CommandIsActive /\ StopCommand(w) /\ orch' # orch

WinClaim(w) == Claim(w) /\ Claimable(job[w].cmd)

Loud(w) ==
    \/ StartTask(w) \/ Hear(w) \/ WinClaim(w) \/ SettleSteps(w)
    \/ SettleAdvance(w) \/ Ask(w) \/ GatePass(w) \/ PersistStop(w)

\* An observation is looked at.
LEMMA HearShape ==
    ASSUME NEW w \in Worker,
           (\E m \in mail : Callback(w, m))
             \/ (w = Poller /\ \E c \in Command : Poll(c))
    PROVE  Hear(w)
<1>1. ASSUME NEW m \in mail, Callback(w, m)
      PROVE  Hear(w)
  <2>1. /\ SameTask /\ nav' = nav /\ loaded' = loaded /\ mail' \subseteq mail
        /\ UNCHANGED orch
    BY <1>1 DEF Callback
  <2>2. \/ UNCHANGED job
        \/ InPlan(orch) /\ m.cmd = CommandOf(orch) /\ Observe(w, m.cmd, m.ev)
    BY <1>1 DEF Callback, Observable
  <2> QED
    BY <2>1, <2>2 DEF Hear, Observe
<1>2. ASSUME NEW c \in Command, w = Poller, Poll(c)
      PROVE  Hear(w)
  <2>1. /\ SameTask /\ nav' = nav /\ loaded' = loaded /\ mail' \subseteq mail
        /\ UNCHANGED orch
    BY <1>2 DEF Poll, SameWorld, navVars
  <2>2. InPlan(orch) /\ c = CommandOf(orch) /\ Observe(w, c, Reported(c))
    BY <1>2 DEF Poll, Observable
  <2> QED
    BY <2>1, <2>2 DEF Hear, Observe
<1> QED
  BY <1>1, <1>2

\* While the service approves, the gate holds nothing.
LEMMA BeginGoes ==
    ASSUME WorkInv, NEW w \in Worker, BeginDispatch(w), SameTask, SameWorld
    PROVE  Quiet(w) \/ Ask(w)
<1>1. TypeInv /\ orch.appr # "hold"
  BY DEF WorkInv, OrderInv, OrderGoes, RecordGoes
<1> QED
  BY <1>1, BeginShape DEF Ask

\* Every step is quiet, a crash, or one of the loud ones.
LEMMA StepShape ==
    ASSUME WorkInv, Approved, [Next]_vars
    PROVE  (\E w \in Worker : Quiet(w) \/ Loud(w)) \/ Crash
<1>1. TypeInv /\ OrderInv
  BY DEF WorkInv, OrderInv
<1>2. \A w \in Worker : job[w].at # "regate"
  BY DEF WorkInv, OrderGoes, JobGoes
<1>3. ASSUME NEW w \in Worker, BeginStart(w) \/ Continue(w) \/ Break(w)
      PROVE  Quiet(w) \/ Loud(w)
  <2>1. CASE Advance(w)
    <3>1. Claim(w) /\ ~Claimable(job[w].cmd) => Quiet(w)
      BY IdleQuiet, SameWorldMoves DEF Claim, PlainJob
    <3> QED
      BY <1>1, <2>1, <3>1, MarkQuiet DEF Advance, SettleSteps, WinClaim, Loud
  <2>2. CASE Dispatch(w)
    BY <1>1, <2>2, BeginGoes, CallQuiet, MarkQuiet
       DEF Dispatch, DispatchNext, GateHold, Approved, Loud
  <2>3. CASE Stop(w) \/ SendEstop(w)
    BY <1>1, <2>3, CallQuiet, MarkQuiet DEF Stop
  <2>4. CASE RetryHold(w) \/ RetryPass(w)
    BY <1>2, <2>4 DEF RetryHold, RetryPass, Doing
  <2>5. CASE Break(w)
    BY <1>1, <2>5, CallQuiet, MarkQuiet DEF Break
  <2>6. CASE BeginStart(w) \/ StartTask(w) \/ RefuseStart(w)
    BY <1>1, <2>6, StartQuiet DEF Loud
  <2> QED
    BY <1>3, <2>1, <2>2, <2>3, <2>4, <2>5, <2>6 DEF Continue
<1>4. ASSUME NEW w \in Worker \ {Poller}, Request(w)
      PROVE  Quiet(w) \/ Loud(w)
  <2>1. ~BeginRetry(w)
    BY DEF BeginRetry, WorkInv, OrderGoes, RecordGoes
  <2>2. CASE RequestStop(w)
    BY <1>1, <2>2, StopQuiet DEF PersistStop, Loud
  <2> QED
    BY <1>1, <1>4, <2>1, <2>2, HearShape, MarkQuiet DEF Request, Loud
<1>5. CASE PollOnce
  BY <1>5, OrchestratorAssumption, BeginGoes, HearShape
     DEF PollOnce, PollDispatch, Loud
<1>6. CASE \/ \E c \in Command : NavStep(c) \/ NavGateTimeout(c)
           \/ OperatorClearEstop \/ Restart \/ UNCHANGED vars
  BY <1>1, <1>6, OrchestratorAssumption, WorldQuiet
<1> QED
  BY <1>3, <1>4, <1>5, <1>6 DEF Next

-----------------------------------------------------------------------------
(* Quiet steps.                                                            *)

\* A plain job goes where its thread did.
LEMMA PlainGoes ==
    ASSUME TypeInv, TypeInv', NEW w \in Worker, PlainJob(w), NEW n,
           RecordGoes(orch', n), \A v \in Worker : JobGoes(job[v], orch', n),
           NEW v \in Worker
    PROVE  JobGoes(job'[v], orch', n)
<1>1. job \in [Worker -> Job] /\ NoJob \in Job /\ orch' \in Orch
  BY NoJobTyped DEF TypeInv, TypeOK, JobsOK
<1>2. CASE UNCHANGED job
  BY <1>2
<1>3. CASE Finish(w)
  BY <1>1, <1>3, FreshGoes DEF Finish
<1>4. ASSUME NEW a \in PlainAt \ {"cancel", "recancel"}, Goto(w, a)
      PROVE  JobGoes(job'[v], orch', n)
  <2>1. job' = [job EXCEPT ![w] = [job[w] EXCEPT !.at = a]]
    BY <1>4 DEF Goto
  <2>2. JobGoes([job[w] EXCEPT !.at = a], orch', n)
    BY <1>1, <1>4 DEF JobGoes, Job, PlainAt
  <2> QED
    BY <1>1, <2>1, <2>2
<1>5. ASSUME InPlan(orch'), NEW a \in PlainAt, NEW j \in {NoJob, job[w]},
             job' = [job EXCEPT ![w] =
                        [j EXCEPT !.at = a, !.cmd = CommandOf(orch')]]
      PROVE  JobGoes(job'[v], orch', n)
  <2> DEFINE c == CommandOf(orch')
  <2>1. c[2] = 0 /\ Reached(c[1], orch', n)
    BY <1>1, <1>5, CurrentGoes
  <2>2. j \in Job /\ JobGoes(j, orch', n)
    BY <1>1, FreshGoes
  <2> HIDE DEF c
  <2>3. JobGoes([j EXCEPT !.at = a, !.cmd = c], orch', n)
    BY <2>1, <2>2 DEF JobGoes, Job, PlainAt
  <2> QED
    BY <1>1, <1>5, <2>3 DEF c
<1> QED
  BY <1>2, <1>3, <1>4, <1>5 DEF PlainJob

\* When Nav moves, it knows commands that were reached, and the forks are
\* loaded by a load, or by an unload after it.
LEMMA WorldMoves ==
    ASSUME WorkInv, TypeInv', NavMove, Onward(orch, orch', nav')
    PROVE  WorldGoes'
<1>1. Later(nav, nav') /\ orch \in Orch /\ orch' \in Orch
  BY DEF NavMove, WorkInv, OrderInv, TypeInv, TypeOK
<1>2. ASSUME NEW c \in Command, nav'[c] # "NONE"
      PROVE  c[2] = 0 /\ Reached(c[1], orch', nav')
  <2>1. c[2] = 0 /\ Reached(c[1], orch, nav)
    BY <1>2 DEF NavMove, WorkInv, OrderGoes, WorldGoes, JobGoes
  <2>2. c[1] \in Step
    BY OrchestratorAssumption
  <2> QED
    BY <1>1, <2>1, <2>2, ReachedLater
<1>3. ASSUME loaded'
      PROVE  \E i \in Step : Kind[i] = "load" /\ nav'[<<i, 0>>] # "NONE"
  <2> SUFFICES \E i \in Step : Kind[i] = "load" /\ nav[<<i, 0>>] # "NONE"
    BY <1>1, FirstCommand DEF Later
  <2>1. CASE loaded
    BY <2>1 DEF WorkInv, OrderGoes, WorldGoes
  <2>2. CASE ~loaded
    <3>1. PICK c \in Active : Kind[c[1]] \in Transfers
      BY <1>3, <2>2 DEF NavMove
    <3>2. c[1] \in Step /\ c = <<c[1], 0>> /\ nav[c] = "ACTIVE"
      BY <3>1, ActiveIsCurrent DEF Active
    <3>3. CASE Kind[c[1]] = "load"
      BY <3>2, <3>3
    <3>4. CASE Kind[c[1]] = "unload"
      <4>1. c[1] = Drop /\ Carried(c[1], nav)
        BY <3>1, <3>2, <3>4, OneDelivery DEF WorkInv, OrderInv, OrderKnows
      <4>2. PICK i \in Step : i < Drop /\ Kind[i] = "load"
        BY OneDelivery
      <4>3. nav[<<i, 0>>] = "DONE"
        BY <4>1, <4>2 DEF Carried, Transfers
      <4> QED
        BY <4>2, <4>3
    <3> QED
      BY <3>1, <3>3, <3>4 DEF Transfers
  <2> QED
    BY <2>1, <2>2
<1> QED
  BY <1>2, <1>3 DEF WorldGoes

\* While the task row stands, it agrees with the floor, as long as the record
\* of a failed order stays where it is.
LEMMA EndsStay ==
    ASSUME WorkInv, task = "ASSIGNED" => Fresh', SameTask, NavMove,
           task \in {"FAILED", "CANCELLED"} =>
               /\ orch'.idx = orch.idx
               /\ orch.idx < Drop => orch'.phase \notin Live
    PROVE  EndsGo'
<1>1. EndsGo /\ task' = task /\ robot' = robot /\ applied' = applied
  BY DEF WorkInv, OrderGoes, SameTask
<1>2. ASSUME task \in {"FAILED", "CANCELLED"}
      PROVE  /\ ~DeliveredIn(nav')
             /\ nav'[<<orch'.idx, 0>>] \notin {"NONE", "ACTIVE"}
             /\ loaded' = loaded
  <2>1. Active = {} /\ ~DeliveredIn(nav) /\ nav[<<orch.idx, 0>>] # "NONE"
    BY <1>1, <1>2, FailedIsStill DEF EndsGo
  <2>2. <<Drop, 0>> \in Command /\ nav[<<Drop, 0>>] \notin {"DONE", "ACTIVE"}
    BY <2>1, DropDelivers, OneDelivery, FirstCommand DEF Active
  <2>3. ~DeliveredIn(nav')
    BY <2>2, DropDelivers DEF NavMove
  <2>4. <<orch.idx, 0>> \in Command
    BY <2>1, NotBeyond, FirstCommand
       DEF WorkInv, OrderInv, OrderKnows, TypeInv, TypeOK
  <2>5. /\ nav[<<orch.idx, 0>>] \in NavState
        /\ nav[<<orch.idx, 0>>] # "ACTIVE"
    BY <2>1, <2>4
       DEF Active, WorkInv, OrderInv, TypeInv, TypeOK, NavTypeOK
  <2>6. nav'[<<orch.idx, 0>>] \notin {"NONE", "ACTIVE"}
    BY <2>1, <2>4, <2>5 DEF NavMove, Later, Over, Bad, NavState
  <2>7. loaded' = loaded
    BY <2>1 DEF NavMove
  <2> QED
    BY <1>2, <2>3, <2>6, <2>7
<1>3. task' = "CANCELLED" => orch'.idx < Drop /\ ~loaded'
  BY <1>1, <1>2 DEF EndsGo
<1>4. task' \in {"FAILED", "CANCELLED"} => (orch'.idx < Drop => orch'.phase \notin Live)
  BY <1>1
<1> QED
  BY <1>1, <1>2, <1>3, <1>4 DEF EndsGo, Ended

\* A quiet step keeps the order going.
LEMMA QuietGoes ==
    ASSUME WorkInv, TypeInv', task = "ASSIGNED" => Fresh', NEW w \in Worker, Quiet(w)
    PROVE  OrderGoes'
<1>1. /\ Later(nav, nav') /\ TypeInv /\ orch \in Orch /\ orch' \in Orch
      /\ RecordGoes(orch, nav) /\ Marks(orch, orch') /\ NoNewGate(orch, orch')
  BY DEF Quiet, NavMove, WorkInv, OrderInv, TypeInv, TypeOK, OrderGoes
<1>2. RecordGoes(orch', nav')
  BY <1>1, MarksGo, RecordGoesLater
<1>3. Onward(orch, orch', nav')
  BY <1>1, OrchestratorAssumption DEF Onward, Marks, Orch
<1>4. ASSUME NEW v \in Worker
      PROVE  JobGoes(job[v], orch', nav')
  BY <1>1, <1>3, JobGoesLater DEF WorkInv, OrderGoes
<1>5. \A v \in Worker : JobGoes(job'[v], orch', nav')
  BY <1>1, <1>2, <1>4, PlainGoes DEF Quiet
<1>6. WorldGoes'
  BY <1>3, WorldMoves DEF Quiet
<1>7. task \in {"FAILED", "CANCELLED"} =>
          /\ orch'.idx = orch.idx
          /\ orch.idx < Drop => orch'.phase \notin Live
  BY DEF Quiet, Marks, WorkInv, OrderGoes, EndsGo, Live
<1>8. EndsGo'
  BY <1>7, EndsStay DEF Quiet
<1> QED
  BY <1>2, <1>5, <1>6, <1>8 DEF OrderGoes

-----------------------------------------------------------------------------
(* Loud steps.                                                             *)

\* They leave Nav and the pallet alone.
LEMMA StillMoves ==
    ASSUME nav' = nav, loaded' = loaded, mail' \subseteq mail
    PROVE  NavMove /\ Later(nav, nav)
  BY DEF NavMove, Later

LEMMA LoudIsStill ==
    ASSUME WorkInv, NEW w \in Worker, Loud(w)
    PROVE  nav' = nav /\ loaded' = loaded /\ mail' \subseteq mail
<1>1. SettleSteps(w) => SameWorld
  BY SettleMarks DEF WorkInv
<1> QED
  BY <1>1
     DEF Loud, StartTask, Hear, WinClaim, Claim, SettleAdvance, Settle, Ask,
         GatePass, PersistStop, RequestStop, SameWorld, navVars

\* A thread's step keeps the order going when its record and its job go.
LEMMA ThreadGoes ==
    ASSUME WorkInv, TypeInv', NEW w \in Worker, Loud(w), NEW j,
           JobGoes(j, orch', nav), job' = [job EXCEPT ![w] = j],
           RecordGoes(orch', nav), Onward(orch, orch', nav), EndsGo'
    PROVE  OrderGoes'
<1>1. nav' = nav /\ NavMove /\ Later(nav, nav) /\ orch \in Orch /\ orch' \in Orch
  BY LoudIsStill, StillMoves DEF WorkInv, OrderInv, TypeInv, TypeOK
<1>2. ASSUME NEW v \in Worker
      PROVE  JobGoes(job'[v], orch', nav')
  <2>1. JobGoes(job[v], orch', nav)
    BY <1>1, JobGoesLater DEF WorkInv, OrderGoes
  <2> QED
    BY <1>1, <2>1 DEF WorkInv, OrderInv, TypeInv, JobsOK
<1>3. WorldGoes'
  BY <1>1, WorldMoves
<1> QED
  BY <1>1, <1>2, <1>3 DEF OrderGoes

\* The start of an order that nobody has touched.
LEMMA StartGoes ==
    ASSUME WorkInv, TypeInv', NEW w \in Worker, StartTask(w)
    PROVE  OrderGoes'
<1> DEFINE o == SetStatus(NewOrch, "dispatching")
           j == [NoJob EXCEPT !.at = "send", !.cmd = CommandOf(o)]
<1>1. o \in Orch /\ InPlan(o) /\ Marks(NewOrch, o) /\ NoNewGate(NewOrch, o)
  BY NewOrchTyped, SetStatusTyped, MarksStatus
     DEF StepStatus, InPlan, NoNewGate, InHold
<1>2. orch' = o /\ job' = [job EXCEPT ![w] = j] /\ task' = "RUNNING"
  BY DEF StartTask
<1>3. Fresh /\ applied = 0
  BY DEF StartTask, Doing, WorkInv, StartInv, OrderGoes, EndsGo
<1> HIDE DEF o
<1>4. RecordGoes(o, nav)
  BY <1>1, NewOrchTyped, FreshGoes, MarksGo
<1>5. CommandOf(o)[2] = 0 /\ Reached(CommandOf(o)[1], o, nav)
  BY <1>1, <1>4, CurrentGoes
<1>6. JobGoes(j, o, nav)
  <2>1. /\ j.snap = NoJob.snap /\ j.stop = NoJob.stop /\ j.at = "send"
        /\ j.cmd = CommandOf(o)
    BY NoJobTyped DEF Job
  <2>2. JobGoes(NoJob, o, nav)
    BY FreshGoes
  <2> HIDE DEF j
  <2> QED
    BY <1>5, <2>1, <2>2 DEF JobGoes
<1>7. Onward(orch, o, nav)
  <2>1. orch.idx = 1 /\ o.idx = 1
    BY <1>1, <1>3 DEF Fresh, NoOrch, NewOrch, Marks
  <2> QED
    BY <2>1 DEF Onward
<1>8. EndsGo'
  BY <1>2, <1>3 DEF EndsGo, Ended, StartTask
<1>9. Loud(w)
  BY DEF Loud
<1> HIDE DEF j
<1> QED
  BY <1>2, <1>4, <1>6, <1>7, <1>8, <1>9, ThreadGoes

\* An observation remembers the stop it may have to apply.
LEMMA HearGoes ==
    ASSUME WorkInv, TypeInv', task # "ASSIGNED", NEW w \in Worker, Hear(w)
    PROVE  OrderGoes'
<1>1. /\ orch' = orch /\ nav' = nav /\ loaded' = loaded /\ NavMove /\ Loud(w)
      /\ orch \in Orch /\ RecordGoes(orch, nav) /\ SameTask
  BY StillMoves
     DEF Hear, Loud, WorkInv, OrderInv, TypeInv, TypeOK, OrderGoes
<1>2. Onward(orch, orch', nav)
  BY <1>1, OrchestratorAssumption DEF Onward, Orch
<1>3. EndsGo'
  BY <1>1, EndsStay DEF WorkInv, OrderGoes, EndsGo
<1>4. CASE UNCHANGED job
  <2>1. WorldGoes'
    BY <1>1, <1>2, WorldMoves
  <2> QED
    BY <1>1, <1>3, <1>4, <2>1 DEF WorkInv, OrderGoes
<1>5. ASSUME InPlan(orch), NEW e,
             job' = [job EXCEPT ![w] =
                 [NoJob EXCEPT !.at = "claim", !.cmd = CommandOf(orch), !.ev = e,
                               !.stopping = (orch.phase = "CANCEL_REQUESTED"),
                               !.stop = orch.stop]]
      PROVE  OrderGoes'
  <2> DEFINE c == CommandOf(orch)
             j == [NoJob EXCEPT !.at = "claim", !.cmd = c, !.ev = e,
                                !.stopping = (orch.phase = "CANCEL_REQUESTED"),
                                !.stop = orch.stop]
  <2>1. c[2] = 0 /\ Reached(c[1], orch, nav)
    BY <1>1, <1>5, CurrentGoes
  <2>2. /\ j.at = "claim" /\ j.snap = NoJob.snap /\ j.cmd = c
        /\ j.stop = orch.stop /\ j.stopping = (orch.phase = "CANCEL_REQUESTED")
    BY NoJobTyped DEF Job
  <2>3. RecordGoes(NoJob.snap, nav)
    BY FreshGoes DEF JobGoes
  <2>4. job' = [job EXCEPT ![w] = j]
    BY <1>5
  <2>5. StopGoes(orch.stop) /\ (orch.phase = "CANCEL_REQUESTED" => orch.stop.cmd = c)
    BY <1>1 DEF RecordGoes
  <2> HIDE DEF c, j
  <2>6. JobGoes(j, orch', nav)
    BY <1>1, <2>1, <2>2, <2>3, <2>5 DEF JobGoes
  <2> QED
    BY <1>1, <1>2, <1>3, <2>4, <2>6, ThreadGoes
<1> QED
  BY <1>4, <1>5 DEF Hear

\* A claim.
LEMMA ClaimGoes ==
    ASSUME WorkInv, TypeInv', task # "ASSIGNED", NEW w \in Worker, WinClaim(w)
    PROVE  OrderGoes'
<1> DEFINE o == [orch EXCEPT !.phase = "ADVANCING",
                             !.st[orch.idx] = "transition_claimed",
                             !.tid = TransitionOf(w)]
           j == [job[w] EXCEPT !.at = "claimed", !.snap = o]
<1>1. /\ orch \in Orch /\ job[w] \in Job /\ job \in [Worker -> Job]
      /\ RecordGoes(orch, nav) /\ JobGoes(job[w], orch, nav) /\ EndsGo
      /\ orch' \in Orch /\ Loud(w)
  BY DEF WorkInv, OrderInv, TypeInv, TypeOK, JobsOK, OrderGoes, Loud
<1>2. Marks(orch, o) /\ NoNewGate(orch, o)
  BY <1>1 DEF Marks, NoNewGate, InHold, Orch
<1>3. /\ orch' = o /\ job' = [job EXCEPT ![w] = j] /\ job[w].at = "claim"
      /\ SameTask /\ SameWorld
  BY <1>1 DEF WinClaim, Claim, Doing, Job
<1>4. /\ j.at = "claimed" /\ j.snap = o /\ j.cmd = job[w].cmd
      /\ j.stop = job[w].stop /\ j.stopping = job[w].stopping
  BY <1>1 DEF Job
<1>5. orch.phase \in Live
  BY DEF WinClaim, Claimable, Live
<1> HIDE DEF o, j
<1>6. RecordGoes(o, nav)
  BY <1>1, <1>2, <1>3, MarksGo
<1>7. o.idx = orch.idx
  BY <1>2 DEF Marks
<1>8. JobGoes(j, o, nav)
  BY <1>1, <1>3, <1>4, <1>6, <1>7 DEF JobGoes, Reached
<1>9. Onward(orch, o, nav)
  BY <1>1, <1>7, OrchestratorAssumption DEF Onward, Orch
<1>10. EndsGo'
  BY <1>1, <1>3, <1>5, <1>7, SameWorldMoves, EndsStay DEF EndsGo
<1> QED
  BY <1>1, <1>3, <1>6, <1>8, <1>9, <1>10, ThreadGoes

\* The gate is asked.
LEMMA AskGoes ==
    ASSUME WorkInv, TypeInv', task # "ASSIGNED", NEW w \in Worker, Ask(w)
    PROVE  OrderGoes'
<1> DEFINE j == [NoJob EXCEPT !.at = "gate", !.snap = orch]
<1>1. /\ orch' = orch /\ orch \in Orch /\ RecordGoes(orch, nav) /\ Loud(w)
      /\ SameTask /\ SameWorld /\ job' = [job EXCEPT ![w] = j] /\ EndsGo
  BY DEF Ask, Loud, WorkInv, OrderInv, TypeInv, TypeOK, OrderGoes
<1>2. orch.idx = Drop /\ orch.idx \in Nat
  BY <1>1, InPlanStep, OneDelivery, OrchestratorAssumption DEF Ask, Step
<1>3. /\ j.at = "gate" /\ j.snap = orch /\ j.cmd = NoJob.cmd
      /\ j.stop = NoJob.stop
  BY NoJobTyped DEF Job
<1>4. JobGoes(NoJob, orch, nav)
  BY FreshGoes
<1> HIDE DEF j
<1>5. JobGoes(j, orch', nav)
  BY <1>1, <1>2, <1>3, <1>4 DEF JobGoes
<1>6. Onward(orch, orch', nav)
  BY <1>1, <1>2 DEF Onward
<1>7. EndsGo'
  BY <1>1, SameWorldMoves, EndsStay DEF EndsGo
<1> QED
  BY <1>1, <1>5, <1>6, <1>7, ThreadGoes

\* The verdict of the gate: after the delivery the record may go back to the
\* unload step, from the way home.
LEMMA GateGoes ==
    ASSUME WorkInv, TypeInv', task # "ASSIGNED", NEW w \in Worker, GatePass(w)
    PROVE  OrderGoes' /\ orch'.idx <= orch.idx
<1> DEFINE s == job[w].snap
           p == [s EXCEPT !.appr = "pass"]
           o == SetStatus(p, "dispatching")
           j == [NoJob EXCEPT !.at = "send", !.cmd = CommandOf(o)]
<1>1. /\ s \in Orch /\ RecordGoes(s, nav) /\ InPlan(s)
      /\ Kind[s.idx] = "unload" /\ orch.idx >= Drop
  BY DEF GatePass, Doing, WorkInv, OrderInv, OrderKnows, JobKnows, OrderGoes,
         JobGoes, TypeInv, JobsOK, SnapOK, Job
<1>2. p \in Orch /\ Marks(s, p) /\ p.phase = s.phase /\ p.rec = s.rec
  BY <1>1 DEF Orch, Marks
<1>3. /\ orch' = o /\ job' = [job EXCEPT ![w] = j] /\ SameTask /\ SameWorld
      /\ Loud(w) /\ orch \in Orch
  BY DEF GatePass, Loud, WorkInv, OrderInv, TypeInv, TypeOK
<1> HIDE DEF p
<1>4. o \in Orch /\ Marks(p, o) /\ o.phase = s.phase /\ o.rec = s.rec
  BY <1>2, SetStatusTyped, MarksStatus DEF StepStatus
<1>5. Marks(s, o) /\ NoNewGate(s, o)
  BY <1>2, <1>4, MarksTrans DEF NoNewGate, InHold
<1> HIDE DEF o
<1>6. RecordGoes(o, nav) /\ InPlan(o) /\ o.idx = s.idx
  BY <1>1, <1>4, <1>5, MarksGo DEF Marks, InPlan
<1>7. o.idx = Drop /\ Drop \in Nat /\ orch.idx \in Nat /\ Drop \in Step
  <2>1. s.idx \in Step
    BY <1>1, InPlanStep
  <2>2. s.idx = Drop /\ Drop \in Step
    BY <1>1, <2>1, OneDelivery
  <2>3. Drop \in Nat
    BY <2>2 DEF Step
  <2>4. orch.idx \in Nat
    BY <1>3 DEF Orch
  <2> QED
    BY <1>6, <2>2, <2>3, <2>4
<1>8. CommandOf(o)[2] = 0 /\ Reached(CommandOf(o)[1], o, nav)
  BY <1>4, <1>6, CurrentGoes
<1>9. JobGoes(j, o, nav)
  <2>1. /\ j.snap = NoJob.snap /\ j.stop = NoJob.stop /\ j.at = "send"
        /\ j.cmd = CommandOf(o)
    BY NoJobTyped DEF Job
  <2>2. JobGoes(NoJob, o, nav)
    BY FreshGoes
  <2> HIDE DEF j
  <2> QED
    BY <1>8, <2>1, <2>2 DEF JobGoes
<1>10. ~DeliveredIn(nav) => orch.idx = Drop
  <2>1. ~DeliveredIn(nav) => orch.idx <= Drop
    BY <1>3, NotBeyond DEF WorkInv, OrderInv, OrderKnows
  <2> QED
    BY <1>1, <1>7, <2>1
<1>11. Onward(orch, o, nav) /\ o.idx <= orch.idx
  BY <1>1, <1>7, <1>10 DEF Onward
<1>12. EndsGo'
  <2>1. task \in {"FAILED", "CANCELLED"} => orch.idx = Drop
    BY <1>10 DEF WorkInv, OrderGoes, EndsGo
  <2> QED
    BY <1>3, <1>7, <2>1, SameWorldMoves, EndsStay
<1> HIDE DEF j
<1> QED
  BY <1>3, <1>6, <1>9, <1>11, <1>12, ThreadGoes

\* What a winning thread knows of the order it finalizes a step of.
LEMMA WinningGoes ==
    ASSUME WorkInv, NEW w \in Worker, Winning(w)
    PROVE  /\ job[w].snap \in Orch /\ RecordGoes(job[w].snap, nav)
           /\ job[w].snap.idx = orch.idx /\ orch.idx \in Step
           /\ EventKnows(<<orch.idx, 0>>, job[w].ev, nav)
           /\ StopGoes(job[w].stop)
           /\ job[w].stopping => job[w].stop.cmd = <<orch.idx, 0>>
           /\ task \in {"RUNNING", "DONE", "FAILED"}
           /\ task = "FAILED" => ~(orch.idx < Drop)
           /\ task = "DONE" => DeliveredIn(nav)
<1> DEFINE s == job[w].snap
<1>1. /\ s \in Orch /\ s.idx \in Step /\ s.idx = orch.idx
      /\ job[w].cmd = CommandOf(s) /\ EventKnows(job[w].cmd, job[w].ev, nav)
  BY WinningKnows DEF WorkInv
<1>2. /\ JobGoes(job[w], orch, nav) /\ EndsGo /\ job[w].at = "claimed"
      /\ orch.phase \in Live
  BY DEF WorkInv, OrderGoes, Winning, Won, Doing, Live
<1>3. RecordGoes(s, nav) /\ CommandOf(s) = <<orch.idx, 0>>
  BY <1>1, <1>2 DEF JobGoes, RecordGoes, CommandOf
<1>4. task # "ASSIGNED"
  BY <1>2 DEF WorkInv, StartInv
<1>5. task \in TaskStatus /\ (task = "DONE" => DeliveredIn(nav))
  BY DEF WorkInv, OrderInv, OrderKnows, TypeInv, TypeOK
<1>6. task \in {"FAILED", "CANCELLED"} => ~(orch.idx < Drop)
  BY <1>2 DEF EndsGo
<1> QED
  BY <1>1, <1>2, <1>3, <1>4, <1>5, <1>6 DEF JobGoes, TaskStatus, EndsGo

\* A finalize that keeps the cursor fails or cancels the order only when the
\* current command is over and the goods are not delivered.
LEMMA SettleEnds ==
    ASSUME WorkInv, Approved, NEW w \in Worker, SettleSteps(w)
    PROVE  EndsGo'
<1> DEFINE s == job[w].snap
           e == job[w].ev
<1>1. /\ Winning(w) /\ SameWorld /\ orch'.idx = s.idx
      /\ orch'.phase \notin Live
  BY SettleMarks DEF WorkInv, Marks, Live
<1>2. /\ s \in Orch /\ RecordGoes(s, nav) /\ s.idx = orch.idx
      /\ EventKnows(<<orch.idx, 0>>, e, nav) /\ orch.idx \in Step
      /\ task \in {"RUNNING", "DONE", "FAILED"}
      /\ task = "FAILED" => ~(orch.idx < Drop)
      /\ task = "DONE" => DeliveredIn(nav)
  BY <1>1, WinningGoes
<1>3. EndsGo /\ nav' = nav /\ loaded' = loaded
  BY <1>1 DEF WorkInv, OrderGoes, SameWorld, navVars
<1>4. orch.idx \in Nat /\ Drop \in Nat
  BY <1>2, OneDelivery, OrchestratorAssumption DEF Step
<1>5. CASE SameTask
  BY <1>1, <1>2, <1>5, SameWorldMoves, EndsStay
<1>6. CASE Deliver
  BY <1>3, <1>6 DEF Deliver, EndsGo, Ended
<1>7. ASSUME e \in {"FAILED", "ABORTED", "ESTOP", "CANCELLED"}, orch.idx <= Drop
      PROVE  ~DeliveredIn(nav) /\ nav[<<orch.idx, 0>>] \in Bad
  <2>1. nav[<<orch.idx, 0>>] \in Bad
    BY <1>2, <1>7 DEF EventKnows, Event
  <2>2. CASE orch.idx = Drop
    BY <2>1, <2>2, DropDelivers DEF Bad
  <2>3. CASE orch.idx < Drop
    BY <1>4, <2>1, <2>3, DeliveredReached
  <2> QED
    BY <1>4, <1>7, <2>2, <2>3
<1>8. CASE SettleStopped(w) /\ Release("CANCELLED")
  <2>1. /\ job[w].stop.cmd = <<orch.idx, 0>> /\ ~job[w].stop.biz
        /\ job[w].stop.cargo = "EMPTY" /\ e \in {"ABORTED", "ESTOP", "CANCELLED"}
    BY <1>1, <1>8, WinningGoes DEF SettleStopped, Release, SameTask, Deliver
  <2>2. /\ Kind[orch.idx] \notin Transfers /\ ~(orch.idx > Drop)
        /\ \A i \in Step : i < orch.idx => Kind[i] # "load"
    BY <1>1, <1>2, <2>1, WinningGoes, FirstCommand DEF StopGoes
  <2>3. orch.idx < Drop
    BY <1>4, <2>2, OneDelivery DEF Transfers
  <2>4. ~DeliveredIn(nav) /\ nav[<<orch.idx, 0>>] \in Bad
    BY <1>4, <1>7, <2>1, <2>3
  <2>5. task = "RUNNING"
    BY <1>2, <2>3, <2>4
  <2>6. ~loaded
    <3> SUFFICES ASSUME NEW i \in Step, Kind[i] = "load",
                        nav[<<i, 0>>] # "NONE"
                 PROVE  FALSE
      BY DEF WorkInv, OrderGoes, WorldGoes
    <3>1. Reached(i, orch, nav)
      BY FirstCommand DEF WorkInv, OrderGoes, WorldGoes
    <3>2. i <= orch.idx /\ i \in Nat
      BY <2>4, <3>1, OrchestratorAssumption DEF Reached, Step
    <3> QED
      BY <1>4, <2>2, <3>2 DEF Transfers
  <2>7. task' = "CANCELLED" /\ robot' = "IDLE" /\ applied' = applied
    BY <1>8 DEF Release
  <2> QED
    BY <1>1, <1>2, <1>3, <2>3, <2>4, <2>5, <2>6, <2>7 DEF EndsGo, Ended, Bad
<1>9. CASE SettleFailed(w) /\ Release("FAILED") /\ ~SameTask
  <2>1. /\ e \in {"FAILED", "ABORTED"}
        /\ ~(s.biz /\ Kind[s.idx] \in MoveKinds \cup {"align"})
    BY <1>9 DEF SettleFailed, Release, SameTask, Deliver
  <2>2. ~(orch.idx > Drop)
    BY <1>2, <2>1, OneDelivery DEF RecordGoes
  <2>3. ~DeliveredIn(nav) /\ nav[<<orch.idx, 0>>] \in Bad
    BY <1>4, <1>7, <2>1, <2>2
  <2>4. task' = "FAILED" /\ robot' = "IDLE" /\ applied' = applied
    BY <1>9 DEF Release
  <2> QED
    BY <1>1, <1>2, <1>3, <2>3, <2>4 DEF EndsGo, Ended, Bad
<1> QED
  BY <1>5, <1>6, <1>8, <1>9
     DEF SettleSteps, SettleUnexpectedCancel, SettleCancelFailed,
         SettleStopped, SettleDoneDuringStop, SettleFailed, SettleLoadHeld

LEMMA SettleGoes ==
    ASSUME WorkInv, TypeInv', Approved, NEW w \in Worker, SettleSteps(w)
    PROVE  OrderGoes'
<1> DEFINE s == job[w].snap
<1>1. /\ Winning(w) /\ Finish(w) /\ SameWorld /\ Marks(s, orch')
      /\ NoNewGate(s, orch')
  BY SettleMarks DEF WorkInv, Approved, SettleLoadHeld
<1>2. s \in Orch /\ RecordGoes(s, nav) /\ s.idx = orch.idx /\ orch.idx \in Step
  BY <1>1, WinningGoes
<1>3. orch' \in Orch /\ RecordGoes(orch', nav)
  BY <1>1, <1>2, MarksGo DEF TypeInv, TypeOK
<1>4. Onward(orch, orch', nav)
  BY <1>1, <1>2, OrchestratorAssumption DEF Onward, Marks, Step
<1>5. JobGoes(NoJob, orch', nav) /\ job' = [job EXCEPT ![w] = NoJob] /\ Loud(w)
  BY <1>1, FreshGoes DEF Finish, Loud
<1> QED
  BY <1>3, <1>4, <1>5, SettleEnds, ThreadGoes

\* The cursor moves on past a step that is done.
LEMMA AdvancedGoes ==
    ASSUME NEW n, NEW s \in Orch, s.idx \in Step, RecordGoes(s, n),
           NEW e \in DoneEvents(s.idx), EventKnows(<<s.idx, 0>>, e, n),
           NEW chained \in BOOLEAN
    PROVE  RecordGoes(Advanced(s, chained), n)
<1> DEFINE o == Advanced(s, chained)
<1>1. /\ o.idx = s.idx + 1 /\ o.gen = s.gen /\ o.stop = s.stop
      /\ o.biz = (s.biz \/ Kind[s.idx] = "unload") /\ o.phase = "RUNNING"
      /\ o.appr = s.appr /\ o.rec = s.rec
      /\ o.st = [s.st EXCEPT ![s.idx] = "DONE"] /\ s.st \in [Step -> StepStatus]
  BY DEF Advanced, SetStatus, Orch
<1> HIDE DEF o
<1>2. s.idx \in Nat /\ Drop \in Nat
  BY OneDelivery, OrchestratorAssumption DEF Step
<1>3. n[<<s.idx, 0>>] \in Over
  BY DEF DoneEvents, EventKnows, Over
<1>4. ASSUME NEW i \in Step, i < o.idx
      PROVE  n[<<i, 0>>] \in Over /\ o.st[i] = "DONE"
  <2>1. i < s.idx \/ i = s.idx
    BY <1>1, <1>2, <1>4, OrchestratorAssumption DEF Step
  <2> QED
    BY <1>1, <1>3, <2>1 DEF RecordGoes
<1>5. ASSUME NEW i \in Step, o.st[i] = "DONE"
      PROVE  i <= o.idx
  <2>1. i = s.idx \/ s.st[i] = "DONE"
    BY <1>1, <1>5
  <2>2. i <= s.idx
    BY <1>2, <2>1 DEF RecordGoes
  <2> QED
    BY <1>1, <1>2, <2>2, OrchestratorAssumption DEF Step
<1>6. ASSUME o.idx > Drop
      PROVE  o.biz
  <2>1. s.idx > Drop \/ s.idx = Drop
    BY <1>1, <1>2, <1>6
  <2> QED
    BY <1>1, <2>1, OneDelivery DEF RecordGoes
<1>7. RecordGoes(o, n)
  BY <1>1, <1>4, <1>5, <1>6 DEF RecordGoes
<1> QED
  BY <1>7 DEF o

\* The finalize of a done step: the order goes on, or is booked.
LEMMA AdvanceGoes ==
    ASSUME WorkInv, TypeInv', NEW w \in Worker, SettleAdvance(w)
    PROVE  OrderGoes' /\ orch'.idx = orch.idx + 1
           /\ nav[CommandOf(orch)] \in Over
<1> DEFINE s == job[w].snap
           e == job[w].ev
<1>1. /\ s \in Orch /\ RecordGoes(s, nav) /\ s.idx = orch.idx
      /\ EventKnows(<<orch.idx, 0>>, e, nav) /\ orch.idx \in Step
      /\ task \in {"RUNNING", "DONE", "FAILED"}
      /\ task = "FAILED" => ~(orch.idx < Drop)
      /\ e \in DoneEvents(s.idx) /\ Loud(w)
  BY WinningGoes DEF SettleAdvance, Loud
<1>2. PICK chained \in BOOLEAN :
        \/ /\ orch' = Advanced(s, chained)
           /\ job' = [job EXCEPT ![w] = [NoJob EXCEPT !.at = "dispatch"]]
           /\ SameTask /\ SameWorld
        \/ /\ Settle(w, [Advanced(s, chained) EXCEPT !.phase = "DONE"])
           /\ Deliver
  BY DEF SettleAdvance
<1> DEFINE o == Advanced(s, chained)
           p == [o EXCEPT !.phase = "DONE"]
<1>3. RecordGoes(o, nav)
  BY <1>1, AdvancedGoes
<1>4. o \in Orch /\ o.idx = orch.idx + 1
  <2>1. o \in Orch
    BY <1>1, AdvancedTyped
  <2>2. o.idx = s.idx + 1
    BY <1>1 DEF Advanced, SetStatus, Orch
  <2> QED
    BY <1>1, <2>1, <2>2
<1>5. orch.idx \in Nat /\ Drop \in Nat /\ orch \in Orch
  BY <1>1, OneDelivery, OrchestratorAssumption
     DEF Step, WorkInv, OrderInv, TypeInv, TypeOK
<1>6. nav[CommandOf(orch)] \in Over
  BY <1>1 DEF WorkInv, OrderGoes, RecordGoes, CommandOf, DoneEvents,
              EventKnows, Over
<1>7. task # "FAILED"
  <2> SUFFICES ASSUME task = "FAILED" PROVE FALSE
    OBVIOUS
  <2>1. ~DeliveredIn(nav)
    BY DEF WorkInv, OrderGoes, EndsGo
  <2>2. orch.idx <= Drop
    BY <1>5, <2>1, NotBeyond DEF WorkInv, OrderInv, OrderKnows
  <2>3. orch.idx = Drop
    BY <1>1, <1>5, <2>2
  <2>4. e = "DONE"
    BY <1>1, <2>3, OneDelivery DEF DoneEvents, MoveKinds
  <2> QED
    BY <1>1, <2>1, <2>3, <2>4, DropDelivers DEF EventKnows
<1> HIDE DEF o
<1>8. CASE /\ orch' = o
           /\ job' = [job EXCEPT ![w] = [NoJob EXCEPT !.at = "dispatch"]]
           /\ SameTask /\ SameWorld
  <2> DEFINE j == [NoJob EXCEPT !.at = "dispatch"]
  <2>1. j.at = "dispatch" /\ j.snap = NoJob.snap /\ j.cmd = NoJob.cmd
        /\ j.stop = NoJob.stop
    BY NoJobTyped DEF Job
  <2>2. JobGoes(NoJob, o, nav) /\ job' = [job EXCEPT ![w] = j]
    BY <1>8, FreshGoes
  <2> HIDE DEF j
  <2>3. JobGoes(j, o, nav)
    BY <2>1, <2>2 DEF JobGoes
  <2>4. EndsGo'
    BY <1>1, <1>7, <1>8, SameWorldMoves, EndsStay
  <2>5. Onward(orch, o, nav)
    BY <1>4, <1>5 DEF Onward
  <2> QED
    BY <1>1, <1>3, <1>4, <1>6, <1>8, <2>2, <2>3, <2>4, <2>5, ThreadGoes
<1>9. CASE Settle(w, p) /\ Deliver
  <2>1. p \in Orch /\ Marks(o, p) /\ NoNewGate(o, p)
    BY <1>4, <1>9, MarksPhase DEF NoNewGate, InHold, TypeInv, TypeOK, Settle
  <2> HIDE DEF p
  <2>2. RecordGoes(p, nav) /\ p.idx = orch.idx + 1
    BY <1>3, <1>4, <2>1, MarksGo DEF Marks
  <2>3. orch' = p /\ job' = [job EXCEPT ![w] = NoJob] /\ JobGoes(NoJob, p, nav)
    BY <1>9, FreshGoes DEF Settle, Finish
  <2>4. EndsGo'
    BY <1>9 DEF Deliver, EndsGo, Ended, WorkInv, OrderGoes
  <2>5. Onward(orch, p, nav)
    BY <1>5, <2>2 DEF Onward
  <2> QED
    BY <1>1, <1>6, <2>2, <2>3, <2>4, <2>5, ThreadGoes
<1> QED
  BY <1>2, <1>8, <1>9 DEF o

\* A stop is persisted with the cargo policy of the current step: empty only
\* when nothing was loaded, or the load was put down.
LEMMA PolicyGoes ==
    ASSUME NEW n, orch \in Orch, RecordGoes(orch, n), CommandIsActive
    PROVE  StopGoes([cmd |-> CommandOf(orch), cargo |-> StopCargo,
                     biz |-> orch.biz])
<1> DEFINE k == orch.idx
<1>1. k \in Step /\ CommandOf(orch)[1] = k /\ k \in Nat /\ Drop \in Nat
  <2>1. k \in Step /\ CommandOf(orch)[1] = k
    BY InPlanStep DEF CommandIsActive, CommandOf
  <2> QED
    BY <2>1, OneDelivery, OrchestratorAssumption DEF Step
<1>2. Kind[k] \in Transfers => StopCargo = "UNKNOWN"
  BY DEF StopCargo, Transfers
<1>3. ASSUME StopCargo = "EMPTY", ~orch.biz, NEW i \in Step, i < k,
             Kind[i] = "load"
      PROVE  FALSE
  <2>1. CargoAfterSteps(orch) = "EMPTY"
    BY <1>3 DEF StopCargo
  <2>2. orch.st[i] = "DONE"
    BY <1>3 DEF RecordGoes
  <2>3. PICK d \in Step : d > i /\ orch.st[d] = "DONE" /\ Kind[d] = "unload"
    BY <1>3, <2>1, <2>2 DEF CargoAfterSteps
  <2>4. d = Drop /\ d <= k /\ d # k
    BY <2>3, OneDelivery DEF RecordGoes, CommandIsActive
  <2>5. k > Drop
    BY <1>1, <2>4
  <2> QED
    BY <1>3, <2>5 DEF RecordGoes
<1> QED
  BY <1>1, <1>2, <1>3 DEF StopGoes, RecordGoes

LEMMA StopGoesOn ==
    ASSUME WorkInv, TypeInv', task # "ASSIGNED", NEW w \in Worker, PersistStop(w)
    PROVE  OrderGoes'
<1> DEFINE c == CommandOf(orch)
           p == [cmd |-> c, cargo |-> StopCargo, biz |-> orch.biz]
           j == [NoJob EXCEPT !.at = "cancel", !.cmd = c]
<1>1. /\ orch \in Orch /\ orch' \in Orch /\ RecordGoes(orch, nav)
      /\ InPlan(orch) /\ CommandIsActive /\ Loud(w)
      /\ SameTask /\ SameWorld /\ task = "RUNNING"
  BY DEF PersistStop, RequestStop, CommandIsActive, Loud, WorkInv, OrderInv,
         TypeInv, TypeOK, OrderGoes
<1>2. /\ orch' = [orch EXCEPT !.phase = "CANCEL_REQUESTED", !.stop = p]
      /\ job' = [job EXCEPT ![w] = j]
  BY DEF PersistStop, StopCommand
<1>3. StopGoes(p) /\ p.cmd = c
  BY <1>1, PolicyGoes
<1> HIDE DEF p
<1>4. /\ orch'.idx = orch.idx /\ orch'.gen = orch.gen /\ orch'.st = orch.st
      /\ orch'.biz = orch.biz /\ orch'.stop = p /\ orch'.appr = orch.appr
      /\ orch'.rec = orch.rec /\ CommandOf(orch') = c
  BY <1>1, <1>2 DEF Orch, CommandOf
<1> HIDE DEF c
<1>5. RecordGoes(orch', nav)
  BY <1>1, <1>3, <1>4 DEF RecordGoes
<1>6. c[2] = 0 /\ Reached(c[1], orch', nav)
  BY <1>1, <1>4, CurrentGoes DEF c, Reached
<1>7. JobGoes(j, orch', nav)
  <2>1. j.at = "cancel" /\ j.snap = NoJob.snap /\ j.cmd = c /\ j.stop = NoJob.stop
    BY NoJobTyped DEF Job
  <2>2. JobGoes(NoJob, orch', nav)
    BY FreshGoes
  <2> HIDE DEF j
  <2> QED
    BY <1>6, <2>1, <2>2 DEF JobGoes
<1>8. Onward(orch, orch', nav)
  BY <1>1, <1>4, OrchestratorAssumption DEF Onward, Orch
<1>9. EndsGo'
  BY <1>1, SameWorldMoves, EndsStay
<1> QED
  BY <1>1, <1>2, <1>5, <1>7, <1>8, <1>9, ThreadGoes

\* A crash forgets what the threads did.
LEMMA CrashGoes ==
    ASSUME WorkInv, TypeInv', task = "ASSIGNED" => Fresh', Crash
    PROVE  OrderGoes'
<1>1. /\ orch' = orch /\ nav' = nav /\ SameTask /\ SameWorld
      /\ job' = [w \in Worker |-> NoJob] /\ orch \in Orch
  BY DEF Crash, SameWorld, navVars, WorkInv, OrderInv, TypeInv, TypeOK
<1>2. Onward(orch, orch', nav')
  BY <1>1, OrchestratorAssumption DEF Onward, Orch
<1>3. WorldGoes'
  BY <1>1, <1>2, SameWorldMoves, WorldMoves
<1>4. EndsGo'
  BY <1>1, SameWorldMoves, EndsStay DEF WorkInv, OrderGoes, EndsGo
<1>5. \A w \in Worker : JobGoes(job'[w], orch', nav')
  BY <1>1, FreshGoes
<1> QED
  BY <1>1, <1>3, <1>4, <1>5 DEF WorkInv, OrderGoes

\* Nothing but the beginning of a start happens to an order before it.
Stays == UNCHANGED <<task, robot, applied, orch, nav, loaded, mail>>

LEMMA FreshStays ==
    ASSUME WorkInv, task = "ASSIGNED", [Next]_vars
    PROVE  \/ \E w \in Worker : StartTask(w)
           \/ Stays /\ ((\E w \in Worker : Quiet(w)) \/ Crash)
<1>1. /\ \A w \in Worker : job[w].at \in {"idle", "start"}
      /\ orch.phase = "NONE" /\ mail = {}
      /\ \A c \in Command : nav[c] = "NONE"
      /\ TypeInv /\ Poller \in Worker
  BY NewOrchTyped, OrchestratorAssumption
     DEF WorkInv, OrderInv, StartInv, OrderGoes, EndsGo, Fresh, NoOrch, Orch
<1>2. ASSUME NEW w \in Worker, Continue(w) \/ Break(w), ~RefuseStart(w)
      PROVE  StartTask(w)
  <2>1. /\ ~Winning(w) /\ \A a \in At \ {"idle", "start"} : ~Doing(w, a)
        /\ job[w].at \notin {"cancelling", "recancelling"}
    BY <1>1 DEF Winning, Doing
  <2>2. CASE Advance(w) \/ FailClose(w)
    BY <2>1, <2>2
       DEF Advance, Claim, LoseClaim, SettleUnexpectedCancel, At,
           SettleCancelFailed, SettleStopped, SettleDoneDuringStop,
           SettleFailed, SettleLoadHeld, SettleAdvance, FailClose
  <2>3. CASE Dispatch(w) \/ ArmFail(w) \/ SendLost(w)
    BY <2>1, <2>3
       DEF Dispatch, DispatchNext, GateHold, GatePass, DispatchClaim, Send,
           FinalizeDispatch, HoldUnstopped, ArmFail, SendLost, At
  <2>4. CASE Stop(w) \/ CancelLost(w)
    BY <2>1, <2>4
       DEF Stop, SendCancel, CancelAnswer, Cancelling, HoldUnconfirmed,
           ManualStop, CancelLost, At
  <2>5. CASE SendEstop(w) \/ RetryHold(w) \/ RetryPass(w)
    BY <2>1, <2>5 DEF SendEstop, RetryHold, RetryPass, At
  <2> QED
    BY <1>2, <2>2, <2>3, <2>4, <2>5 DEF Continue, Break
<1>3. ASSUME NEW w \in Worker \ {Poller}, Request(w)
      PROVE  FALSE
  BY <1>1, <1>3 DEF Request, RequestStop, SafetyHold, BeginRetry, InHold
<1>4. ~PollOnce
  BY DEF PollOnce, PollDispatch, Poll, Observable
<1>5. ASSUME NEW c \in Command, NavStep(c) \/ NavGateTimeout(c)
      PROVE  FALSE
  BY <1>1, <1>5
     DEF NavStep, NavComplete, Complete, NavEnd, Fail, AbortByEstop,
         NavCancelEnd, CancelConfirm, CancelUnconfirmed, NavGateTimeout,
         GateTimeout
<1>6. ASSUME NEW w \in Worker, BeginStart(w) \/ RefuseStart(w)
      PROVE  Stays /\ Quiet(w)
  BY <1>1, <1>6, StartQuiet
     DEF BeginStart, RefuseStart, SameTask, SameWorld, navVars, Stays
<1>7. CASE OperatorClearEstop \/ Restart \/ UNCHANGED vars
  <2>1. Stays
    BY <1>1, <1>7
       DEF OperatorClearEstop, ClearEstop, mainVars, vars, Restart,
           MustReconcile, HeldLeg, SameTask, SameWorld, navVars, Stays
  <2>2. Quiet(Poller)
    BY <1>1, <1>7, WorldQuiet
  <2> QED
    BY <1>1, <2>1, <2>2
<1>8. CASE Crash
  BY <1>8 DEF Crash, SameTask, SameWorld, navVars, Stays
<1> QED
  BY <1>2, <1>3, <1>4, <1>5, <1>6, <1>7, <1>8 DEF Next

-----------------------------------------------------------------------------
(* The invariant.                                                          *)

LEMMA InitGoes == Init => WorkInv
<1> SUFFICES ASSUME Init PROVE StartInv /\ OrderGoes
  BY InitKnows DEF WorkInv
<1>1. /\ orch = NoOrch /\ job = [w \in Worker |-> NoJob] /\ Fresh
      /\ \A c \in Command : nav[c] = "NONE"
  BY DEF Init, NavInit, Fresh
<1>2. RecordGoes(orch, nav) /\ \A w \in Worker : JobGoes(job[w], orch, nav)
  BY <1>1, FreshGoes
<1>3. WorldGoes
  BY <1>1 DEF Init, WorldGoes
<1>4. StartInv
  BY <1>1 DEF Init, StartInv, NoJob
<1> QED
  BY <1>1, <1>2, <1>3, <1>4 DEF Init, OrderGoes, EndsGo, Ended

\* Every step keeps the order going.
LEMMA NextGoes == WorkInv /\ OneStart /\ Approved /\ [Next]_vars => WorkInv'
<1> SUFFICES ASSUME WorkInv, OneStart, Approved, [Next]_vars PROVE OrderGoes'
  BY NextKnows, NextStarts DEF WorkInv, OrderInv
<1>1. TypeInv'
  BY NextTyped DEF WorkInv, OrderInv
<1>2. CASE task = "ASSIGNED"
  <2>1. ASSUME Stays
        PROVE  Fresh'
    BY <1>2, <2>1 DEF Stays, WorkInv, OrderGoes, EndsGo, Fresh
  <2> QED
    BY <1>1, <1>2, <2>1, FreshStays, StartGoes, QuietGoes, CrashGoes
<1>3. CASE task # "ASSIGNED"
  <2>1. \A w \in Worker : ~StartTask(w)
    BY <1>3 DEF StartTask, Doing, WorkInv, StartInv
  <2>2. ASSUME NEW w \in Worker, Loud(w)
        PROVE  OrderGoes'
    BY <1>1, <1>3, <2>1, <2>2, HearGoes, ClaimGoes, SettleGoes, AdvanceGoes,
       AskGoes, GateGoes, StopGoesOn DEF Loud
  <2> QED
    BY <1>1, <1>3, <2>2, StepShape, QuietGoes, CrashGoes
<1> QED
  BY <1>2, <1>3

-----------------------------------------------------------------------------
(* The theorems.                                                           *)

\* Until the delivery Nav runs nothing but the command of the record's
\* current step, whatever is late, lost or repeated.
THEOREM NavRunsCurrentStep ==
    ASSUME OneStart, Approved
    PROVE  Spec => []RunsCurrentStep
<1>1. Init => WorkInv
  BY InitGoes
<1>2. WorkInv /\ [Next]_vars => WorkInv'
  BY NextGoes
<1>3. WorkInv => RunsCurrentStep
  <2> SUFFICES ASSUME WorkInv, ~Delivered, NEW c \in Active
               PROVE  c = CommandOf(orch)
    BY DEF RunsCurrentStep
  <2>1. c = <<orch.idx, 0>> /\ c[1] \in Step
    BY ActiveIsCurrent DEF Delivered, DeliveredIn
  <2> QED
    BY <2>1 DEF WorkInv, OrderGoes, RecordGoes, CommandOf
<1> QED
  BY <1>1, <1>2, <1>3, PTL DEF Spec

\* The inventory is moved once, with the completion of an order whose goods
\* Nav delivered, and for no other.
THEOREM InventoryFollowsDelivery ==
    ASSUME OneStart, Approved
    PROVE  Spec => []AppliedOnce
<1>1. Init => WorkInv
  BY InitGoes
<1>2. WorkInv /\ [Next]_vars => WorkInv'
  BY NextGoes
<1>3. WorkInv => AppliedOnce
  <2> SUFFICES ASSUME WorkInv PROVE AppliedOnce
    OBVIOUS
  <2>1. BookedIsDelivered
    BY DEF WorkInv, OrderInv, OrderKnows, DeliveredIn, BookedIsDelivered,
           Delivered
  <2>2. EndsGo /\ task \in TaskStatus
    BY DEF WorkInv, OrderInv, OrderGoes, TypeInv, TypeOK
  <2> QED
    BY <2>1, <2>2 DEF AppliedOnce, EndsGo, Ended, TaskStatus
<1> QED
  BY <1>1, <1>2, <1>3, PTL DEF Spec

\* Goods that Nav delivered are never booked as failed or cancelled.
THEOREM DeliveryIsKept ==
    ASSUME OneStart, Approved
    PROVE  Spec => []DeliveredIsNotFailed
<1>1. Init => WorkInv
  BY InitGoes
<1>2. WorkInv /\ [Next]_vars => WorkInv'
  BY NextGoes
<1>3. WorkInv => DeliveredIsNotFailed
  BY DEF WorkInv, OrderGoes, EndsGo, DeliveredIsNotFailed, Delivered,
         DeliveredIn
<1> QED
  BY <1>1, <1>2, <1>3, PTL DEF Spec

\* Whoever releases the robot, and whatever is still in flight: Nav runs
\* nothing for a failed or cancelled order, and at most the way home of one
\* that is done.
THEOREM FreedRobotRests ==
    ASSUME OneStart, Approved
    PROVE  Spec => []FreedRobotIsStill
<1>1. Init => WorkInv
  BY InitGoes
<1>2. WorkInv /\ [Next]_vars => WorkInv'
  BY NextGoes
<1>3. WorkInv => FreedRobotIsStill
  <2> SUFFICES ASSUME WorkInv, robot = "IDLE", NEW c \in Active
               PROVE  task = "DONE" /\ c[1] > Drop
    BY DEF FreedRobotIsStill
  <2>1. task \in TaskStatus /\ task \notin {"ASSIGNED", "RUNNING"}
    BY DEF WorkInv, OrderInv, TypeInv, TypeOK, OrderGoes, EndsGo
  <2>2. task = "DONE"
    BY <2>1, FailedIsStill DEF TaskStatus
  <2>3. ~(c[1] <= Drop) /\ c[1] \in Step
    BY <2>2, ActiveIsCurrent DEF WorkInv, OrderInv, OrderKnows
  <2>4. c[1] \in Nat /\ Drop \in Nat
    BY <2>3, OneDelivery, OrchestratorAssumption DEF Step
  <2> QED
    BY <2>2, <2>3, <2>4
<1> QED
  BY <1>1, <1>2, <1>3, PTL DEF Spec

\* An order is cancelled only with empty forks, though the cargo policy was
\* decided when the stop was requested.
THEOREM CancelLeavesNothing ==
    ASSUME OneStart, Approved
    PROVE  Spec => []CancelledIsEmpty
<1>1. Init => WorkInv
  BY InitGoes
<1>2. WorkInv /\ [Next]_vars => WorkInv'
  BY NextGoes
<1>3. WorkInv => CancelledIsEmpty
  BY DEF WorkInv, OrderGoes, EndsGo, CancelledIsEmpty
<1> QED
  BY <1>1, <1>2, <1>3, PTL DEF Spec

\* The cursor goes from step to step, and only past a step whose command Nav
\* ended, not with a failure.
THEOREM CursorPassesEndedSteps ==
    ASSUME OneStart, Approved
    PROVE  Spec => AdvanceOnEnd
<1> DEFINE Past == orch'.idx > orch.idx =>
                      /\ orch'.idx = orch.idx + 1
                      /\ nav[CommandOf(orch)] \notin {"NONE", "ACTIVE", "FAILED"}
<1>1. Init => WorkInv
  BY InitGoes
<1>2. WorkInv /\ [Next]_vars => WorkInv'
  BY NextGoes
<1>3. WorkInv /\ WorkInv' /\ [Next]_vars => [Past]_vars
  <2> SUFFICES ASSUME WorkInv, WorkInv', [Next]_vars PROVE Past
    OBVIOUS
  <2>1. orch.idx \in Nat /\ orch'.idx \in Nat
    BY OrchestratorAssumption DEF WorkInv, OrderInv, TypeInv, TypeOK, Orch
  <2>2. CASE orch'.idx <= orch.idx
    BY <2>1, <2>2
  <2>3. ASSUME NEW w \in Worker, Loud(w)
        PROVE  orch'.idx <= orch.idx \/ SettleAdvance(w)
    <3>1. CASE StartTask(w)
      <4>1. orch.idx = 1
        BY <3>1, NewOrchTyped
           DEF StartTask, Doing, WorkInv, StartInv, NoOrch, NewOrch
      <4>2. orch'.idx = 1
        BY <3>1, NewOrchTyped, MarksStatus DEF StartTask, Marks, NewOrch
      <4> QED
        BY <4>1, <4>2
    <3>2. CASE Hear(w) \/ Ask(w)
      <4>1. orch' = orch
        BY <3>2 DEF Hear, Ask
      <4> QED
        BY <2>1, <4>1
    <3>3. CASE WinClaim(w)
      <4>1. orch'.idx = orch.idx
        BY <3>3 DEF WinClaim, Claim, WorkInv, OrderInv, TypeInv, TypeOK, Orch
      <4> QED
        BY <2>1, <4>1
    <3>4. CASE SettleSteps(w)
      <4>1. orch'.idx = orch.idx
        BY <3>4, SettleMarks, WinningGoes DEF WorkInv, Marks
      <4> QED
        BY <2>1, <4>1
    <3>5. CASE GatePass(w)
      <4>1. task # "ASSIGNED"
        BY <3>5 DEF GatePass, Doing, WorkInv, StartInv
      <4> QED
        BY <3>5, <4>1, GateGoes DEF WorkInv, OrderInv
    <3>6. CASE PersistStop(w)
      BY <2>1, <3>6
         DEF PersistStop, StopCommand, WorkInv, OrderInv, TypeInv, TypeOK, Orch
    <3> QED
      BY <2>3, <3>1, <3>2, <3>3, <3>4, <3>5, <3>6 DEF Loud
  <2>4. ASSUME NEW w \in Worker, SettleAdvance(w)
        PROVE  Past
    BY <2>4, AdvanceGoes DEF Over, WorkInv, OrderInv
  <2>5. ASSUME NEW w \in Worker, Quiet(w)
        PROVE  orch'.idx = orch.idx
    BY <2>5 DEF Quiet, Marks
  <2>6. Crash => orch'.idx = orch.idx
    BY DEF Crash
  <2> QED
    BY <2>1, <2>2, <2>3, <2>4, <2>5, <2>6, StepShape
<1> QED
  BY <1>1, <1>2, <1>3, PTL DEF Spec, AdvanceOnEnd

-----------------------------------------------------------------------------
(* The abstract work order.                                                *)

\* Nav runs a command that is work for the order.
Working == \E c \in Active : c[1] <= Drop

\* Nav and the forks move as Nav's contract says in every step.
LEMMA StepMoves == WorkInv /\ Approved /\ [Next]_vars => NavMove
  BY StepShape, LoudIsStill, StillMoves, SameWorldMoves DEF Quiet, Crash

\* The pallet moves under a working command only, and is delivered for good.
LEMMA WorkMovesThePallet ==
    ASSUME WorkInv, NavMove
    PROVE  /\ loaded' # loaded => Working
           /\ DeliveredIn(nav') => DeliveredIn(nav) \/ Working
           /\ DeliveredIn(nav) => DeliveredIn(nav')
<1>1. ASSUME loaded' # loaded
      PROVE  Working
  <2>1. PICK c \in Active : Kind[c[1]] \in Transfers
    BY <1>1 DEF NavMove
  <2>2. c[1] <= Drop
    BY <2>1, ActiveIsCurrent, TransferIsWork
  <2> QED
    BY <2>2 DEF Working
<1>2. ASSUME DeliveredIn(nav'), ~DeliveredIn(nav)
      PROVE  Working
  <2>1. <<Drop, 0>> \in Active
    BY <1>2, DropDelivers, OneDelivery, FirstCommand DEF NavMove, Active
  <2>2. <<Drop, 0>>[1] <= Drop
    BY OneDelivery, OrchestratorAssumption DEF Step
  <2> QED
    BY <2>1, <2>2 DEF Working
<1> QED
  BY <1>1, <1>2, CarriedLater DEF NavMove

\* Nothing works for an order that delivered or ended.
LEMMA EndedIsStill == WorkInv /\ (Ended \/ DeliveredIn(nav)) => ~Working
<1> SUFFICES ASSUME WorkInv, Ended \/ DeliveredIn(nav) PROVE ~Working
  OBVIOUS
<1>1. CASE DeliveredIn(nav)
  BY <1>1, ActiveIsCurrent DEF Working
<1>2. CASE Ended /\ ~DeliveredIn(nav)
  BY <1>2, FailedIsStill
     DEF Ended, Working, WorkInv, OrderInv, OrderKnows
<1> QED
  BY <1>1, <1>2

\* The task row of a started order changes only when it ends, by a thread that
\* leaves the floor alone.
LEMMA OrderEnds ==
    ASSUME WorkInv, WorkInv', Approved, [Next]_vars
    PROVE  \/ SameTask
           \/ \E w \in Worker : StartTask(w)
           \/ /\ task = "RUNNING" /\ SameWorld
              /\ Deliver \/ Release("FAILED") \/ Release("CANCELLED")
<1>1. ASSUME NEW w \in Worker, Loud(w), ~SameTask
      PROVE  \/ StartTask(w)
             \/ /\ Winning(w) /\ SameWorld
                /\ Deliver \/ Release("FAILED") \/ Release("CANCELLED")
                /\ orch'.idx # orch.idx => Deliver
  <2>1. CASE SettleSteps(w)
    <3>1. Winning(w) /\ SameWorld /\ orch'.idx = orch.idx
      BY <2>1, SettleMarks, WinningGoes DEF WorkInv, Marks
    <3> QED
      BY <1>1, <2>1, <3>1
         DEF SettleSteps, SettleUnexpectedCancel, SettleCancelFailed,
             SettleStopped, SettleDoneDuringStop, SettleFailed, SettleLoadHeld
  <2>2. CASE SettleAdvance(w)
    BY <1>1, <2>2 DEF SettleAdvance, Settle
  <2> QED
    BY <1>1, <2>1, <2>2
       DEF Loud, Hear, Ask, WinClaim, Claim, GatePass, PersistStop, RequestStop
<1>2. ASSUME NEW w \in Worker, Winning(w), SameWorld, ~SameTask,
             Release("FAILED") \/ Release("CANCELLED"), orch'.idx = orch.idx
      PROVE  task = "RUNNING"
  <2>1. EndsGo /\ EndsGo' /\ nav' = nav
    BY <1>2 DEF WorkInv, OrderGoes, SameWorld, navVars
  <2>2. task # "DONE"
    BY <1>2, <2>1, WinningGoes DEF EndsGo, Release
  <2>3. CASE task = "FAILED"
    <3>1. task' = "CANCELLED"
      BY <1>2, <2>1, <2>3 DEF EndsGo, Ended, Release, SameTask
    <3> QED
      BY <1>2, <2>1, <2>3, <3>1, WinningGoes DEF EndsGo
  <2> QED
    BY <1>2, <2>2, <2>3, WinningGoes
<1> QED
  BY <1>1, <1>2, StepShape DEF Quiet, Crash, Deliver

\* Every step of the orchestrated order is one of the abstract order, or
\* leaves it alone.
LEMMA StepWorks ==
    ASSUME WorkInv, WorkInv', Approved, [Next]_vars
    PROVE  [WO!Next]_<<WO!order, WO!floor>>
<1>1. /\ loaded' # loaded => Working
      /\ Delivered' => Delivered \/ Working
      /\ Delivered => Delivered'
  BY StepMoves, WorkMovesThePallet DEF Delivered, DeliveredIn
<1>2. Ended \/ Delivered => ~Working
  BY EndedIsStill DEF Delivered, DeliveredIn
<1>3. Ended' \/ Delivered' => ~Working'
  <2>1. (WorkInv /\ (Ended \/ DeliveredIn(nav)) => ~Working)'
    BY EndedIsStill, PTL
  <2> QED
    BY <2>1 DEF Delivered, DeliveredIn
<1>4. /\ EndsGo /\ EndsGo' /\ task \in TaskStatus /\ loaded' \in BOOLEAN
      /\ Delivered \in BOOLEAN /\ Delivered' \in BOOLEAN
  BY DEF WorkInv, OrderGoes, OrderInv, TypeInv, TypeOK, Delivered
<1>5. CASE SameTask /\ task = "RUNNING"
  <2>1. WO!Work
    BY <1>1, <1>4, <1>5 DEF WO!Work, WO!order, SameTask, Working
  <2> QED
    BY <2>1 DEF WO!Next
<1>6. CASE SameTask /\ Ended
  <2>1. Ended' /\ Delivered' = Delivered /\ loaded' = loaded
    BY <1>1, <1>2, <1>4, <1>6 DEF SameTask, Ended
  <2> QED
    BY <1>2, <1>3, <1>6, <2>1 DEF WO!order, WO!floor, SameTask, Working
<1>7. CASE SameTask /\ task = "ASSIGNED"
  <2>1. Stays
    BY <1>7, FreshStays DEF StartTask, SameTask
  <2>2. Active' = Active /\ Delivered' = Delivered
    BY <2>1 DEF Stays, Active, Delivered
  <2> QED
    BY <2>1, <2>2 DEF Stays, WO!order, WO!floor
<1>8. ASSUME NEW w \in Worker, StartTask(w)
      PROVE  WO!Start
  <2>1. Active' = Active /\ Delivered' = Delivered /\ loaded' = loaded
    BY <1>8 DEF StartTask, SameWorld, navVars, Active, Delivered
  <2> QED
    BY <1>4, <1>8, <2>1
       DEF WO!Start, WO!floor, StartTask, Doing, EndsGo, WorkInv, StartInv
<1>9. CASE /\ task = "RUNNING" /\ SameWorld
           /\ Deliver \/ Release("FAILED") \/ Release("CANCELLED")
  <2>1. Active' = Active /\ Delivered' = Delivered /\ loaded' = loaded
    BY <1>9 DEF SameWorld, navVars, Active, Delivered
  <2>2. ~Working
    BY <1>3, <1>9, <2>1 DEF Working, Ended, Deliver, Release
  <2>3. CASE Deliver
    <3>1. Delivered
      BY <2>1, <2>3 DEF Deliver, WorkInv, OrderInv, OrderKnows, Delivered,
                        DeliveredIn
    <3> QED
      BY <2>1, <2>2, <2>3, <3>1
         DEF WO!Next, WO!Complete, WO!End, WO!floor, Deliver, Working
  <2>4. CASE Release("FAILED")
    <3>1. ~Delivered
      BY <1>4, <2>1, <2>4 DEF Release, EndsGo, Delivered, DeliveredIn
    <3> QED
      BY <1>9, <2>1, <2>2, <2>4, <3>1
         DEF WO!Next, WO!Fail, WO!End, WO!floor, Release, Working
  <2>5. CASE Release("CANCELLED")
    <3>1. ~Delivered /\ ~loaded
      BY <1>4, <2>1, <2>5 DEF Release, EndsGo, Delivered, DeliveredIn
    <3> QED
      BY <1>9, <2>1, <2>2, <2>5, <3>1
         DEF WO!Next, WO!Cancel, WO!End, WO!floor, Release, Working
  <2> QED
    BY <1>9, <2>3, <2>4, <2>5
<1> QED
  BY <1>4, <1>5, <1>6, <1>7, <1>8, <1>9, OrderEnds
     DEF WO!Next, TaskStatus, Ended

\* The record, the threads and the crashes of Main, Nav's registry and every
\* message between them are an order that starts once, works while it runs
\* and ends once, with a record that agrees with the floor.
THEOREM OrchestratorImplementsWorkOrder ==
    ASSUME OneStart, Approved
    PROVE  Spec => ImplementsWorkOrder
<1>1. Init => WorkInv /\ WO!Init
  <2> SUFFICES ASSUME Init PROVE WO!Init
    BY InitGoes
  <2>1. \A c \in Command : nav[c] = "NONE"
    BY DEF Init, NavInit
  <2>2. Active = {} /\ ~Delivered
    BY <2>1, OneDelivery, FirstCommand DEF Active, Delivered
  <2> QED
    BY <2>2 DEF Init, WO!Init
<1>2. WorkInv /\ [Next]_vars => WorkInv'
  BY NextGoes
<1>3. WorkInv /\ WorkInv' /\ [Next]_vars => [WO!Next]_<<WO!order, WO!floor>>
  BY StepWorks
<1> QED
  BY <1>1, <1>2, <1>3, PTL DEF Spec, ImplementsWorkOrder, WO!Spec

=============================================================================
