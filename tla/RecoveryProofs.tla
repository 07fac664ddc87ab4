--------------------------- MODULE RecoveryProofs ---------------------------
(***************************************************************************)
(* Operator recovery, for any bounds on retries, safe moves and monitor    *)
(* holds.  What holds only under an assumption on the operators or the     *)
(* faults says so in its ASSUME; the README says what happens without it.  *)
(***************************************************************************)
EXTENDS RecoveryProps, TLAPS

\* The threads that carry out requests, and that they are one.
Requests == Worker \ {Poller, Watcher}

OneRequest == \A v, w \in Requests : v = w

\* What only a request does: operators resume, move, abort, stop and decide.
OperatorAt == {"arm", "rhealth", "rverify", "rcommit", "note", "shealth",
               "scommit", "abort", "afinal", "ahold", "disarm", "festop",
               "closing"}

\* A request that is admitted at a bound stays below it.
Below(j) ==
    /\ j.at \in {"rhealth", "rverify", "rcommit"} => j.snap.gen < MaxGen
    /\ j.at \in {"shealth", "scommit"} => j.snap.moves < MaxMoves

InPlace(w) ==
    /\ job[w].at \in OperatorAt => w \in Requests
    /\ job[w].at = "note" => "note" \in Faults

HeldInv ==
    /\ HeldTypeOK
    /\ \A w \in Worker : Below(job[w]) /\ InPlace(w)

-----------------------------------------------------------------------------
(* Types.                                                                  *)

\* Nav's registry stays typed under everything that a thread asks of it.
LEMMA AskedNavTyped ==
    ASSUME NavTypeOK, NEW c \in Command \cup {NoCommand},
           \/ Accept(c) \/ Refuse(c) \/ Cancel(c) \/ Estop \/ SameNav
    PROVE  NavTypeOK'
<1>1. CASE Accept(c) \/ Refuse(c)
  BY <1>1 DEF NavTypeOK, Accept, Refuse, Register, Duplicate, RefuseGate, RefuseBusy,
     GateAfter, NavState
<1>2. CASE Cancel(c)
  BY <1>2 DEF NavTypeOK, Cancel, CancelUnknown, CancelSettled, CancelBegin,
     NavState, navVars
<1>3. CASE Estop
  BY <1>3 DEF NavTypeOK, Estop, Active, Letter, Event, NavState
<1>4. CASE SameNav
  BY <1>4 DEF NavTypeOK, SameNav, navVars
<1> QED
  BY <1>1, <1>2, <1>3, <1>4

LEMMA EndedNavTyped ==
    ASSUME NavTypeOK, NEW c \in Command,
           \/ Complete(c) \/ Fail(c) \/ AbortByEstop(c)
           \/ CancelConfirm(c) \/ CancelUnconfirmed(c)
    PROVE  NavTypeOK'
<1>1. CASE Complete(c)
  BY <1>1 DEF NavTypeOK, Complete, Post, Letter, Event, NavState
<1>2. CASE Fail(c) \/ AbortByEstop(c)
  BY <1>2 DEF NavTypeOK, Fail, AbortByEstop, Post, Letter, Event, NavState
<1>3. CASE CancelConfirm(c)
  BY <1>3 DEF NavTypeOK, CancelConfirm, Post, Letter, Event, NavState
<1>4. CASE CancelUnconfirmed(c)
  BY <1>4 DEF NavTypeOK, CancelUnconfirmed, NavState
<1> QED
  BY <1>1, <1>2, <1>3, <1>4

LEMMA StepCommand == \A g \in 0..MaxGen : StepCmd(g) \in Command
  BY HeldTaskAssumption

LEMMA SafeCommand == \A n \in 1..MaxMoves : SafeCmd(n) \in Command
  BY HeldTaskAssumption

\* The records that actions write.
LEMMA WritesTyped ==
    ASSUME NEW o \in HeldOrch
    PROVE  /\ Await(o) \in HeldOrch
           /\ Cleared(o) \in HeldOrch
           /\ o.mark < MaxMarks => Marked(o) \in HeldOrch
<1>0. 0 \in 0..MaxMoves
  BY HeldTaskAssumption
<1>1. Await(o) \in HeldOrch
  BY DEF HeldOrch, Await, HeldPhase
<1>2. Cleared(o) \in HeldOrch
  BY <1>0 DEF HeldOrch, Cleared
<1>3. ASSUME o.mark < MaxMarks PROVE o.mark + 1 \in 0..MaxMarks
  BY <1>3, HeldTaskAssumption DEF HeldOrch
<1>4. o.mark < MaxMarks => Marked(o) \in HeldOrch
  BY <1>0, <1>1, <1>3 DEF HeldOrch, Marked, Await, Disp, HeldCargo
<1> QED
  BY <1>1, <1>2, <1>4

LEMMA FirstTyped == FirstOrch \in HeldOrch /\ NoHeldJob \in HeldJob
  BY HeldTaskAssumption
     DEF FirstOrch, NoHeldJob, HeldOrch, HeldJob, HeldAt, HeldPhase, HeldStep,
         Disp, HeldCargo

\* A thread that goes on with a job it may have leaves all jobs in order.
JobsOK ==
    /\ job \in [Worker -> HeldJob]
    /\ \A w \in Worker : Below(job[w]) /\ InPlace(w)

LEMMA BecomeTyped ==
    ASSUME JobsOK, NEW w \in Worker, NEW j \in HeldJob, Below(j),
           j.at \in OperatorAt => w \in Requests,
           j.at = "note" => "note" \in Faults,
           Become(w, j)
    PROVE  JobsOK'
<1>1. job' \in [Worker -> HeldJob]
  BY DEF JobsOK, Become
<1>2. ASSUME NEW v \in Worker PROVE Below(job'[v]) /\ InPlace(v)'
  BY DEF JobsOK, Become, InPlace
<1> QED
  BY <1>1, <1>2 DEF JobsOK

LEMMA FinishTyped ==
    ASSUME JobsOK, NEW w \in Worker, Finish(w)
    PROVE  JobsOK'
<1>1. Below(NoHeldJob) /\ NoHeldJob.at = "idle"
  BY DEF NoHeldJob, Below
<1> QED
  BY <1>1, FirstTyped, BecomeTyped DEF Finish, OperatorAt

\* Most steps lead to places that anyone may reach and that have no bound.
LEMMA GotoTyped ==
    ASSUME JobsOK, NEW w \in Worker, NEW a \in HeldAt,
           a \in OperatorAt => w \in Requests /\ a # "note",
           a \in {"rverify", "rcommit"} => job[w].at \in {"rhealth", "rverify"},
           a = "scommit" => job[w].at = "shealth",
           a \notin {"rhealth", "shealth"},
           Goto(w, a)
    PROVE  JobsOK'
<1> DEFINE j == [job[w] EXCEPT !.at = a]
<1>1. j \in HeldJob /\ j.at = a /\ j.snap = job[w].snap
  BY DEF JobsOK, HeldJob
<1>2. Below(j)
  BY <1>1 DEF JobsOK, Below
<1> QED
  BY <1>1, <1>2, BecomeTyped DEF Goto, OperatorAt

LEMMA SameJobs == JobsOK /\ UNCHANGED job => JobsOK'
  BY DEF JobsOK, InPlace

RecordOK ==
    /\ task \in {"RUNNING", "DONE", "FAILED", "CANCELLED"}
    /\ robot \in {"RUNNING", "IDLE"}
    /\ orch \in HeldOrch
    /\ stopOpen \in BOOLEAN
    /\ rt \in Runtime
    /\ session \in BOOLEAN
    /\ up \in BOOLEAN

LEMMA HeldParts == HeldInv <=> NavTypeOK /\ RecordOK /\ JobsOK
  BY DEF HeldInv, HeldTypeOK, RecordOK, JobsOK

LEMMA PartsHeld == NavTypeOK' /\ RecordOK' /\ JobsOK' => HeldInv'
  BY DEF HeldInv, HeldTypeOK, RecordOK, JobsOK

LEMMA SameTyped ==
    RecordOK /\ SameRecord /\ SameMonitor /\ UNCHANGED up => RecordOK'
  BY DEF RecordOK, SameRecord, SameMonitor, recordVars, monitorVars

LEMMA SaveTyped ==
    ASSUME RecordOK, NEW o \in HeldOrch, Save(o), SameMonitor, UNCHANGED up
    PROVE  RecordOK'
  BY DEF RecordOK, Save, SameMonitor, monitorVars

LEMMA MonitorTyped ==
    ASSUME RecordOK, Arm \/ Disarm, SameRecord, UNCHANGED up
    PROVE  RecordOK'
  BY DEF RecordOK, SameRecord, recordVars, Arm, Disarm, Runtime, monitorVars

LEMMA HoldTyped ==
    ASSUME RecordOK, CommitHold, rt' \in Runtime, session' \in BOOLEAN, up' \in BOOLEAN
    PROVE  RecordOK'
  BY WritesTyped DEF RecordOK, CommitHold

LEMMA EventTyped ==
    ASSUME RecordOK, NEW c, NEW e, RecoveryEvent(c, e), SameMonitor, UNCHANGED up
    PROVE  RecordOK'
<1>1. CASE SameRecord
  BY <1>1, SameTyped
<1>2. CASE \E g \in HeldCargo :
             Save([Await(orch) EXCEPT !.rcmd = 0, !.disp = "none", !.stopreq = FALSE,
                                      !.cargo = g])
  <2>1. \A g \in HeldCargo :
          [Await(orch) EXCEPT !.rcmd = 0, !.disp = "none", !.stopreq = FALSE,
                              !.cargo = g] \in HeldOrch
    <3>1. Await(orch) \in HeldOrch /\ 0 \in 0..MaxMoves
      BY WritesTyped, HeldTaskAssumption DEF RecordOK
    <3> QED
      BY <3>1 DEF HeldOrch, Disp
  <2> QED
    BY <1>2, <2>1, SaveTyped
<1>3. orch.cargo \in HeldCargo /\ "UNKNOWN" \in HeldCargo
  BY DEF RecordOK, HeldOrch, HeldCargo
<1> QED
  BY <1>1, <1>2, <1>3 DEF RecoveryEvent

LEMMA StepEndTyped ==
    ASSUME RecordOK, NEW c, NEW e, StepEvent(c, e), UNCHANGED up
    PROVE  RecordOK'
<1>1. ASSUME NEW s \in {"DONE", "FAILED"}, EndTask(s, s)
      PROVE  RecordOK'
  <2>1. [orch EXCEPT !.phase = s, !.st = "ended"] \in HeldOrch
    BY <1>1 DEF RecordOK, HeldOrch, HeldPhase, HeldStep
  <2> QED
    BY <1>1, <2>1 DEF EndTask, Disarm, RecordOK, Runtime
<1>2. [Await(orch) EXCEPT !.st = "ended"] \in HeldOrch
  BY DEF RecordOK, Await, HeldOrch, HeldPhase, HeldStep
<1> QED
  BY <1>1, <1>2, SaveTyped, SameTyped DEF StepEvent

LEMMA FailSafeTyped ==
    ASSUME RecordOK, JobsOK, NEW w \in Worker, NEW n \in {"idle", "rhold"},
           FailSafe(w, n), UNCHANGED up
    PROVE  RecordOK' /\ JobsOK'
<1>1. JobsOK'
  BY GotoTyped DEF FailSafe, HeldAt, OperatorAt
<1>2. CASE rt = "tripped"
  BY <1>1, <1>2, SameTyped DEF FailSafe, SameRecord, SameMonitor
<1>3. CASE rt # "tripped"
  BY <1>1, <1>3, HoldTyped DEF FailSafe, Runtime, RecordOK
<1> QED
  BY <1>2, <1>3

-----------------------------------------------------------------------------
(* Every action keeps the types.                                           *)

LEMMA Unpack == ASSUME HeldInv, NEW w \in Worker
                PROVE  /\ NavTypeOK /\ RecordOK /\ JobsOK
                       /\ job[w] \in HeldJob /\ job[w].snap \in HeldOrch
                       /\ job[w].cmd \in Command \cup {NoCommand}
                       /\ job[w].cargo \in HeldCargo
                       /\ orch \in HeldOrch
                       /\ Below(job[w]) /\ InPlace(w)
  BY HeldParts DEF JobsOK, HeldJob, RecordOK

LEMMA NavSame == NavTypeOK /\ SameNav => NavTypeOK'
  BY DEF NavTypeOK, SameNav, navVars

LEMMA DispatchTyped ==
    ASSUME HeldInv, NEW w \in Worker,
           \/ Idle(w) \/ Doing(w, "arm"),
           PrepareStep(w)
    PROVE  HeldInv'
<1> USE Unpack
<1>1. NavTypeOK'
  BY NavSame DEF PrepareStep
<1> DEFINE j == [NoHeldJob EXCEPT !.at = "claim"]
<1>2. j \in HeldJob /\ j.at = "claim"
  BY FirstTyped DEF HeldJob, HeldAt, NoHeldJob
<1>3. Become(w, j) => JobsOK'
  BY <1>2, BecomeTyped DEF Below, OperatorAt
<1>4. CASE Become(w, j) /\ SameRecord /\ (Arm \/ Disarm)
  BY <1>1, <1>3, <1>4, MonitorTyped, PartsHeld DEF PrepareStep
<1>5. CASE FailSafe(w, "idle")
  BY <1>1, <1>5, FailSafeTyped, PartsHeld DEF PrepareStep
<1> QED
  BY <1>4, <1>5 DEF PrepareStep

LEMMA StepTyped ==
    ASSUME HeldInv, NEW w \in Worker,
           ClaimStep(w) \/ PostStep(w) \/ FinishStep(w)
    PROVE  HeldInv'
<1> USE Unpack
<1>1. CASE ClaimStep(w)
  <2> DEFINE o == [orch EXCEPT !.st = "dispatching"]
             j == [NoHeldJob EXCEPT !.at = "post", !.cmd = StepCmd(orch.gen)]
  <2>1. o \in HeldOrch
    BY DEF HeldOrch, HeldStep
  <2>2. StepCmd(orch.gen) \in Command
    BY StepCommand DEF HeldOrch
  <2>3. j \in HeldJob /\ j.at = "post"
    BY <2>2, FirstTyped DEF HeldJob, HeldAt, NoHeldJob
  <2>4. CASE Save(o) /\ Become(w, j)
    BY <1>1, <2>1, <2>3, <2>4, BecomeTyped, SaveTyped, NavSame, PartsHeld
       DEF ClaimStep, Below, OperatorAt
  <2>5. CASE GiveUp(w)
    BY <1>1, <2>5, FinishTyped, SameTyped, NavSame, PartsHeld DEF ClaimStep, GiveUp
  <2> QED
    BY <1>1, <2>4, <2>5 DEF ClaimStep
<1>2. CASE PostStep(w)
  <2>1. JobsOK'
    BY <1>2, GotoTyped, FinishTyped DEF PostStep, HeldAt, OperatorAt
  <2>2. NavTypeOK'
    BY <1>2, AskedNavTyped DEF PostStep
  <2> QED
    BY <1>2, <2>1, <2>2, SameTyped, PartsHeld DEF PostStep
<1>3. CASE FinishStep(w)
  <2>1. [orch EXCEPT !.st = "dispatched"] \in HeldOrch
    BY DEF HeldOrch, HeldStep
  <2> QED
    BY <1>3, <2>1, FinishTyped, SaveTyped, SameTyped, NavSame, PartsHeld DEF FinishStep
<1> QED
  BY <1>1, <1>2, <1>3

LEMMA GateTyped ==
    ASSUME HeldInv, NEW w \in Worker, Health(w) \/ Verify(w)
    PROVE  HeldInv'
<1> USE Unpack
<1>1. Doing(w, "rhealth") \/ Doing(w, "shealth") \/ Doing(w, "rverify") => w \in Requests
  BY DEF Doing, InPlace, OperatorAt
<1>2. JobsOK'
  BY <1>1, GotoTyped, FinishTyped DEF Health, Verify, HeldAt, OperatorAt, Doing
<1> QED
  BY <1>2, SameTyped, NavSame, PartsHeld DEF Health, Verify

LEMMA ResumeTyped ==
    ASSUME HeldInv, NEW w \in Worker, CommitResume(w)
    PROVE  HeldInv'
<1> USE Unpack
<1> DEFINE o == [orch EXCEPT !.phase = "RUNNING", !.st = "pending",
                             !.gen = orch.gen + 1, !.rcmd = 0,
                             !.disp = "none", !.stopreq = FALSE,
                             !.cargo = job[w].cargo]
           j == [NoHeldJob EXCEPT !.at = "arm"]
<1>1. CASE GiveUp(w)
  BY <1>1, FinishTyped, SameTyped, NavSame, PartsHeld DEF CommitResume, GiveUp
<1>2. CASE StillGated(w) /\ Save(o) /\ Become(w, j)
  <2>1. orch.gen + 1 \in 0..MaxGen /\ 0 \in 0..MaxMoves
    BY <1>2, HeldTaskAssumption DEF CommitResume, Doing, StillGated, Below, HeldOrch
  <2>2. o \in HeldOrch
    BY <2>1 DEF HeldOrch, HeldPhase, HeldStep, Disp
  <2>3. j \in HeldJob /\ j.at = "arm"
    BY FirstTyped DEF HeldJob, HeldAt, NoHeldJob
  <2>4. w \in Requests
    BY DEF CommitResume, Doing, InPlace, OperatorAt
  <2> HIDE DEF o, j
  <2>5. JobsOK'
    BY <1>2, <2>3, <2>4, BecomeTyped DEF Below
  <2> QED
    BY <1>2, <2>2, <2>5, SaveTyped, NavSame, PartsHeld DEF CommitResume
<1> QED
  BY <1>1, <1>2 DEF CommitResume

LEMMA SafeMoveTyped ==
    ASSUME HeldInv, NEW w \in Worker, CommitSafeMove(w)
    PROVE  HeldInv'
<1> USE Unpack
<1> DEFINE n == orch.moves + 1
           o == [orch EXCEPT !.phase = "RECOVERY_RUNNING", !.moves = n,
                             !.rcmd = n, !.disp = "PENDING",
                             !.watch = (job[w].cargo = "LOADED"),
                             !.cargo = job[w].cargo]
           j == [job[w] EXCEPT !.at = "rarm", !.snap = o, !.cmd = SafeCmd(n)]
<1>1. CASE GiveUp(w)
  BY <1>1, FinishTyped, SameTyped, NavSame, PartsHeld DEF CommitSafeMove, GiveUp
<1>2. CASE StillGated(w) /\ Save(o) /\ Become(w, j)
  <2>1. n \in 1..MaxMoves /\ n \in 0..MaxMoves
    BY <1>2, HeldTaskAssumption DEF CommitSafeMove, Doing, StillGated, Below, HeldOrch
  <2>2. o \in HeldOrch
    BY <2>1 DEF HeldOrch, HeldPhase, Disp
  <2>3. j \in HeldJob /\ j.at = "rarm"
    BY <2>1, <2>2, SafeCommand DEF HeldJob, HeldAt
  <2> HIDE DEF o, j
  <2>4. JobsOK'
    BY <1>2, <2>3, BecomeTyped DEF Below, OperatorAt
  <2> QED
    BY <1>2, <2>2, <2>4, SaveTyped, NavSame, PartsHeld DEF CommitSafeMove
<1> QED
  BY <1>1, <1>2 DEF CommitSafeMove

LEMMA MoveTyped ==
    ASSUME HeldInv, NEW w \in Worker,
           ArmRecovery(w) \/ PostRecovery(w) \/ CloseAmbiguous(w)
    PROVE  HeldInv'
<1> USE Unpack
<1>1. CASE ArmRecovery(w)
  <2>1. CASE (Arm \/ Disarm) /\ Goto(w, "rclaim") /\ SameRecord
    <3>1. JobsOK'
      BY <2>1, GotoTyped DEF HeldAt, OperatorAt
    <3> QED
      BY <1>1, <2>1, <3>1, MonitorTyped, NavSame, PartsHeld DEF ArmRecovery
  <2>2. CASE FailSafe(w, "rhold")
    BY <1>1, <2>2, FailSafeTyped, NavSame, PartsHeld DEF ArmRecovery
  <2> QED
    BY <1>1, <2>1, <2>2 DEF ArmRecovery
<1>2. CASE PostRecovery(w)
  <2>1. JobsOK'
    BY <1>2, GotoTyped DEF PostRecovery, HeldAt, OperatorAt
  <2>2. NavTypeOK'
    BY <1>2, AskedNavTyped DEF PostRecovery
  <2> QED
    BY <1>2, <2>1, <2>2, SameTyped, PartsHeld DEF PostRecovery
<1>3. CASE CloseAmbiguous(w)
  <2>1. [job[w] EXCEPT !.at = "rhold", !.cargo = "UNKNOWN"] \in HeldJob
    BY DEF HeldJob, HeldAt, HeldCargo
  <2>2. JobsOK'
    BY <1>3, <2>1, BecomeTyped DEF CloseAmbiguous, Below, OperatorAt, HeldJob
  <2>3. NavTypeOK'
    BY <1>3, AskedNavTyped DEF CloseAmbiguous, TryEstop, SameNav
  <2> QED
    BY <1>3, <2>2, <2>3, SameTyped, PartsHeld DEF CloseAmbiguous
<1> QED
  BY <1>1, <1>2, <1>3

LEMMA MoveSavedTyped ==
    ASSUME HeldInv, NEW w \in Worker,
           \/ ClaimRecovery(w) \/ FinalizeRecovery(w) \/ HoldRecovery(w)
           \/ MarkUnstopped(w)
    PROVE  HeldInv'
<1> USE Unpack
<1>0. Await(orch) \in HeldOrch /\ Cleared(Await(orch)) \in HeldOrch
  BY WritesTyped
<1>1. CASE ClaimRecovery(w)
  <2>1. [Cleared(Await(orch)) EXCEPT !.disp = "none", !.cargo = "UNKNOWN"] \in HeldOrch
    BY <1>0 DEF HeldOrch, Disp, HeldCargo
  <2>2. [orch EXCEPT !.disp = "DISPATCHING"] \in HeldOrch
    BY DEF HeldOrch, Disp
  <2>3. JobsOK'
    BY <1>1, GotoTyped, FinishTyped DEF ClaimRecovery, GiveUp, HeldAt, OperatorAt
  <2> QED
    BY <1>1, <2>1, <2>2, <2>3, SaveTyped, SameTyped, NavSame, PartsHeld
       DEF ClaimRecovery, GiveUp
<1>2. CASE FinalizeRecovery(w)
  <2>1. [orch EXCEPT !.disp = "SENT"] \in HeldOrch
    BY DEF HeldOrch, Disp
  <2>2. JobsOK'
    BY <1>2, GotoTyped, FinishTyped DEF FinalizeRecovery, GiveUp, HeldAt, OperatorAt
  <2> QED
    BY <1>2, <2>1, <2>2, SaveTyped, SameTyped, NavSame, PartsHeld
       DEF FinalizeRecovery, GiveUp
<1>3. CASE HoldRecovery(w)
  <2> DEFINE g == IF job[w].cargo = "UNKNOWN" THEN "UNKNOWN" ELSE orch.cargo
  <2>1. g \in HeldCargo
    BY DEF HeldOrch, HeldCargo
  <2>2. [Cleared(Await(orch)) EXCEPT !.disp = "REJECTED", !.cargo = g] \in HeldOrch
    BY <1>0, <2>1 DEF HeldOrch, Disp
  <2> QED
    BY <1>3, <2>2, FinishTyped, SaveTyped, SameTyped, NavSame, PartsHeld DEF HoldRecovery
<1>4. CASE MarkUnstopped(w)
  <2>1. [orch EXCEPT !.cargo = "UNKNOWN"] \in HeldOrch
    BY DEF HeldOrch, HeldCargo
  <2> QED
    BY <1>4, <2>1, FinishTyped, SaveTyped, SameTyped, NavSame, PartsHeld DEF MarkUnstopped
<1> QED
  BY <1>1, <1>2, <1>3, <1>4

LEMMA StopTyped ==
    ASSUME HeldInv, NEW w \in Worker,
           SendCancel(w) \/ CancelAnswer(w) \/ EnforceAnswer(w) \/ EnforceEstop(w)
    PROVE  HeldInv'
<1> USE Unpack
<1>1. CASE SendCancel(w)
  <2>1. JobsOK'
    BY <1>1, GotoTyped, FinishTyped DEF SendCancel, HeldAt, OperatorAt
  <2>2. NavTypeOK'
    BY <1>1, AskedNavTyped DEF SendCancel
  <2> QED
    BY <1>1, <2>1, <2>2, SameTyped, PartsHeld DEF SendCancel
<1>2. CASE CancelAnswer(w)
  <2>1. RecordOK'
    BY <1>2, EventTyped, SameTyped DEF CancelAnswer
  <2> QED
    BY <1>2, <2>1, FinishTyped, NavSame, PartsHeld DEF CancelAnswer
<1>3. CASE EnforceAnswer(w)
  <2>1. RecordOK'
    BY <1>3, EventTyped, SameTyped DEF EnforceAnswer
  <2>2. JobsOK'
    BY <1>3, FinishTyped, GotoTyped DEF EnforceAnswer, HeldAt, OperatorAt
  <2> QED
    BY <1>3, <2>1, <2>2, NavSame, PartsHeld DEF EnforceAnswer
<1>4. CASE EnforceEstop(w)
  <2>1. [job[w] EXCEPT !.at = "rhold", !.cargo = "UNKNOWN"] \in HeldJob
    BY DEF HeldJob, HeldAt, HeldCargo
  <2>2. JobsOK'
    BY <1>4, <2>1, BecomeTyped, GotoTyped
       DEF EnforceEstop, Below, OperatorAt, HeldJob, HeldAt
  <2>3. NavTypeOK'
    BY <1>4, AskedNavTyped DEF EnforceEstop
  <2> QED
    BY <1>4, <2>2, <2>3, SameTyped, PartsHeld DEF EnforceEstop
<1> QED
  BY <1>1, <1>2, <1>3, <1>4

LEMMA AbortTyped ==
    ASSUME HeldInv, NEW w \in Worker,
           AbortStop(w) \/ FinishAbort(w) \/ HoldAbort(w) \/ DisarmAborted(w)
    PROVE  HeldInv'
<1> USE Unpack
<1>1. CASE AbortStop(w)
  <2>1. w \in Requests
    BY <1>1 DEF AbortStop, Doing, InPlace, OperatorAt
  <2>2. JobsOK'
    BY <1>1, <2>1, GotoTyped DEF AbortStop, HeldAt, OperatorAt
  <2>3. NavTypeOK'
    BY <1>1, EndedNavTyped, NavSame DEF AbortStop, ManualStop
  <2> QED
    BY <1>1, <2>2, <2>3, SameTyped, PartsHeld DEF AbortStop
<1>2. CASE FinishAbort(w)
  <2>1. w \in Requests
    BY <1>2 DEF FinishAbort, Doing, InPlace, OperatorAt
  <2>2. JobsOK'
    BY <1>2, <2>1, GotoTyped, FinishTyped DEF FinishAbort, GiveUp, HeldAt, OperatorAt
  <2>3. [Cleared(orch) EXCEPT !.phase = "ABORTED", !.disp = "none"] \in HeldOrch
    <3>1. Cleared(orch) \in HeldOrch
      BY WritesTyped
    <3> QED
      BY <3>1 DEF HeldOrch, HeldPhase, Disp
  <2>4. RecordOK'
    BY <1>2, <2>3, SameTyped DEF FinishAbort, GiveUp, RecordOK, SameMonitor, monitorVars
  <2> QED
    BY <1>2, <2>2, <2>4, NavSame, PartsHeld DEF FinishAbort
<1>3. CASE HoldAbort(w)
  <2>1. [Cleared(Await(orch)) EXCEPT !.disp = "REJECTED", !.cargo = "UNKNOWN"] \in HeldOrch
    <3>1. Cleared(Await(orch)) \in HeldOrch
      BY WritesTyped
    <3> QED
      BY <3>1 DEF HeldOrch, Disp, HeldCargo
  <2> QED
    BY <1>3, <2>1, FinishTyped, SaveTyped, SameTyped, NavSame, PartsHeld DEF HoldAbort
<1>4. CASE DisarmAborted(w)
  BY <1>4, FinishTyped, MonitorTyped, NavSame, PartsHeld DEF DisarmAborted
<1> QED
  BY <1>1, <1>2, <1>3, <1>4

LEMMA SendTyped ==
    ASSUME HeldInv, NEW w \in Worker,
           SendEstop(w) \/ SendFleetEstop(w) \/ CloseStops(w) \/ SaveDecision(w)
    PROVE  HeldInv'
<1> USE Unpack
<1>1. CASE SendEstop(w)
  <2>1. JobsOK'
    BY <1>1, GotoTyped, FinishTyped DEF SendEstop, HeldAt, OperatorAt
  <2>2. NavTypeOK'
    BY <1>1, AskedNavTyped DEF SendEstop, TryEstop, SameNav
  <2> QED
    BY <1>1, <2>1, <2>2, SameTyped, PartsHeld DEF SendEstop, SameRecord, SameMonitor
<1>2. CASE SendFleetEstop(w)
  <2>1. w \in Requests
    BY <1>2 DEF SendFleetEstop, Doing, InPlace, OperatorAt
  <2>2. JobsOK'
    BY <1>2, <2>1, GotoTyped, FinishTyped DEF SendFleetEstop, HeldAt, OperatorAt
  <2>3. NavTypeOK'
    BY <1>2, AskedNavTyped DEF SendFleetEstop
  <2> QED
    BY <1>2, <2>2, <2>3, SameTyped, PartsHeld DEF SendFleetEstop
<1>3. CASE CloseStops(w)
  <2>1. RecordOK'
    BY <1>3 DEF CloseStops, RecordOK, SameMonitor, monitorVars
  <2> QED
    BY <1>3, <2>1, FinishTyped, NavSame, PartsHeld DEF CloseStops
<1>4. CASE SaveDecision(w)
  <2>1. \A c \in {"LOADED", "EMPTY"} : [job[w].snap EXCEPT !.cargo = c] \in HeldOrch
    BY DEF HeldOrch, HeldCargo
  <2> QED
    BY <1>4, <2>1, FinishTyped, SaveTyped, NavSame, PartsHeld DEF SaveDecision
<1> QED
  BY <1>1, <1>2, <1>3, <1>4

\* A request begins with a job of its own.
LEMMA BeginTyped ==
    ASSUME HeldInv, NEW w \in Requests, NEW j \in HeldJob, Below(j),
           j.at = "note" => "note" \in Faults,
           Become(w, j)
    PROVE  JobsOK'
  BY Unpack, BecomeTyped DEF Requests

LEMMA FreshJob ==
    ASSUME NEW a \in HeldAt, NEW o \in HeldOrch, NEW c \in Command \cup {NoCommand},
           NEW g \in HeldCargo
    PROVE  /\ [NoHeldJob EXCEPT !.at = a, !.snap = o, !.cargo = g] \in HeldJob
           /\ [NoHeldJob EXCEPT !.at = a, !.snap = o] \in HeldJob
           /\ [NoHeldJob EXCEPT !.at = a, !.cmd = c] \in HeldJob
           /\ [NoHeldJob EXCEPT !.at = a] \in HeldJob
  BY FirstTyped DEF HeldJob, NoHeldJob

LEMMA OperateTyped ==
    ASSUME HeldInv, NEW w \in Worker, Operate(w)
    PROVE  HeldInv'
<1> USE Unpack
<1>0. Request(w) => w \in Requests
  BY DEF Request, Requests
<1>1. ASSUME NEW c \in {"LOADED", "EMPTY"}, BeginResume(w, c) \/ BeginSafeMove(w, c)
      PROVE  HeldInv'
  <2>1. PICK a \in {"rhealth", "shealth"} :
          /\ BeginGated(w, a, c)
          /\ a = "rhealth" => orch.gen < MaxGen
          /\ a = "shealth" => orch.moves < MaxMoves
    BY <1>1 DEF BeginResume, BeginSafeMove
  <2> DEFINE j == [NoHeldJob EXCEPT !.at = a, !.snap = orch, !.cargo = c]
  <2>2. j \in HeldJob
    BY FreshJob DEF HeldAt, HeldCargo
  <2>3. Below(j) /\ j.at # "note"
    BY <2>1 DEF Below, NoHeldJob
  <2>4. JobsOK'
    BY <1>0, <2>1, <2>2, <2>3, BeginTyped DEF BeginGated
  <2> QED
    BY <2>1, <2>4, SameTyped, NavSame, PartsHeld DEF BeginGated
<1>2. CASE BeginAbort(w)
  <2> DEFINE j == [NoHeldJob EXCEPT !.at = "abort"]
  <2>1. j \in HeldJob /\ Below(j) /\ j.at # "note"
    BY FreshJob DEF HeldAt, Below, NoHeldJob
  <2>2. \A c \in {"LOADED", "EMPTY"} :
          [orch EXCEPT !.phase = "RECOVERY_RUNNING", !.cargo = c,
                       !.disp = "ABORT_STOP_REQUESTED"] \in HeldOrch
    BY DEF HeldOrch, HeldPhase, HeldCargo, Disp
  <2>3. JobsOK'
    BY <1>0, <1>2, <2>1, BeginTyped DEF BeginAbort
  <2> QED
    BY <1>2, <2>2, <2>3, SaveTyped, NavSame, PartsHeld DEF BeginAbort
<1>3. CASE RequestRecoveryStop(w)
  <2> DEFINE j == [NoHeldJob EXCEPT !.at = "scancel", !.cmd = SafeCmd(orch.rcmd)]
  <2>1. SafeCmd(orch.rcmd) \in Command
    BY <1>3, SafeCommand DEF RequestRecoveryStop, HeldOrch
  <2>2. j \in HeldJob /\ Below(j) /\ j.at # "note"
    BY <2>1, FreshJob DEF HeldAt, Below, NoHeldJob
  <2>3. [orch EXCEPT !.stopreq = TRUE, !.cargo = "UNKNOWN"] \in HeldOrch
    BY DEF HeldOrch, HeldCargo
  <2>4. JobsOK'
    BY <1>0, <1>3, <2>2, BeginTyped DEF RequestRecoveryStop
  <2> QED
    BY <1>3, <2>3, <2>4, SaveTyped, NavSame, PartsHeld DEF RequestRecoveryStop
<1>4. CASE FleetEstop(w)
  <2> DEFINE j == [NoHeldJob EXCEPT !.at = "festop"]
  <2>1. j \in HeldJob /\ Below(j) /\ j.at # "note"
    BY FreshJob DEF HeldAt, Below, NoHeldJob
  <2>2. JobsOK'
    BY <1>0, <1>4, <2>1, BeginTyped DEF FleetEstop
  <2> QED
    BY <1>4, <2>2, WritesTyped, SaveTyped, SameTyped, NavSame, PartsHeld DEF FleetEstop
<1>5. CASE ClearAll(w)
  <2> DEFINE j == [NoHeldJob EXCEPT !.at = "closing"]
  <2>1. j \in HeldJob /\ Below(j) /\ j.at # "note"
    BY FreshJob DEF HeldAt, Below, NoHeldJob
  <2>2. JobsOK'
    BY <1>0, <1>5, <2>1, BeginTyped DEF ClearAll
  <2>3. NavTypeOK'
    BY <1>5 DEF ClearAll, NavTypeOK
  <2> QED
    BY <1>5, <2>2, <2>3, SameTyped, PartsHeld DEF ClearAll
<1>6. CASE ReadDecision(w)
  <2> DEFINE j == [NoHeldJob EXCEPT !.at = "note", !.snap = orch]
  <2>1. j \in HeldJob /\ Below(j)
    BY FreshJob, FirstTyped DEF HeldAt, Below, NoHeldJob
  <2>2. JobsOK'
    BY <1>0, <1>6, <2>1, BeginTyped DEF ReadDecision
  <2> QED
    BY <1>6, <2>2, SameTyped, NavSame, PartsHeld DEF ReadDecision
<1> QED
  BY <1>1, <1>2, <1>3, <1>4, <1>5, <1>6 DEF Operate

LEMMA PollTyped == HeldInv /\ Poll => HeldInv'
<1> SUFFICES ASSUME HeldInv, Poll PROVE HeldInv'
  OBVIOUS
<1>0. Poller \in Worker
  BY HeldTaskAssumption
<1> USE Unpack
<1>1. CASE PollDispatch
  BY <1>0, <1>1, DispatchTyped DEF PollDispatch
<1>2. CASE PollStep
  BY <1>0, <1>2, StepEndTyped, SameJobs, NavSame, PartsHeld DEF PollStep
<1>3. CASE PollRecovery
  <2> DEFINE c == SafeCmd(orch.rcmd)
             j == [NoHeldJob EXCEPT !.snap = orch, !.cmd = c, !.cargo = orch.cargo]
  <2>1. c \in Command
    BY <1>0, <1>3, SafeCommand DEF PollRecovery, HeldOrch
  <2>2. ASSUME NEW a \in {"scancel", "rarm"}
        PROVE  LET k == [j EXCEPT !.at = a]
               IN  k \in HeldJob /\ Below(k) /\ k.at = a
    BY <1>0, <2>1, FirstTyped DEF HeldJob, HeldAt, HeldOrch, Below, NoHeldJob
  <2>3. ASSUME NEW a \in {"scancel", "rarm"}, Become(Poller, [j EXCEPT !.at = a])
        PROVE  JobsOK'
    <3> HIDE DEF j
    <3> QED
      BY <1>0, <2>2, <2>3, BecomeTyped DEF OperatorAt
  <2>4. JobsOK' /\ RecordOK'
    <3>1. CASE Become(Poller, [j EXCEPT !.at = "scancel"]) /\ SameRecord
      BY <1>0, <1>3, <2>3, <3>1, SameTyped DEF PollRecovery
    <3>2. CASE Become(Poller, [j EXCEPT !.at = "rarm"]) /\ SameRecord
      BY <1>0, <1>3, <2>3, <3>2, SameTyped DEF PollRecovery
    <3>3. CASE RecoveryEvent(c, Reported(nav[c])) /\ UNCHANGED job
      BY <1>0, <1>3, <3>3, EventTyped, SameJobs DEF PollRecovery
    <3> QED
      BY <1>3, <3>1, <3>2, <3>3 DEF PollRecovery
  <2> QED
    BY <1>0, <1>3, <2>4, NavSame, PartsHeld DEF PollRecovery
<1> QED
  BY <1>1, <1>2, <1>3 DEF Poll

LEMMA DeliverTyped == ASSUME HeldInv, NEW m \in mail, Deliver(m) PROVE HeldInv'
<1>0. NavTypeOK /\ RecordOK /\ JobsOK
  BY HeldParts
<1>1. NavTypeOK'
  BY <1>0 DEF Deliver, NavTypeOK
<1>2. RecordOK'
  BY <1>0, EventTyped, StepEndTyped DEF Deliver
<1> QED
  BY <1>0, <1>1, <1>2, SameJobs, PartsHeld DEF Deliver

\* Everything that is not Main's request or task poller.
LEMMA WorldTyped ==
    ASSUME HeldInv,
           \/ Monitor \/ NavStep \/ AIRestart \/ NavRestart \/ Crash \/ Restart
           \/ UNCHANGED vars
    PROVE  HeldInv'
<1>0. /\ NavTypeOK /\ RecordOK /\ JobsOK
      /\ Watcher \in Worker
  BY HeldParts, HeldTaskAssumption
<1>1. CASE SeePerson
  <2>1. JobsOK'
    BY <1>0, <1>1, GotoTyped DEF SeePerson, HeldAt, OperatorAt
  <2>2. RecordOK'
    BY <1>0, <1>1, HoldTyped DEF SeePerson, RecordOK, monitorVars
  <2> QED
    BY <1>0, <1>1, <2>1, <2>2, NavSame, PartsHeld DEF SeePerson, SameNav
<1>2. CASE MonitorOutage
  BY <1>0, <1>2, FailSafeTyped, NavSame, PartsHeld DEF MonitorOutage, SameNav
<1>3. CASE Reassert
  BY <1>0, <1>3, MonitorTyped, SameJobs, NavSame, PartsHeld
     DEF Reassert, SameNav, SameRecord
<1>4. CASE NavStep
  BY <1>0, <1>4, EndedNavTyped, SameTyped, SameJobs, PartsHeld DEF NavStep
<1>5. CASE AIRestart
  <2>1. RecordOK'
    BY <1>0, <1>5 DEF AIRestart, RecordOK, recordVars
  <2> QED
    BY <1>0, <1>5, <2>1, SameJobs, NavSame, PartsHeld DEF AIRestart, SameNav
<1>6. CASE NavRestart
  <2>1. NavTypeOK'
    BY <1>0, <1>6 DEF NavRestart, NavTypeOK, NavState
  <2> QED
    BY <1>0, <1>6, <2>1, SameTyped, SameJobs, PartsHeld
       DEF NavRestart, SameRecord, SameMonitor
<1>7. CASE Crash
  <2>1. RecordOK'
    BY <1>0, <1>7 DEF Crash, RecordOK, recordVars, Runtime
  <2>2. NoHeldJob.at = "idle"
    BY DEF NoHeldJob
  <2>3. job' \in [Worker -> HeldJob] /\ \A w \in Worker : job'[w] = NoHeldJob
    BY <1>7, FirstTyped DEF Crash
  <2>4. JobsOK'
    BY <2>2, <2>3 DEF JobsOK, Below, InPlace, OperatorAt
  <2> QED
    BY <1>0, <1>7, <2>1, <2>4, NavSame, PartsHeld DEF Crash, SameNav
<1>8. CASE Restart
  <2>1. NavTypeOK'
    BY <1>0, <1>8, AskedNavTyped DEF Restart, TryEstop, SameNav
  <2>2. RecordOK'
    <3>1. CASE CommitHold /\ rt' = "tripped"
      BY <1>0, <1>8, <3>1, HoldTyped DEF Restart, RecordOK, Runtime
    <3>2. CASE /\ UNCHANGED <<task, robot, orch>>
               /\ stopOpen' \in BOOLEAN /\ rt' \in Runtime
      BY <1>0, <1>8, <3>2 DEF Restart, RecordOK
    <3> QED
      BY <1>0, <1>8, <3>1, <3>2 DEF Restart, Runtime, recordVars, RecordOK
  <2> QED
    BY <1>0, <1>8, <2>1, <2>2, SameJobs, PartsHeld DEF Restart
<1>9. CASE UNCHANGED vars
  BY <1>0, <1>9, SameTyped, SameJobs, NavSame, PartsHeld
     DEF vars, SameRecord, SameMonitor, SameNav, recordVars, monitorVars, navVars
<1> QED
  BY <1>1, <1>2, <1>3, <1>4, <1>5, <1>6, <1>7, <1>8, <1>9 DEF Monitor

LEMMA ContinueTyped == ASSUME HeldInv, NEW w \in Worker, Continue(w) PROVE HeldInv'
<1>1. CASE DispatchResumed(w)
  BY <1>1, DispatchTyped DEF DispatchResumed
<1> QED
  BY <1>1, StepTyped, GateTyped, ResumeTyped, SafeMoveTyped, MoveTyped,
     MoveSavedTyped, StopTyped, AbortTyped, SendTyped DEF Continue

LEMMA InitHeld == HeldInit => HeldInv
<1> SUFFICES ASSUME HeldInit PROVE HeldInv
  OBVIOUS
<1>1. NavTypeOK
  BY DEF HeldInit, NavInit, NavTypeOK, NavState
<1>2. RecordOK
  BY FirstTyped DEF HeldInit, RecordOK, Runtime
<1>3. NoHeldJob.at = "idle"
  BY DEF NoHeldJob
<1>4. JobsOK
  BY <1>3, FirstTyped DEF HeldInit, JobsOK, Below, InPlace, OperatorAt
<1> QED
  BY <1>1, <1>2, <1>4, HeldParts

LEMMA NextHeld == HeldInv /\ [Next]_vars => HeldInv'
  BY ContinueTyped, OperateTyped, DeliverTyped, PollTyped, WorldTyped DEF Next

\* The record, its snapshots and the threads keep their types under every
\* interleaving: the retry and the safe move stay below their bounds because
\* a commit finds the record as the request read it.
THEOREM HeldTypeCorrect == Spec => []HeldTypeOK
<1>1. HeldInv => HeldTypeOK
  BY DEF HeldInv
<1> QED
  BY <1>1, InitHeld, NextHeld, PTL DEF Spec

-----------------------------------------------------------------------------
(* What a step may do to the job of a thread, to the record and to Nav.    *)

\* Threads that carry out a safe move.
Moving == {"rarm", "rclaim", "rpost", "rfinal", "rclose", "rhold", "estop_rhold",
           "rcancel", "rcancelling", "restop", "runstopped", "scancel",
           "scancelling"}

\* Places that no invariant speaks of.
Elsewhere == {"idle", "estop", "closing", "arm", "claim", "posted", "ahold"}

\* A thread goes on with the safe move that it has.
Onward(v) ==
    /\ job[v].at \in Moving
    /\ job'[v].at \in Moving \ {"rarm", "rclaim", "rpost", "scancel"}
    /\ job'[v].cmd = job[v].cmd

\* How a thread comes to where it is.
JobMove(v) ==
    LET j == job'[v]
    IN  \/ j = job[v]
        \/ j.at \in Elsewhere
        \/ Onward(v)
        \/ j.at = "note" /\ j.snap = orch /\ ReadDecision(v)
        \/ j.at = "post" /\ j.cmd = StepCmd(orch.gen) /\ ClaimStep(v)
        \/ /\ j.at = "rhealth" /\ j.snap = orch
           /\ \E c \in {"LOADED", "EMPTY"} : BeginResume(v, c)
        \/ j.at = "rverify" /\ j.snap = job[v].snap /\ Health(v) /\ Doing(v, "rhealth")
        \/ j.at = "rcommit" /\ j.snap = job[v].snap /\ Verify(v)
        \/ /\ j.at = "shealth" /\ j.snap = orch
           /\ \E c \in {"LOADED", "EMPTY"} : BeginSafeMove(v, c)
        \/ j.at = "scommit" /\ j.snap = job[v].snap /\ Health(v) /\ Doing(v, "shealth")
        \/ j.at = "abort" /\ BeginAbort(v)
        \/ j.at = "afinal" /\ AbortStop(v)
        \/ j.at = "festop" /\ FleetEstop(v)
        \/ j.at = "disarm" /\ (FinishAbort(v) \/ SendFleetEstop(v))
        \/ j.at = "rarm" /\ j.snap = orch' /\ j.cmd = SafeCmd(orch'.rcmd)
                         /\ (CommitSafeMove(v) \/ (v = Poller /\ PollRecovery))
        \/ /\ j.at = "rclaim" /\ j.snap = job[v].snap /\ j.cmd = job[v].cmd
           /\ ArmRecovery(v)
        \/ /\ j.at = "rpost" /\ j.snap = job[v].snap /\ j.cmd = job[v].cmd
           /\ ClaimRecovery(v)
        \/ /\ j.at = "scancel" /\ j.cmd = SafeCmd(orch.rcmd)
           /\ RequestRecoveryStop(v) \/ (v = Poller /\ PollRecovery)

LEMMA Becomes ==
    ASSUME HeldInv, NEW w \in Worker, NEW j, Become(w, j)
    PROVE  job'[w] = j /\ \A v \in Worker : v # w => job'[v] = job[v]
  BY DEF HeldInv, HeldTypeOK, Become

LEMMA Goes ==
    ASSUME HeldInv, NEW w \in Worker, NEW a, Goto(w, a)
    PROVE  /\ job'[w].at = a /\ job'[w].snap = job[w].snap
           /\ job'[w].cmd = job[w].cmd
           /\ \A v \in Worker : v # w => job'[v] = job[v]
  BY DEF HeldInv, HeldTypeOK, Goto, Become, HeldJob

LEMMA Finishes ==
    ASSUME HeldInv, NEW w \in Worker, Finish(w)
    PROVE  job'[w].at = "idle" /\ \A v \in Worker : v # w => job'[v] = job[v]
  BY DEF HeldInv, HeldTypeOK, Finish, Become, NoHeldJob

\* The job of a thread after a step of thread w.
LEMMA ContinueJobs ==
    ASSUME HeldInv, NEW w \in Worker, Continue(w), NEW v \in Worker
    PROVE  JobMove(v)
<1> USE Unpack, Becomes, Goes, Finishes
<1> USE DEF GiveUp, JobMove, Elsewhere, Onward, Moving, Doing
<1>1. CASE SendEstop(w)
  BY <1>1 DEF SendEstop
<1>2. CASE ClaimStep(w)
  <2> DEFINE j == [NoHeldJob EXCEPT !.at = "post", !.cmd = StepCmd(orch.gen)]
  <2>1. j.at = "post" /\ j.cmd = StepCmd(orch.gen)
    BY DEF NoHeldJob
  <2>2. Become(w, j) \/ Finish(w)
    BY <1>2 DEF ClaimStep
  <2> HIDE DEF j
  <2> QED
    BY <1>2, <2>1, <2>2
<1>3. CASE PostStep(w)
  BY <1>3 DEF PostStep
<1>4. CASE FinishStep(w)
  BY <1>4 DEF FinishStep
<1>5. CASE Health(w)
  BY <1>5 DEF Health
<1>6. CASE Verify(w)
  BY <1>6 DEF Verify
<1>7. CASE CommitResume(w)
  BY <1>7 DEF CommitResume, NoHeldJob
<1>8. CASE CommitSafeMove(w)
  <2> DEFINE n == orch.moves + 1
             o == [orch EXCEPT !.phase = "RECOVERY_RUNNING", !.moves = n,
                               !.rcmd = n, !.disp = "PENDING",
                               !.watch = (job[w].cargo = "LOADED"),
                               !.cargo = job[w].cargo]
             j == [job[w] EXCEPT !.at = "rarm", !.snap = o, !.cmd = SafeCmd(n)]
  <2>1. o.rcmd = n
    BY DEF HeldOrch
  <2>2. j.at = "rarm" /\ j.snap = o /\ j.cmd = SafeCmd(n)
    BY DEF HeldJob
  <2>3. CASE Save(o) /\ Become(w, j)
    <3>1. orch' = o /\ job'[w] = j /\ (v # w => job'[v] = job[v])
      BY <2>3 DEF Save
    <3> HIDE DEF o, j
    <3> QED
      BY <1>8, <2>1, <2>2, <3>1
  <2> QED
    BY <1>8, <2>3 DEF CommitSafeMove
<1>9. CASE ClaimRecovery(w)
  BY <1>9 DEF ClaimRecovery
<1>10. CASE PostRecovery(w)
  BY <1>10 DEF PostRecovery
<1>11. CASE FinalizeRecovery(w)
  BY <1>11 DEF FinalizeRecovery
<1>12. CASE CloseAmbiguous(w)
  <2> DEFINE j == [job[w] EXCEPT !.at = "rhold", !.cargo = "UNKNOWN"]
  <2>1. j.at = "rhold" /\ j.cmd = job[w].cmd
    BY DEF HeldJob
  <2>2. Become(w, j)
    BY <1>12 DEF CloseAmbiguous
  <2>3. job[w].at \in Moving
    BY <1>12 DEF CloseAmbiguous
  <2> HIDE DEF j
  <2> QED
    BY <2>1, <2>2, <2>3
<1>13. CASE HoldRecovery(w)
  BY <1>13 DEF HoldRecovery
<1>14. CASE SendCancel(w)
  BY <1>14 DEF SendCancel
<1>15. CASE CancelAnswer(w)
  BY <1>15 DEF CancelAnswer
<1>16. CASE EnforceAnswer(w)
  BY <1>16 DEF EnforceAnswer
<1>17. CASE EnforceEstop(w)
  <2> DEFINE j == [job[w] EXCEPT !.at = "rhold", !.cargo = "UNKNOWN"]
  <2>1. j.at = "rhold" /\ j.cmd = job[w].cmd
    BY DEF HeldJob
  <2>2. Become(w, j) \/ Goto(w, "runstopped")
    BY <1>17 DEF EnforceEstop
  <2>3. job[w].at \in Moving
    BY <1>17 DEF EnforceEstop
  <2> HIDE DEF j
  <2> QED
    BY <2>1, <2>2, <2>3
<1>18. CASE MarkUnstopped(w)
  BY <1>18 DEF MarkUnstopped
<1>19. CASE AbortStop(w)
  BY <1>19 DEF AbortStop
<1>20. CASE FinishAbort(w)
  BY <1>20 DEF FinishAbort
<1>21. CASE HoldAbort(w)
  BY <1>21 DEF HoldAbort
<1>22. CASE DisarmAborted(w)
  BY <1>22 DEF DisarmAborted
<1>23. CASE SendFleetEstop(w)
  BY <1>23 DEF SendFleetEstop
<1>24. CASE CloseStops(w)
  BY <1>24 DEF CloseStops
<1>25. CASE SaveDecision(w)
  BY <1>25 DEF SaveDecision
<1>26. CASE ArmRecovery(w)
  BY <1>26 DEF ArmRecovery, FailSafe
<1>27. CASE DispatchResumed(w)
  BY <1>27 DEF DispatchResumed, PrepareStep, FailSafe, NoHeldJob
<1> QED
  BY <1>1, <1>2, <1>3, <1>4, <1>5, <1>6, <1>7, <1>8, <1>9, <1>10, <1>11, <1>12, <1>13, <1>14, <1>15, <1>16, <1>17, <1>18, <1>19, <1>20, <1>21, <1>22, <1>23, <1>24, <1>25, <1>26, <1>27
     DEF Continue

LEMMA OperateJobs ==
    ASSUME HeldInv, NEW w \in Worker, Operate(w), NEW v \in Worker
    PROVE  JobMove(v)
<1> USE Unpack, Becomes
<1>1. ASSUME NEW c \in {"LOADED", "EMPTY"}, NEW a \in {"rhealth", "shealth"},
             BeginGated(w, a, c),
             a = "rhealth" => BeginResume(w, c),
             a = "shealth" => BeginSafeMove(w, c)
      PROVE  JobMove(v)
  <2> DEFINE j == [NoHeldJob EXCEPT !.at = a, !.snap = orch, !.cargo = c]
  <2>1. j.at = a /\ j.snap = orch
    BY DEF NoHeldJob
  <2>2. Become(w, j)
    BY <1>1 DEF BeginGated
  <2> HIDE DEF j
  <2> QED
    BY <1>1, <2>1, <2>2 DEF JobMove
<1>2. ASSUME NEW c \in {"LOADED", "EMPTY"}, BeginResume(w, c) \/ BeginSafeMove(w, c)
      PROVE  JobMove(v)
  BY <1>1, <1>2 DEF BeginResume, BeginSafeMove
<1>3. CASE BeginAbort(w)
  <2> DEFINE j == [NoHeldJob EXCEPT !.at = "abort"]
  <2>1. j.at = "abort"
    BY DEF NoHeldJob
  <2>2. Become(w, j)
    BY <1>3 DEF BeginAbort
  <2> HIDE DEF j
  <2> QED
    BY <1>3, <2>1, <2>2 DEF JobMove
<1>4. CASE RequestRecoveryStop(w)
  <2> DEFINE j == [NoHeldJob EXCEPT !.at = "scancel", !.cmd = SafeCmd(orch.rcmd)]
  <2>1. j.at = "scancel" /\ j.cmd = SafeCmd(orch.rcmd)
    BY DEF NoHeldJob
  <2>2. Become(w, j)
    BY <1>4 DEF RequestRecoveryStop
  <2> HIDE DEF j
  <2> QED
    BY <1>4, <2>1, <2>2 DEF JobMove
<1>5. CASE FleetEstop(w)
  BY <1>5 DEF FleetEstop, NoHeldJob, JobMove
<1>6. CASE ClearAll(w)
  BY <1>6 DEF ClearAll, NoHeldJob, JobMove, Elsewhere
<1>7. CASE ReadDecision(w)
  <2> DEFINE j == [NoHeldJob EXCEPT !.at = "note", !.snap = orch]
  <2>1. j.at = "note" /\ j.snap = orch
    BY DEF NoHeldJob
  <2>2. Become(w, j)
    BY <1>7 DEF ReadDecision
  <2> HIDE DEF j
  <2> QED
    BY <1>7, <2>1, <2>2 DEF JobMove
<1> QED
  BY <1>2, <1>3, <1>4, <1>5, <1>6, <1>7 DEF Operate

LEMMA OtherJobs ==
    ASSUME HeldInv, NEW v \in Worker,
           \/ Poll \/ Monitor \/ NavStep \/ AIRestart \/ NavRestart \/ Crash
           \/ Restart \/ UNCHANGED vars \/ \E m \in mail : Deliver(m)
    PROVE  JobMove(v)
<1>0. Poller \in Worker /\ Watcher \in Worker
  BY HeldTaskAssumption
<1> USE <1>0, Becomes, Goes
<1>1. CASE UNCHANGED job
  BY <1>1 DEF JobMove
<1>2. CASE PollDispatch
  BY <1>2 DEF PollDispatch, PrepareStep, FailSafe, NoHeldJob, JobMove, Elsewhere
<1>3. CASE PollRecovery
  <2> DEFINE j == [NoHeldJob EXCEPT !.snap = orch, !.cmd = SafeCmd(orch.rcmd),
                                    !.cargo = orch.cargo]
             s == [j EXCEPT !.at = "scancel"]
             r == [j EXCEPT !.at = "rarm"]
  <2>1. /\ s.at = "scancel" /\ s.cmd = SafeCmd(orch.rcmd)
        /\ r.at = "rarm" /\ r.cmd = SafeCmd(orch.rcmd) /\ r.snap = orch
    BY DEF NoHeldJob
  <2>2. \/ Become(Poller, s)
        \/ Become(Poller, r) /\ SameRecord
        \/ UNCHANGED job
    BY <1>3 DEF PollRecovery
  <2> HIDE DEF s, r
  <2>3. CASE Become(Poller, s)
    BY <1>3, <2>1, <2>3 DEF JobMove
  <2>4. CASE Become(Poller, r) /\ SameRecord
    BY <1>3, <2>1, <2>4 DEF JobMove, SameRecord, recordVars
  <2> QED
    BY <1>1, <2>2, <2>3, <2>4
<1>4. CASE SeePerson \/ MonitorOutage
  BY <1>4 DEF SeePerson, MonitorOutage, FailSafe, JobMove, Elsewhere
<1>5. CASE Crash
  BY <1>5 DEF Crash, NoHeldJob, JobMove, Elsewhere
<1> QED
  BY <1>1, <1>2, <1>3, <1>4, <1>5
     DEF Poll, PollStep, Monitor, Reassert, NavStep, AIRestart, NavRestart, Restart,
         vars, Deliver

LEMMA JobsMove == ASSUME HeldInv, [Next]_vars, NEW v \in Worker PROVE JobMove(v)
  BY ContinueJobs, OperateJobs, OtherJobs DEF Next

Begun == {"NONE", "ACTIVE"}

\* Threads that are about to send an E-stop.
Halting == {"estop", "estop_rhold", "festop", "rclose", "restop"}

\* What makes a hold: an E-stop that follows or came before, a safe move that
\* ended or was never sent, or a restart of Main.
WhyHeld ==
    \/ \E w \in Worker : job'[w].at \in Halting
    \/ \E w \in Worker : job[w].at = "rhold"
    \/ LET c == SafeCmd(orch.rcmd)
       IN  Owns(c) /\ (nav[c] \notin Begun \/ \E m \in mail : m.cmd = c)
    \/ /\ orch.phase = "RECOVERY_RUNNING"
       /\ orch.disp \in {"PENDING", "ABORT_STOP_REQUESTED"}
    \/ Restart

\* The record is held, by whomever: the safe move is over.
PutOnHold ==
    /\ orch'.phase = "AWAITING_OPERATOR"
    /\ orch'.rcmd = 0
    /\ orch'.disp \in {"none", "REJECTED"}
    /\ orch'.gen = orch.gen /\ orch'.st = orch.st /\ orch'.moves = orch.moves
    /\ task' = task

\* The dispatch of a safe move goes on, or is noted to be stopped.
DispOnward ==
    /\ orch'.phase = orch.phase /\ orch'.rcmd = orch.rcmd
    /\ orch'.gen = orch.gen /\ orch'.st = orch.st /\ orch'.moves = orch.moves
    /\ orch'.watch = orch.watch
    /\ task' = task
    /\ \/ orch'.disp = orch.disp
       \/ /\ orch.disp = "PENDING" /\ orch'.disp = "DISPATCHING"
          /\ \E w \in Worker : ClaimRecovery(w) /\ Owns(job[w].cmd)
       \/ /\ orch.disp = "DISPATCHING" /\ orch'.disp = "SENT"

\* The dispatch of the step goes on.
StepOnward ==
    /\ orch.phase = "RUNNING" /\ orch.st \in {"pending", "dispatching"}
    /\ orch'.st \in {"dispatching", "dispatched"}
    /\ orch'.phase = orch.phase /\ orch'.rcmd = orch.rcmd
    /\ orch'.gen = orch.gen /\ orch'.moves = orch.moves /\ orch'.disp = orch.disp
    /\ orch'.watch = orch.watch
    /\ task' = task

\* The step ends, with the task or in a hold.
StepEnds(c) ==
    /\ task = "RUNNING" /\ orch.phase = "RUNNING" /\ orch.st = "dispatched"
    /\ c = StepCmd(orch.gen)
    /\ \/ task' \in {"DONE", "FAILED"} /\ orch'.phase \in {"DONE", "FAILED"}
       \/ task' = task /\ orch'.phase = "AWAITING_OPERATOR"
    /\ orch'.st = "ended"
    /\ orch'.rcmd = orch.rcmd /\ orch'.gen = orch.gen /\ orch'.moves = orch.moves
    /\ orch'.disp = orch.disp

\* The steps that write the record.
RecordMove ==
    \/ UNCHANGED <<task, orch>>
    \/ PutOnHold /\ WhyHeld
    \/ DispOnward
    \/ StepOnward
    \/ \E m \in mail : Deliver(m) /\ StepEnds(m.cmd)
    \/ \E c \in Command : PollStep /\ nav[c] \in Terminal /\ StepEnds(c)
    \/ \E w \in Worker :
          \/ CommitResume(w) /\ StillGated(w) /\ task' = task
             /\ orch'.phase = "RUNNING" /\ orch'.st = "pending"
             /\ orch'.gen = orch.gen + 1 /\ orch'.rcmd = 0
             /\ orch'.moves = orch.moves /\ orch'.disp = "none"
          \/ CommitSafeMove(w) /\ StillGated(w) /\ task' = task
             /\ orch'.phase = "RECOVERY_RUNNING" /\ orch'.disp = "PENDING"
             /\ orch'.moves = orch.moves + 1 /\ orch'.rcmd = orch'.moves
             /\ orch'.gen = orch.gen /\ orch'.st = orch.st
          \/ BeginAbort(w) /\ Held /\ task' = task
             /\ orch'.phase = "RECOVERY_RUNNING" /\ orch'.disp = "ABORT_STOP_REQUESTED"
             /\ orch'.gen = orch.gen /\ orch'.st = orch.st
             /\ orch'.rcmd = orch.rcmd /\ orch'.moves = orch.moves
          \/ FinishAbort(w) /\ Aborting /\ task' = "CANCELLED"
             /\ orch'.phase = "ABORTED" /\ orch'.disp = "none"
             /\ orch'.gen = orch.gen /\ orch'.st = orch.st
             /\ orch'.rcmd = 0 /\ orch'.moves = orch.moves
          \/ SaveDecision(w) /\ task' = task
             /\ \E c \in {"LOADED", "EMPTY"} : orch' = [job[w].snap EXCEPT !.cargo = c]

LEMMA Holds ==
    ASSUME HeldInv
    PROVE  /\ Save(Marked(orch)) => PutOnHold
           /\ CommitHold => PutOnHold
           /\ \A c, e : RecoveryEvent(c, e)
                  => \/ PutOnHold /\ c = SafeCmd(orch.rcmd) /\ Owns(c)
                     \/ UNCHANGED <<task, orch>>
<1>0. orch \in HeldOrch
  BY HeldParts DEF RecordOK
<1>1. /\ Marked(orch).phase = "AWAITING_OPERATOR" /\ Marked(orch).rcmd = 0
      /\ Marked(orch).disp = "none"
      /\ Marked(orch).gen = orch.gen /\ Marked(orch).st = orch.st
      /\ Marked(orch).moves = orch.moves
  BY <1>0 DEF HeldOrch, Marked, Await
<1>2. ASSUME NEW g
      PROVE  LET o == [Await(orch) EXCEPT !.rcmd = 0, !.disp = "none",
                                          !.stopreq = FALSE, !.cargo = g]
             IN  Save(o) => PutOnHold
  BY <1>0 DEF HeldOrch, Await, Save, PutOnHold
<1>3. \A c, e : RecoveryEvent(c, e)
                  => \/ PutOnHold /\ c = SafeCmd(orch.rcmd) /\ Owns(c)
                     \/ UNCHANGED <<task, orch>>
  BY <1>2 DEF RecoveryEvent, SameRecord, recordVars, Owns
<1> QED
  BY <1>1, <1>3 DEF Save, CommitHold, PutOnHold

LEMMA StepEndsRecord ==
    ASSUME HeldInv, NEW c, NEW e, StepEvent(c, e)
    PROVE  StepEnds(c) \/ UNCHANGED <<task, orch>>
<1>0. orch \in HeldOrch
  BY HeldParts DEF RecordOK
<1>1. CASE SameRecord
  BY <1>1 DEF SameRecord, recordVars
<1>2. CASE /\ task = "RUNNING" /\ orch.phase = "RUNNING" /\ orch.st = "dispatched"
           /\ c = StepCmd(orch.gen)
  <2>1. ASSUME NEW s \in {"DONE", "FAILED"}, EndTask(s, s)
        PROVE  StepEnds(c)
    BY <1>0, <1>2, <2>1 DEF EndTask, StepEnds, HeldOrch
  <2>2. Save([Await(orch) EXCEPT !.st = "ended"]) => StepEnds(c)
    BY <1>0, <1>2 DEF Save, Await, StepEnds, HeldOrch
  <2> QED
    BY <1>2, <2>1, <2>2 DEF StepEvent
<1> QED
  BY <1>1, <1>2 DEF StepEvent

LEMMA ContinueRecord ==
    ASSUME HeldInv, NEW w \in Worker, Continue(w)
    PROVE  RecordMove
<1> USE Unpack
<1>0. UNCHANGED <<task, orch>> => RecordMove
  BY DEF RecordMove
<1>1. SameRecord => RecordMove
  BY <1>0 DEF SameRecord, recordVars
<1>2. PutOnHold /\ WhyHeld => RecordMove
  BY DEF RecordMove
<1>3. DispOnward => RecordMove
  BY DEF RecordMove
<1>4. \A n : FailSafe(w, n) => RecordMove
  BY <1>1, <1>2, Holds, Goes DEF FailSafe, SameRecord, WhyHeld, Halting
<1>5. CASE \/ SendEstop(w) \/ PostStep(w) \/ Health(w) \/ Verify(w)
           \/ PostRecovery(w) \/ CloseAmbiguous(w) \/ SendCancel(w) \/ EnforceEstop(w)
           \/ AbortStop(w) \/ DisarmAborted(w) \/ SendFleetEstop(w)
  BY <1>1, <1>5 DEF SendEstop, PostStep, Health, Verify, PostRecovery,
     CloseAmbiguous, SendCancel, EnforceEstop, AbortStop, DisarmAborted,
     SendFleetEstop, SameRecord
<1>6. CASE DispatchResumed(w) \/ ArmRecovery(w)
  BY <1>1, <1>4, <1>6 DEF DispatchResumed, PrepareStep, ArmRecovery
<1>7. CASE ClaimStep(w)
  <2>1. CASE /\ orch.phase = "RUNNING" /\ orch.st \in {"pending", "dispatching"}
             /\ Save([orch EXCEPT !.st = "dispatching"])
    BY <2>1 DEF Save, StepOnward, RecordMove, HeldOrch
  <2> QED
    BY <1>1, <1>7, <2>1 DEF ClaimStep, GiveUp
<1>8. CASE FinishStep(w)
  <2>1. CASE /\ orch.phase = "RUNNING" /\ orch.st \in {"pending", "dispatching"}
             /\ Save([orch EXCEPT !.st = "dispatched"])
    BY <2>1 DEF Save, StepOnward, RecordMove, HeldOrch
  <2> QED
    BY <1>1, <1>8, <2>1 DEF FinishStep
<1>9. CASE CommitResume(w)
  <2>1. CASE /\ StillGated(w)
             /\ Save([orch EXCEPT !.phase = "RUNNING", !.st = "pending",
                                  !.gen = orch.gen + 1, !.rcmd = 0,
                                  !.disp = "none", !.stopreq = FALSE,
                                  !.cargo = job[w].cargo])
    BY <1>9, <2>1 DEF Save, RecordMove, HeldOrch
  <2> QED
    BY <1>1, <1>9, <2>1 DEF CommitResume, GiveUp
<1>10. CASE CommitSafeMove(w)
  <2>1. CASE /\ StillGated(w)
             /\ Save([orch EXCEPT !.phase = "RECOVERY_RUNNING",
                                  !.moves = orch.moves + 1,
                                  !.rcmd = orch.moves + 1, !.disp = "PENDING",
                                  !.watch = (job[w].cargo = "LOADED"),
                                  !.cargo = job[w].cargo])
    BY <1>10, <2>1 DEF Save, RecordMove, HeldOrch
  <2> QED
    BY <1>1, <1>10, <2>1 DEF CommitSafeMove, GiveUp
<1>11. CASE ClaimRecovery(w)
  <2>1. CASE /\ Owns(job[w].cmd) /\ orch.disp = "PENDING"
             /\ Save([Cleared(Await(orch)) EXCEPT !.disp = "none",
                                                  !.cargo = "UNKNOWN"])
    <3>1. PutOnHold
      BY <2>1 DEF Save, PutOnHold, Cleared, Await, HeldOrch
    <3> QED
      BY <1>2, <2>1, <3>1 DEF WhyHeld, Owns
  <2>2. CASE /\ Owns(job[w].cmd) /\ orch.disp = "PENDING"
             /\ Save([orch EXCEPT !.disp = "DISPATCHING"])
    BY <1>3, <1>11, <2>2 DEF Save, DispOnward, HeldOrch
  <2> QED
    BY <1>1, <1>11, <2>1, <2>2 DEF ClaimRecovery, GiveUp
<1>12. CASE FinalizeRecovery(w)
  <2>1. CASE orch.disp = "DISPATCHING" /\ Save([orch EXCEPT !.disp = "SENT"])
    BY <1>3, <2>1 DEF Save, DispOnward, HeldOrch
  <2> QED
    BY <1>1, <1>12, <2>1 DEF FinalizeRecovery, GiveUp
<1>13. CASE HoldRecovery(w) \/ HoldAbort(w)
  <2>1. ASSUME NEW g, Save([Cleared(Await(orch)) EXCEPT !.disp = "REJECTED",
                                                        !.cargo = g])
        PROVE  PutOnHold
    BY <2>1 DEF Save, PutOnHold, Cleared, Await, HeldOrch
  <2> QED
    BY <1>1, <1>2, <1>13, <2>1 DEF HoldRecovery, HoldAbort, WhyHeld, Aborting, Doing
<1>14. CASE CancelAnswer(w) \/ EnforceAnswer(w)
  <2>1. RecoveryEvent(job[w].cmd, Reported(nav[job[w].cmd]))
           /\ nav[job[w].cmd] \notin Begun => RecordMove
    BY <1>0, <1>2, Holds DEF WhyHeld
  <2> QED
    BY <1>1, <1>14, <2>1
       DEF CancelAnswer, EnforceAnswer, Answered, CancelTerminal, Begun
<1>15. CASE MarkUnstopped(w)
  <2>1. CASE Save([orch EXCEPT !.cargo = "UNKNOWN"])
    BY <1>3, <2>1 DEF Save, DispOnward, HeldOrch
  <2> QED
    BY <1>1, <1>15, <2>1 DEF MarkUnstopped
<1>16. CASE FinishAbort(w)
  <2>1. CASE /\ Aborting /\ task' = "CANCELLED"
             /\ orch' = [Cleared(orch) EXCEPT !.phase = "ABORTED", !.disp = "none"]
    BY <1>16, <2>1 DEF RecordMove, Cleared, HeldOrch
  <2> QED
    BY <1>1, <1>16, <2>1 DEF FinishAbort, GiveUp
<1>17. CASE CloseStops(w)
  BY <1>0, <1>17 DEF CloseStops
<1>18. CASE SaveDecision(w)
  BY <1>18 DEF SaveDecision, Save, RecordMove
<1> QED
  BY <1>5, <1>6, <1>7, <1>8, <1>9, <1>10, <1>11, <1>12, <1>13, <1>14, <1>15,
     <1>16, <1>17, <1>18 DEF Continue

LEMMA OtherRecord ==
    ASSUME HeldInv, [Next]_vars, \A w \in Worker : ~Continue(w)
    PROVE  RecordMove
<1>0. orch \in HeldOrch /\ Poller \in Worker /\ Watcher \in Worker
  BY HeldParts, HeldTaskAssumption DEF RecordOK
<1>1. UNCHANGED <<task, orch>> \/ (PutOnHold /\ WhyHeld) => RecordMove
  BY DEF RecordMove
<1>2. SameRecord => RecordMove
  BY <1>1 DEF SameRecord, recordVars
<1>3. ASSUME NEW w \in Worker, Operate(w) PROVE RecordMove
  <2>1. CASE BeginAbort(w)
    <3>1. ASSUME NEW c,
                 Save([orch EXCEPT !.phase = "RECOVERY_RUNNING", !.cargo = c,
                                   !.disp = "ABORT_STOP_REQUESTED"])
          PROVE  RecordMove
      BY <1>0, <2>1, <3>1 DEF Save, RecordMove, HeldOrch, BeginAbort
    <3> QED
      BY <2>1, <3>1 DEF BeginAbort
  <2>2. CASE RequestRecoveryStop(w)
    <3>1. CASE Save(orch)
      BY <1>1, <3>1 DEF Save
    <3>2. CASE Save([orch EXCEPT !.stopreq = TRUE, !.cargo = "UNKNOWN"])
      BY <1>0, <3>2 DEF Save, DispOnward, HeldOrch, RecordMove
    <3> QED
      BY <2>2, <3>1, <3>2 DEF RequestRecoveryStop
  <2>3. CASE FleetEstop(w)
    <3>1. job'[w].at = "festop"
      BY <1>3, <2>3, Becomes DEF FleetEstop, NoHeldJob
    <3> QED
      BY <1>1, <1>2, <1>3, <2>3, <3>1, Holds DEF FleetEstop, WhyHeld, Halting
  <2> QED
    BY <1>2, <1>3, <2>1, <2>2, <2>3
       DEF Operate, BeginResume, BeginSafeMove, BeginGated, ClearAll, ReadDecision
<1>4. \A w \in Worker : \A n : FailSafe(w, n) => RecordMove
  BY <1>1, <1>2, Holds, Goes DEF FailSafe, SameRecord, WhyHeld, Halting
<1>5. ASSUME NEW m \in mail, Deliver(m) PROVE RecordMove
  <2>1. StepEnds(m.cmd) \/ (PutOnHold /\ WhyHeld) \/ UNCHANGED <<task, orch>>
    BY <1>5, Holds, StepEndsRecord DEF Deliver, WhyHeld
  <2> QED
    BY <1>1, <1>5, <2>1 DEF RecordMove
<1>6. CASE PollStep
  <2>1. StepCmd(orch.gen) \in Command
    BY <1>0, StepCommand DEF HeldOrch
  <2> QED
    BY <1>1, <1>6, <2>1, StepEndsRecord DEF PollStep, RecordMove
<1>7. CASE PollDispatch \/ PollRecovery
  BY <1>0, <1>1, <1>2, <1>4, <1>7, Holds
     DEF PollDispatch, PrepareStep, PollRecovery, WhyHeld, Terminal, Begun
<1>8. CASE Monitor \/ Crash \/ Restart
  <2>1. CASE SeePerson
    <3>1. job'[Watcher].at = "estop"
      BY <1>0, <2>1, Goes DEF SeePerson
    <3> QED
      BY <1>0, <1>1, <2>1, <3>1, Holds DEF SeePerson, WhyHeld, Halting
  <2>2. CASE Restart
    BY <1>1, <2>2, Holds DEF Restart, WhyHeld, recordVars
  <2> QED
    BY <1>0, <1>1, <1>4, <1>8, <2>1, <2>2 DEF Monitor, MonitorOutage, Reassert,
       Crash, recordVars
<1>9. CASE NavStep \/ AIRestart \/ NavRestart \/ UNCHANGED vars
  BY <1>1, <1>2, <1>9 DEF NavStep, AIRestart, NavRestart, vars, SameRecord, recordVars
<1> QED
  BY <1>3, <1>5, <1>6, <1>7, <1>8, <1>9 DEF Next, Poll

LEMMA RecordMoves == HeldInv /\ [Next]_vars => RecordMove
  BY ContinueRecord, OtherRecord

\* A command that Nav does not know, or runs.
\* What may become of a command, and who did it.
Starts(c) ==
    /\ nav[c] = "NONE" /\ Active = {}
    /\ \E w \in Worker : job[w].at \in {"post", "rpost"} /\ job[w].cmd = c

CommandMove(c) ==
    \/ nav'[c] = nav[c]
    \/ nav'[c] = "ACTIVE" /\ Starts(c) /\ \A d \in Command : d # c => nav'[d] = nav[d]
    \/ nav'[c] \notin Begun /\ nav[c] # "NONE"
    \/ /\ nav'[c] \notin Begun
       /\ \E w \in Worker : job[w].at \in {"scancel", "rcancel"} /\ job[w].cmd = c
    \/ nav'[c] = "NONE" /\ NavRestart

NavMove ==
    /\ \A c \in Command : CommandMove(c)
    /\ \A m \in mail' : m \in mail \/ nav'[m.cmd] \notin Begun

LEMMA AcceptMoves ==
    ASSUME HeldInv, NEW w \in Worker, job[w].at \in {"post", "rpost"},
           Accept(job[w].cmd) \/ Refuse(job[w].cmd)
    PROVE  NavMove
<1>1. nav \in [Command -> NavState]
  BY DEF HeldInv, HeldTypeOK, NavTypeOK
<1>2. \A m \in mail' : m \in mail
  BY DEF Accept, Refuse, Register, Duplicate, RefuseGate, RefuseBusy
<1>3. CASE nav' = nav
  BY <1>2, <1>3 DEF NavMove, CommandMove
<1>4. CASE Register(job[w].cmd)
  <2>1. ASSUME NEW c \in Command PROVE CommandMove(c)
    <3>1. CASE c = job[w].cmd
      BY <1>1, <1>4, <3>1 DEF Register, CommandMove, Starts
    <3>2. CASE c # job[w].cmd
      BY <1>1, <1>4, <3>2 DEF Register, CommandMove
    <3> QED
      BY <3>1, <3>2
  <2> QED
    BY <1>2, <2>1 DEF NavMove
<1> QED
  BY <1>3, <1>4 DEF Accept, Refuse, Duplicate, RefuseGate, RefuseBusy

LEMMA CancelMoves ==
    ASSUME HeldInv, NEW w \in Worker, job[w].at \in {"scancel", "rcancel"},
           Cancel(job[w].cmd)
    PROVE  NavMove
<1>1. nav \in [Command -> NavState]
  BY DEF HeldInv, HeldTypeOK, NavTypeOK
<1>2. mail' = mail
  BY DEF Cancel, CancelUnknown, CancelSettled, CancelBegin, navVars
<1>3. ASSUME NEW c \in Command PROVE CommandMove(c)
  <2>1. CASE c = job[w].cmd
    BY <1>1, <2>1 DEF Cancel, CancelUnknown, CancelSettled, CancelBegin, navVars,
       CommandMove, Begun
  <2>2. CASE c # job[w].cmd
    BY <1>1, <2>2 DEF Cancel, CancelUnknown, CancelSettled, CancelBegin, navVars,
       CommandMove
  <2> QED
    BY <2>1, <2>2
<1> QED
  BY <1>2, <1>3 DEF NavMove

LEMMA EstopMoves == HeldInv /\ Estop => NavMove
<1> SUFFICES ASSUME HeldInv, Estop PROVE NavMove
  OBVIOUS
<1>1. \A c \in Command : nav'[c] = IF nav[c] = "ACTIVE" THEN "ABORTED" ELSE nav[c]
  BY DEF Estop
<1>2. \A m \in mail' : m \in mail \/ m.cmd \in Active
  BY DEF Estop
<1> QED
  BY <1>1, <1>2 DEF NavMove, CommandMove, Begun, Active

LEMMA EndMoves ==
    ASSUME HeldInv, NEW d \in Command,
           \/ Complete(d) \/ Fail(d) \/ AbortByEstop(d)
           \/ CancelConfirm(d) \/ CancelUnconfirmed(d)
    PROVE  /\ NavMove
           /\ nav'[d] # "ACTIVE" /\ \A c \in Command : c # d => nav'[c] = nav[c]
<1>1. nav \in [Command -> NavState]
  BY DEF HeldInv, HeldTypeOK, NavTypeOK
<1>2. nav[d] # "NONE" /\ nav'[d] \notin Begun
  BY <1>1 DEF Complete, Fail, AbortByEstop, CancelConfirm, CancelUnconfirmed, Begun
<1>3. \A c \in Command : c # d => nav'[c] = nav[c]
  BY <1>1 DEF Complete, Fail, AbortByEstop, CancelConfirm, CancelUnconfirmed
<1>4. \A m \in mail' : m \in mail \/ m.cmd = d
  BY DEF Complete, Fail, AbortByEstop, CancelConfirm, CancelUnconfirmed, Post
<1> QED
  BY <1>2, <1>3, <1>4 DEF NavMove, CommandMove, Begun

LEMMA NavMoves == HeldInv /\ [Next]_vars => NavMove
<1> SUFFICES ASSUME HeldInv, [Next]_vars PROVE NavMove
  OBVIOUS
<1>0. nav' = nav /\ mail' \subseteq mail => NavMove
  BY DEF NavMove, CommandMove
<1>1. SameNav => NavMove
  BY <1>0 DEF SameNav, navVars
<1>2. TryEstop => NavMove
  BY <1>1, EstopMoves DEF TryEstop, SameNav
<1>3. ManualStop => NavMove
  BY <1>1, EndMoves DEF ManualStop
<1>4. ASSUME NEW w \in Worker, Continue(w) PROVE NavMove
  <2>1. CASE SendEstop(w) \/ CloseAmbiguous(w) \/ EnforceEstop(w) \/ SendFleetEstop(w)
             \/ AbortStop(w)
    BY <1>1, <1>2, <1>3, <2>1, EstopMoves
       DEF SendEstop, CloseAmbiguous, EnforceEstop, SendFleetEstop, AbortStop
  <2>2. CASE PostStep(w) \/ PostRecovery(w)
    BY <1>1, <2>2, AcceptMoves DEF PostStep, PostRecovery, Doing
  <2>3. CASE SendCancel(w)
    BY <1>1, <2>3, CancelMoves DEF SendCancel, Doing
  <2>4. CASE \/ DispatchResumed(w) \/ ClaimStep(w) \/ FinishStep(w)
             \/ Health(w) \/ Verify(w) \/ CommitResume(w) \/ CommitSafeMove(w)
             \/ ArmRecovery(w) \/ ClaimRecovery(w) \/ FinalizeRecovery(w)
             \/ HoldRecovery(w)
    BY <1>1, <2>4 DEF DispatchResumed, PrepareStep, ClaimStep, FinishStep, Health,
       Verify, CommitResume, CommitSafeMove, ArmRecovery, ClaimRecovery,
       FinalizeRecovery, HoldRecovery
  <2>5. CASE \/ CancelAnswer(w) \/ EnforceAnswer(w) \/ MarkUnstopped(w)
             \/ FinishAbort(w) \/ HoldAbort(w) \/ DisarmAborted(w)
             \/ CloseStops(w) \/ SaveDecision(w)
    BY <1>1, <2>5 DEF CancelAnswer, EnforceAnswer, MarkUnstopped, FinishAbort,
       HoldAbort, DisarmAborted, CloseStops, SaveDecision
  <2> QED
    BY <1>4, <2>1, <2>2, <2>3, <2>4, <2>5 DEF Continue
<1>5. ASSUME NEW w \in Worker, Operate(w) PROVE NavMove
  BY <1>0, <1>1, <1>5 DEF Operate, BeginResume, BeginSafeMove, BeginGated, BeginAbort,
     RequestRecoveryStop, FleetEstop, ClearAll, ReadDecision
<1>6. ASSUME NEW m \in mail, Deliver(m) PROVE NavMove
  BY <1>0, <1>6 DEF Deliver
<1>7. CASE Poll \/ Monitor \/ AIRestart \/ Crash \/ UNCHANGED vars
  BY <1>1, <1>7 DEF Poll, PollDispatch, PrepareStep, PollStep, PollRecovery,
     Monitor, SeePerson, MonitorOutage, Reassert, AIRestart, Crash, vars, SameNav,
     navVars
<1>8. CASE NavStep
  BY <1>8, EndMoves DEF NavStep
<1>9. CASE NavRestart
  BY <1>9 DEF NavRestart, NavMove, CommandMove
<1>10. CASE Restart
  BY <1>1, <1>2, <1>10 DEF Restart, SameNav
<1> QED
  BY <1>4, <1>5, <1>6, <1>7, <1>8, <1>9, <1>10 DEF Next

\* Who is about to start a command saw the record ask for it.
LEMMA Posting ==
    ASSUME HeldInv, [Next]_vars, NEW w \in Worker,
           job'[w].at \in {"post", "rpost"}, job'[w] # job[w]
    PROVE  \/ /\ job'[w].at = "post" /\ orch.phase = "RUNNING"
              /\ job'[w].cmd = StepCmd(orch.gen)
              /\ orch.st \in {"pending", "dispatching"}
              /\ orch' = [orch EXCEPT !.st = "dispatching"]
           \/ /\ job'[w].at = "rpost" /\ job'[w].cmd = job[w].cmd
              /\ job[w].at = "rclaim" /\ job'[w].snap = job[w].snap
              /\ Owns(job[w].cmd) /\ orch.disp = "PENDING"
              /\ orch' = [orch EXCEPT !.disp = "DISPATCHING"]
<1>1. CASE job'[w].at = "post"
  <2>1. ClaimStep(w) /\ job'[w].cmd = StepCmd(orch.gen)
    BY <1>1, JobsMove DEF JobMove, Elsewhere, Onward, Moving
  <2> QED
    BY <1>1, <2>1, Finishes DEF ClaimStep, GiveUp, Save
<1>2. CASE job'[w].at = "rpost"
  <2>1. ClaimRecovery(w) /\ job'[w].snap = job[w].snap /\ job'[w].cmd = job[w].cmd
    BY <1>2, JobsMove DEF JobMove, Elsewhere, Onward
  <2> QED
    BY <1>2, <2>1, Finishes DEF ClaimRecovery, GiveUp, Save, Doing
<1> QED
  BY <1>1, <1>2

SafeCmds == {SafeCmd(n) : n \in 1..MaxMoves}

\* Threads that carry out a safe move have the command of one.
MovesSafe == \A w \in Worker : job[w].at \in Moving => job[w].cmd \in SafeCmds

LEMMA MovesNext == HeldInv /\ MovesSafe /\ [Next]_vars => MovesSafe'
<1> SUFFICES ASSUME HeldInv, MovesSafe, [Next]_vars, NEW v \in Worker,
                    job'[v].at \in Moving
             PROVE  job'[v].cmd \in SafeCmds
  BY DEF MovesSafe
<1>1. ASSUME NEW n \in 0..MaxMoves, n # 0 PROVE SafeCmd(n) \in SafeCmds
  <2>1. n \in 1..MaxMoves
    BY <1>1, HeldTaskAssumption
  <2> QED
    BY <2>1 DEF SafeCmds
<1>2. orch.rcmd \in 0..MaxMoves /\ orch'.rcmd \in 0..MaxMoves /\ orch.moves \in Nat
  <2>1. HeldInv'
    BY NextHeld
  <2> QED
    BY <2>1, HeldTaskAssumption DEF HeldInv, HeldTypeOK, HeldOrch
<1>3. CASE job'[v] = job[v] \/ Onward(v)
  BY <1>3 DEF MovesSafe, Onward
<1>4. CASE job'[v].at = "rarm" /\ job'[v].cmd = SafeCmd(orch'.rcmd) /\ CommitSafeMove(v)
  <2>1. ~GiveUp(v)
    BY <1>4, Finishes DEF GiveUp
  <2>2. orch'.rcmd = orch.moves + 1
    BY <1>4, <2>1, Unpack DEF CommitSafeMove, Save, HeldOrch
  <2> QED
    BY <1>1, <1>2, <1>4, <2>2
<1>5. CASE job'[v].at = "rarm" /\ job'[v].cmd = SafeCmd(orch'.rcmd) /\ job'[v] # job[v]
           /\ v = Poller /\ PollRecovery
  <2>1. orch' = orch /\ orch.rcmd # 0
    BY <1>5 DEF PollRecovery, SameRecord, recordVars
  <2> QED
    BY <1>1, <1>2, <1>5, <2>1
<1>6. CASE job'[v].at = "rclaim" /\ job'[v].cmd = job[v].cmd /\ ArmRecovery(v)
  BY <1>6 DEF MovesSafe, ArmRecovery, Doing, Moving
<1>7. CASE job'[v].at = "rpost" /\ job'[v].cmd = job[v].cmd /\ ClaimRecovery(v)
  BY <1>7 DEF MovesSafe, ClaimRecovery, Doing, Moving
<1>8. CASE job'[v].cmd = SafeCmd(orch.rcmd)
           /\ (RequestRecoveryStop(v) \/ (v = Poller /\ PollRecovery))
  BY <1>1, <1>2, <1>8 DEF RequestRecoveryStop, PollRecovery
<1> QED
  BY <1>3, <1>4, <1>5, <1>6, <1>7, <1>8, JobsMove DEF JobMove, Elsewhere, Moving

LEMMA InitMoves == HeldInit => MovesSafe
  BY DEF HeldInit, MovesSafe, NoHeldJob, Moving

-----------------------------------------------------------------------------
(* RecoveryEndsInHold.                                                     *)

\* Saved decisions are the only blind writes of the record.
OneWriter == "note" \notin Faults \/ OneRequest

\* A decision that was read before a recovery is saved before it, too.
NotesFollow ==
    \A w \in Worker :
        job[w].at = "note" /\ orch.phase = "RECOVERY_RUNNING"
            => job[w].snap.phase = "RECOVERY_RUNNING"

\* While one request is at a place of its own, no other is anywhere else.
LEMMA Alone ==
    ASSUME HeldInv, OneRequest, NEW v \in Worker, NEW w \in Worker,
           job[v].at \in OperatorAt, job[w].at \in OperatorAt \/ w \in Requests
    PROVE  v = w
  BY DEF HeldInv, InPlace, OneRequest

\* What takes the record into recovery.
LEMMA IntoRecovery ==
    ASSUME HeldInv, [Next]_vars, orch.phase # "RECOVERY_RUNNING",
           orch'.phase = "RECOVERY_RUNNING"
    PROVE  \E w \in Worker : CommitSafeMove(w) \/ BeginAbort(w) \/ SaveDecision(w)
  BY RecordMoves DEF RecordMove, PutOnHold, DispOnward, StepOnward, StepEnds

LEMMA NotesNext ==
    ASSUME HeldInv, OneWriter, NotesFollow, [Next]_vars
    PROVE  NotesFollow'
<1> SUFFICES ASSUME NEW v \in Worker, job'[v].at = "note",
                    orch'.phase = "RECOVERY_RUNNING"
             PROVE  job'[v].snap.phase = "RECOVERY_RUNNING"
  BY DEF NotesFollow
<1>1. CASE job'[v] # job[v]
  <2>1. job'[v].snap = orch /\ ReadDecision(v)
    BY <1>1, JobsMove DEF JobMove, Elsewhere, Onward, Moving
  <2> QED
    BY <2>1 DEF ReadDecision, SameRecord, recordVars
<1>2. CASE job'[v] = job[v]
  <2>1. CASE orch.phase = "RECOVERY_RUNNING"
    BY <1>2, <2>1 DEF NotesFollow
  <2>2. CASE orch.phase # "RECOVERY_RUNNING"
    <3>1. OneRequest
      BY <1>2 DEF HeldInv, InPlace, OneWriter
    <3>2. PICK w \in Worker : CommitSafeMove(w) \/ BeginAbort(w) \/ SaveDecision(w)
      BY <2>2, IntoRecovery
    <3>3. job[w].at \in {"scommit", "idle", "note"} /\ (job[w].at \in OperatorAt \/ w \in Requests)
      BY <3>2 DEF CommitSafeMove, BeginAbort, SaveDecision, Request, Requests, Idle,
         Doing, OperatorAt
    <3>4. v = w
      BY <1>2, <3>1, <3>3, Alone DEF OperatorAt
    <3>5. SaveDecision(w)
      BY <1>2, <3>2, <3>4 DEF CommitSafeMove, BeginAbort, Request, Idle, Doing
    <3> QED
      BY <1>2, <3>4, <3>5, Finishes DEF SaveDecision
  <2> QED
    BY <2>1, <2>2
<1> QED
  BY <1>1, <1>2

LEMMA InitNotes == HeldInit => NotesFollow
  BY DEF HeldInit, NotesFollow, NoHeldJob

LEMMA RecoveryIsLeft ==
    ASSUME HeldInv, NotesFollow, [Next]_vars, orch.phase = "RECOVERY_RUNNING"
    PROVE  orch'.phase \in {"RECOVERY_RUNNING", "AWAITING_OPERATOR", "ABORTED"}
<1>1. ASSUME NEW w \in Worker, SaveDecision(w)
      PROVE  orch'.phase = "RECOVERY_RUNNING"
  <2>1. job[w].snap \in HeldOrch /\ job[w].snap.phase = "RECOVERY_RUNNING"
    BY <1>1, Unpack DEF NotesFollow, SaveDecision, Doing
  <2> QED
    BY <1>1, <2>1 DEF SaveDecision, Save, HeldOrch
<1> QED
  BY <1>1, RecordMoves
     DEF RecordMove, PutOnHold, DispOnward, StepOnward, StepEnds, StillGated, Held

\* Whoever ends a recovery, a callback, the poller, a stop, the monitor or a
\* request, and whatever was read before it: the task is held or aborted.
\* Operators who save decisions do so one after the other.
THEOREM RecoveryIsHeld == ASSUME OneWriter PROVE Spec => RecoveryEndsInHold
<1>1. HeldInit => HeldInv /\ NotesFollow
  BY InitHeld, InitNotes
<1>2. HeldInv /\ NotesFollow /\ [Next]_vars => (HeldInv /\ NotesFollow)'
  BY NextHeld, NotesNext
<1>3. HeldInv /\ NotesFollow /\ [Next]_vars =>
         [orch.phase = "RECOVERY_RUNNING" =>
             orch'.phase \in {"RECOVERY_RUNNING", "AWAITING_OPERATOR", "ABORTED"}]_vars
  BY RecoveryIsLeft
<1> QED
  BY <1>1, <1>2, <1>3, PTL DEF Spec, RecoveryEndsInHold

-----------------------------------------------------------------------------
(* AbortedIsStill.                                                         *)

\* One operator acts at a time, when no request to Nav is under way, and
\* saves no decision; requests and answers arrive, and Main, Nav and the AI
\* server stay up.
Attended ==
    /\ OneRequest
    /\ Unhurried
    /\ Faults \subseteq {"person", "stop", "fleet"}

\* No thread is about to start a command.
Calm == \A w \in Worker : job[w].at \notin {"post", "rpost"}

Rests(o) == o.phase \notin {"RUNNING", "RECOVERY_RUNNING"}

\* The command that the record lets run.
Own ==
    IF orch.phase = "RUNNING" THEN {StepCmd(orch.gen)}
    ELSE IF orch.phase = "RECOVERY_RUNNING" /\ orch.disp \in {"DISPATCHING", "SENT"}
         THEN {SafeCmd(orch.rcmd)}
         ELSE {}

EstopComes == estop \/ \E w \in Worker : job[w].at \in Halting

\* Nothing but S runs, or is started by a request on its way.
OnlyRuns(S) ==
    /\ Active \subseteq S
    /\ \A w \in Worker :
          job[w].at \in {"post", "rpost"}
              => job[w].cmd \in S \cup {c \in Command : nav[c] # "NONE"}

AbortKnows ==
    /\ up
    /\ \A m \in mail : nav[m.cmd] \notin Begun
    /\ \A w \in Worker : job[w].at = "rhold" => estop
    /\ task = "RUNNING" => EstopComes \/ OnlyRuns(Own)
    /\ \A w \in Worker :
          job[w].at \in {"abort", "afinal"} /\ Aborting => Calm /\ Active = {}
    /\ task = "CANCELLED" => Active = {} /\ Calm /\ Rests(orch)

LEMMA NoFaults ==
    ASSUME HeldInv, Attended
    PROVE  /\ ~Lossy /\ ~CannotArm /\ ~MonitorOutage /\ ~NavRestart /\ ~Crash
           /\ \A w \in Worker : ~SaveDecision(w)
  BY DEF Attended, Lossy, CannotArm, MonitorOutage, NavRestart, Crash, SaveDecision,
     Doing, HeldInv, InPlace

LEMMA NoStart ==
    ASSUME HeldInv, Calm, Active = {}, [Next]_vars
    PROVE  Active' = {}
  BY NavMoves DEF NavMove, CommandMove, Starts, Calm, Active, Begun

\* In a record that rests, or is being aborted, no thread starts anything.
LEMMA StaysCalm ==
    ASSUME HeldInv, Calm, [Next]_vars, Rests(orch) \/ Aborting
    PROVE  Calm'
  BY Posting DEF Calm, Rests, Aborting, Owns

\* A thread that is to send an E-stop does nothing else, and only an E-stop
\* precedes the hold of a safe move.
LEMMA EstopIsSent ==
    ASSUME HeldInv, Attended, [Next]_vars, up, NEW v \in Worker, job'[v] # job[v],
           job[v].at \in Halting \/ job'[v].at = "rhold"
    PROVE  Estop
<1> USE NoFaults
<1>0. ASSUME NEW w \in Worker, NEW a, NEW j, Goto(w, a) \/ Finish(w) \/ Become(w, j)
      PROVE  v # w => job'[v] = job[v]
  BY <1>0, Goes, Finishes, Becomes
<1>1. ASSUME NEW w \in Worker,
             SendEstop(w) \/ CloseAmbiguous(w) \/ EnforceEstop(w) \/ SendFleetEstop(w)
      PROVE  Estop
  BY <1>1 DEF SendEstop, CloseAmbiguous, EnforceEstop, SendFleetEstop, TryEstop
<1>2. ASSUME NEW w \in Worker, NEW a,
             (\E b : b # "rhold" /\ Goto(w, b)) \/ Finish(w)
             \/ \E j : j.at # "rhold" /\ Become(w, j),
             Doing(w, a), a \notin Halting
      PROVE  FALSE
  <2>1. job'[w].at # "rhold" /\ (v # w => job'[v] = job[v])
    BY <1>2, Goes, Finishes, Becomes
  <2> QED
    BY <1>2, <2>1 DEF Doing
<1>3. ASSUME NEW w \in Worker,
             \/ DispatchResumed(w) \/ ClaimStep(w) \/ PostStep(w) \/ FinishStep(w)
             \/ Health(w) \/ Verify(w) \/ CommitResume(w) \/ CommitSafeMove(w)
             \/ ArmRecovery(w) \/ ClaimRecovery(w) \/ PostRecovery(w)
             \/ FinalizeRecovery(w) \/ HoldRecovery(w) \/ SendCancel(w)
             \/ CancelAnswer(w) \/ EnforceAnswer(w) \/ MarkUnstopped(w)
             \/ AbortStop(w) \/ FinishAbort(w) \/ HoldAbort(w) \/ DisarmAborted(w)
             \/ CloseStops(w)
      PROVE  FALSE
  <2>1. CASE DispatchResumed(w)
    <3> DEFINE j == [NoHeldJob EXCEPT !.at = "claim"]
    <3>1. j.at # "rhold"
      BY DEF NoHeldJob
    <3>2. Become(w, j)
      BY <2>1 DEF DispatchResumed, PrepareStep
    <3> HIDE DEF j
    <3> QED
      BY <1>2, <2>1, <3>1, <3>2 DEF DispatchResumed, Halting
  <2>2. CASE ClaimStep(w)
    <3> DEFINE j == [NoHeldJob EXCEPT !.at = "post", !.cmd = StepCmd(orch.gen)]
    <3>1. j.at # "rhold"
      BY DEF NoHeldJob
    <3>2. Become(w, j) \/ Finish(w)
      BY <2>2 DEF ClaimStep, GiveUp
    <3> HIDE DEF j
    <3> QED
      BY <1>2, <2>2, <3>1, <3>2 DEF ClaimStep, Halting
  <2>3. CASE PostStep(w)
    BY <1>2, <2>3 DEF PostStep, Halting
  <2>4. CASE FinishStep(w)
    BY <1>2, <2>4 DEF FinishStep, Halting
  <2>5. CASE Health(w)
    BY <1>2, <2>5 DEF Health, Halting
  <2>6. CASE Verify(w)
    BY <1>2, <2>6 DEF Verify, Halting
  <2>7. CASE CommitResume(w)
    <3> DEFINE j == [NoHeldJob EXCEPT !.at = "arm"]
    <3>1. j.at # "rhold"
      BY DEF NoHeldJob
    <3>2. Become(w, j) \/ Finish(w)
      BY <2>7 DEF CommitResume, GiveUp
    <3> HIDE DEF j
    <3> QED
      BY <1>2, <2>7, <3>1, <3>2 DEF CommitResume, Halting
  <2>8. CASE CommitSafeMove(w)
    <3>1. (\E j : j.at = "rarm" /\ Become(w, j)) \/ Finish(w)
      BY <2>8, Unpack DEF CommitSafeMove, GiveUp, HeldJob
    <3> QED
      BY <1>2, <2>8, <3>1 DEF CommitSafeMove, Halting
  <2>9. CASE ArmRecovery(w)
    BY <1>2, <2>9 DEF ArmRecovery, Halting
  <2>10. CASE ClaimRecovery(w)
    BY <1>2, <2>10 DEF ClaimRecovery, GiveUp, Halting
  <2>11. CASE PostRecovery(w)
    BY <1>2, <2>11 DEF PostRecovery, Halting
  <2>12. CASE FinalizeRecovery(w)
    BY <1>2, <2>12 DEF FinalizeRecovery, GiveUp, Halting
  <2>13. CASE HoldRecovery(w)
    BY <1>2, <2>13 DEF HoldRecovery, Halting
  <2>14. CASE SendCancel(w)
    BY <1>2, <2>14 DEF SendCancel, Halting
  <2>15. CASE CancelAnswer(w)
    BY <1>2, <2>15 DEF CancelAnswer, Halting
  <2>16. CASE EnforceAnswer(w)
    BY <1>2, <2>16 DEF EnforceAnswer, Halting
  <2>17. CASE MarkUnstopped(w)
    BY <1>2, <2>17 DEF MarkUnstopped, Halting
  <2>18. CASE AbortStop(w)
    BY <1>2, <2>18 DEF AbortStop, Halting
  <2>19. CASE FinishAbort(w)
    BY <1>2, <2>19 DEF FinishAbort, GiveUp, Halting
  <2>20. CASE HoldAbort(w) \/ DisarmAborted(w) \/ CloseStops(w)
    BY <1>2, <2>20 DEF HoldAbort, DisarmAborted, CloseStops, Halting
  <2> QED
    BY <1>3, <2>1, <2>2, <2>3, <2>4, <2>5, <2>6, <2>7, <2>8, <2>9, <2>10, <2>11,
       <2>12, <2>13, <2>14, <2>15, <2>16, <2>17, <2>18, <2>19, <2>20
<1>5. ASSUME NEW w \in Worker, NEW j, Idle(w), Become(w, j), j.at \notin {"rhold"}
      PROVE  FALSE
  BY <1>5, Becomes DEF Idle, Doing, Halting
<1>6. ASSUME NEW w \in Worker, Operate(w) PROVE FALSE
  BY <1>5, <1>6 DEF Operate, BeginResume, BeginSafeMove, BeginGated, BeginAbort,
     RequestRecoveryStop, FleetEstop, ClearAll, ReadDecision, Request, NoHeldJob,
     HeldInv, HeldTypeOK, HeldJob
<1>7. CASE Poll
  BY <1>5, <1>7, HeldTaskAssumption
     DEF Poll, PollDispatch, PrepareStep, PollStep, PollRecovery, NoHeldJob
<1>8. CASE Monitor
  <2>1. SeePerson
    BY <1>8 DEF Monitor, Reassert
  <2>2. job'[Watcher].at = "estop" /\ \A w \in Worker : w # Watcher => job'[w] = job[w]
    BY <2>1, Goes, HeldTaskAssumption DEF SeePerson
  <2> QED
    BY <2>1, <2>2 DEF SeePerson, Watching, Idle, Doing, Halting
<1>9. ~(\E m \in mail : Deliver(m)) /\ ~NavStep /\ ~AIRestart /\ ~Restart /\ ~UNCHANGED vars
  BY DEF Deliver, NavStep, AIRestart, Restart, vars
<1> QED
  BY <1>1, <1>3, <1>6, <1>7, <1>8, <1>9 DEF Next, Continue

\* Only an operator lifts the latch.
LEMMA EstopIsLatched ==
    ASSUME HeldInv, Attended, [Next]_vars, estop, up
    PROVE  estop' \/ \E w \in Worker : ClearAll(w)
<1> USE NoFaults
<1>1. SameNav => estop'
  BY DEF SameNav, navVars
<1>2. \A c : Accept(c) \/ Refuse(c) \/ Cancel(c) => estop'
  BY DEF Accept, Refuse, Register, Duplicate, RefuseGate, RefuseBusy, Cancel,
     CancelUnknown, CancelSettled, CancelBegin, navVars
<1>3. \A c : Complete(c) \/ Fail(c) \/ AbortByEstop(c) \/ CancelConfirm(c) => estop'
  BY DEF Complete, Fail, AbortByEstop, CancelConfirm
<1>4. Estop => estop'
  BY DEF Estop
<1>5. ASSUME NEW w \in Worker, Continue(w) PROVE estop'
  <2>1. CASE \/ SendEstop(w) \/ CloseAmbiguous(w) \/ EnforceEstop(w)
             \/ SendFleetEstop(w) \/ AbortStop(w)
    BY <1>1, <1>3, <1>4, <2>1 DEF SendEstop, CloseAmbiguous, EnforceEstop,
       SendFleetEstop, AbortStop, ManualStop, TryEstop
  <2>2. CASE PostStep(w) \/ PostRecovery(w) \/ SendCancel(w)
    BY <1>1, <1>2, <2>2 DEF PostStep, PostRecovery, SendCancel
  <2>3. CASE \/ DispatchResumed(w) \/ ClaimStep(w) \/ FinishStep(w)
             \/ Health(w) \/ Verify(w) \/ CommitResume(w) \/ CommitSafeMove(w)
             \/ ArmRecovery(w) \/ ClaimRecovery(w) \/ FinalizeRecovery(w)
             \/ HoldRecovery(w)
    BY <1>1, <2>3 DEF DispatchResumed, PrepareStep, ClaimStep, FinishStep, Health,
       Verify, CommitResume, CommitSafeMove, ArmRecovery, ClaimRecovery,
       FinalizeRecovery, HoldRecovery
  <2>4. CASE \/ CancelAnswer(w) \/ EnforceAnswer(w) \/ MarkUnstopped(w)
             \/ FinishAbort(w) \/ HoldAbort(w) \/ DisarmAborted(w)
             \/ CloseStops(w) \/ SaveDecision(w)
    BY <1>1, <2>4 DEF CancelAnswer, EnforceAnswer, MarkUnstopped, FinishAbort,
       HoldAbort, DisarmAborted, CloseStops, SaveDecision
  <2> QED
    BY <1>5, <2>1, <2>2, <2>3, <2>4 DEF Continue
<1>6. ASSUME NEW w \in Worker, Operate(w) PROVE estop' \/ ClearAll(w)
  BY <1>1, <1>6 DEF Operate, BeginResume, BeginSafeMove, BeginGated, BeginAbort,
     RequestRecoveryStop, FleetEstop, ReadDecision
<1>7. CASE Poll \/ Monitor \/ AIRestart \/ UNCHANGED vars
  BY <1>1, <1>7 DEF Poll, PollDispatch, PrepareStep, PollStep, PollRecovery,
     Monitor, SeePerson, Reassert, AIRestart, vars, SameNav, navVars
<1>8. CASE NavStep \/ \E m \in mail : Deliver(m)
  BY <1>3, <1>8 DEF NavStep, Deliver
<1>9. ~Restart
  BY DEF Restart
<1> QED
  BY <1>5, <1>6, <1>7, <1>8, <1>9 DEF Next

\* An E-stop that comes is lifted only when the robot stands still.
LEMMA EstopStays ==
    ASSUME HeldInv, Attended, [Next]_vars, up, EstopComes
    PROVE  EstopComes' \/ \E w \in Worker : ClearAll(w)
<1>1. CASE estop
  BY <1>1, EstopIsLatched DEF EstopComes
<1>2. ASSUME NEW v \in Worker, job[v].at \in Halting
      PROVE  EstopComes'
  <2>1. CASE job'[v] = job[v]
    BY <1>2, <2>1 DEF EstopComes
  <2>2. CASE job'[v] # job[v]
    BY <1>2, <2>2, EstopIsSent DEF EstopComes, Estop
  <2> QED
    BY <2>1, <2>2
<1> QED
  BY <1>1, <1>2 DEF EstopComes

\* The record takes away the leave to run only from what is over, or with an
\* E-stop.
LEMMA OwnMoves ==
    ASSUME HeldInv, Attended, AbortKnows, [Next]_vars, ~EstopComes, task' = "RUNNING"
    PROVE  \/ EstopComes'
           \/ Own \subseteq Own'
           \/ \A c \in Own : c \in Command /\ nav[c] \notin Begun
<1>0. orch \in HeldOrch /\ StepCmd(orch.gen) \in Command
  BY StepCommand DEF HeldInv, HeldTypeOK, HeldOrch
<1>1. CASE PutOnHold /\ WhyHeld
  <2>1. ~Restart /\ \A w \in Worker : job[w].at # "rhold"
    BY DEF Restart, AbortKnows, EstopComes
  <2>2. CASE \E w \in Worker : job'[w].at \in Halting
    BY <2>2 DEF EstopComes
  <2>3. CASE LET c == SafeCmd(orch.rcmd)
             IN  Owns(c) /\ (nav[c] \notin Begun \/ \E m \in mail : m.cmd = c)
    <3>1. SafeCmd(orch.rcmd) \in Command /\ nav[SafeCmd(orch.rcmd)] \notin Begun
      BY <1>0, <2>3, SafeCommand, HeldTaskAssumption DEF Owns, AbortKnows, HeldOrch
    <3> QED
      BY <2>3, <3>1 DEF Owns, Own
  <2> QED
    BY <1>1, <2>1, <2>2, <2>3 DEF WhyHeld, Own
<1>2. ASSUME NEW c, StepEnds(c), nav[c] \notin Begun
      PROVE  \A d \in Own : d \in Command /\ nav[d] \notin Begun
  BY <1>0, <1>2 DEF StepEnds, Own
<1>3. CASE \E m \in mail : Deliver(m) /\ StepEnds(m.cmd)
  BY <1>2, <1>3 DEF AbortKnows
<1>4. CASE \E c \in Command : PollStep /\ nav[c] \in Terminal /\ StepEnds(c)
  BY <1>2, <1>4 DEF Terminal, Begun
<1>5. CASE UNCHANGED <<task, orch>> \/ DispOnward \/ StepOnward
  BY <1>5 DEF DispOnward, StepOnward, Own
<1>6. CASE \E w \in Worker :
              \/ (CommitResume(w) \/ CommitSafeMove(w)) /\ StillGated(w)
              \/ BeginAbort(w) /\ Held
  BY <1>6 DEF StillGated, Held, Own
<1> QED
  BY <1>1, <1>3, <1>4, <1>5, <1>6, RecordMoves, NoFaults DEF RecordMove

\* While no E-stop comes, nothing else runs.
LEMMA OnlyRunsNext ==
    ASSUME HeldInv, Attended, AbortKnows, [Next]_vars, ~EstopComes, ~EstopComes',
           task' = "RUNNING", OnlyRuns(Own)
    PROVE  OnlyRuns(Own)'
<1>0. \A c \in Command : CommandMove(c) /\ ~NavRestart
  BY NavMoves, NoFaults DEF NavMove
<1>1. Own \subseteq Own' \/ \A c \in Own : c \in Command /\ nav[c] \notin Begun
  BY OwnMoves
<1>2. ASSUME NEW c \in Command, nav'[c] = "ACTIVE" PROVE c \in Own'
  <2>1. c \in Own /\ nav[c] \in Begun
    BY <1>0, <1>2 DEF CommandMove, Starts, OnlyRuns, Active, Begun
  <2> QED
    BY <1>1, <2>1
<1>3. ASSUME NEW w \in Worker, job'[w].at \in {"post", "rpost"}
      PROVE  job'[w].cmd \in Own' \cup {c \in Command : nav'[c] # "NONE"}
  <2>1. CASE job'[w] # job[w]
    BY <1>3, <2>1, Posting DEF Own, Owns, HeldInv, HeldTypeOK, HeldOrch
  <2>2. CASE job'[w] = job[w]
    <3>1. job[w].cmd \in Own \cup {c \in Command : nav[c] # "NONE"}
      BY <1>3, <2>2 DEF OnlyRuns
    <3>2. \A c \in Command : nav[c] # "NONE" => nav'[c] # "NONE"
      BY <1>0 DEF CommandMove, Begun
    <3> QED
      BY <1>1, <2>2, <3>1, <3>2 DEF Begun
  <2> QED
    BY <2>1, <2>2
<1> QED
  BY <1>2, <1>3 DEF OnlyRuns, Active

LEMMA AbortBegins ==
    ASSUME HeldInv, Attended, [Next]_vars, NEW v \in Worker,
           job'[v].at \in {"abort", "afinal"}, Aborting', ~Aborting
    PROVE  BeginAbort(v)
<1>1. PICK w \in Worker : BeginAbort(w)
  BY RecordMoves, NoFaults
     DEF RecordMove, PutOnHold, DispOnward, StepOnward, StepEnds, Aborting
<1>2. CASE v # w
  <2>1. job'[v] = job[v]
    BY <1>1, <1>2, Becomes DEF BeginAbort
  <2>2. w \in Requests
    BY <1>1 DEF BeginAbort, Request, Requests
  <2> QED
    BY <1>2, <2>1, <2>2, Alone DEF OperatorAt, Attended
<1> QED
  BY <1>1, <1>2

LEMMA AbortNext ==
    ASSUME HeldInv, AbortKnows, Attended, [Next]_vars
    PROVE  AbortKnows'
<1>1. up'
  BY NoFaults DEF AbortKnows, Next, Continue, Operate, Poll, Monitor, NavStep,
     AIRestart, Restart, vars, Deliver, SeePerson, Reassert,
     PollDispatch, PrepareStep, PollStep, PollRecovery,
     SendEstop, DispatchResumed, ClaimStep, PostStep, FinishStep, Health, Verify,
     CommitResume, CommitSafeMove, ArmRecovery, ClaimRecovery, PostRecovery,
     FinalizeRecovery, CloseAmbiguous, HoldRecovery, SendCancel, CancelAnswer,
     EnforceAnswer, EnforceEstop, MarkUnstopped, AbortStop, FinishAbort, HoldAbort,
     DisarmAborted, SendFleetEstop, CloseStops, SaveDecision,
     BeginResume, BeginSafeMove, BeginGated, BeginAbort, RequestRecoveryStop,
     FleetEstop, ClearAll, ReadDecision
<1>2. ASSUME NEW m \in mail' PROVE nav'[m.cmd] \notin Begun
  <2>1. CASE m \in mail
    <3>1. m.cmd \in Command
      BY <2>1 DEF HeldInv, HeldTypeOK, NavTypeOK, Letter
    <3>2. nav[m.cmd] \notin Begun /\ CommandMove(m.cmd) /\ ~NavRestart
      BY <2>1, <3>1, NavMoves, NoFaults DEF AbortKnows, NavMove
    <3> QED
      BY <3>2 DEF CommandMove, Starts, Begun
  <2> QED
    BY <2>1, NavMoves DEF NavMove
<1>3. ASSUME NEW v \in Worker, job'[v].at = "rhold" PROVE estop'
  <2>1. CASE job'[v] = job[v]
    <3>1. estop /\ \A w \in Worker : ~ClearAll(w)
      BY <1>3, <2>1 DEF AbortKnows, ClearAll, Leisure, Sending, Attended
    <3> QED
      BY <3>1, EstopIsLatched DEF AbortKnows
  <2>2. CASE job'[v] # job[v]
    BY <1>3, <2>2, EstopIsSent DEF AbortKnows, Estop
  <2> QED
    BY <2>1, <2>2
<1>4. ASSUME task' = "RUNNING" PROVE EstopComes' \/ OnlyRuns(Own)'
  <2>0. task = "RUNNING"
    BY <1>4, RecordMoves, NoFaults
       DEF RecordMove, PutOnHold, DispOnward, StepOnward, StepEnds, StillGated, Held
  <2>1. ASSUME NEW w \in Worker, ClearAll(w) PROVE OnlyRuns(Own)'
    <3>1. nav' = nav /\ orch' = orch
      BY <2>1 DEF ClearAll, SameRecord, recordVars
    <3>2. Calm'
      <4>1. Calm
        BY <2>1 DEF ClearAll, Leisure, Sending, Attended, Calm
      <4>2. job'[w].at = "closing" /\ \A v \in Worker : v # w => job'[v] = job[v]
        BY <2>1, Becomes DEF ClearAll, NoHeldJob
      <4> QED
        BY <4>1, <4>2 DEF Calm
    <3>3. Active \subseteq Own
      BY <2>0, <2>1 DEF AbortKnows, EstopComes, OnlyRuns, ClearAll, Leisure, Sending,
         Attended, Halting
    <3> QED
      BY <3>1, <3>2, <3>3 DEF OnlyRuns, Own, Calm, Active
  <2>2. CASE EstopComes
    BY <2>1, <2>2, EstopStays DEF AbortKnows
  <2>3. CASE ~EstopComes
    BY <1>4, <2>0, <2>3, OnlyRunsNext DEF AbortKnows
  <2> QED
    BY <2>2, <2>3
<1>5. ASSUME NEW v \in Worker, job'[v].at \in {"abort", "afinal"}, Aborting'
      PROVE  Calm' /\ Active' = {}
  <2>1. CASE BeginAbort(v)
    <3>1. job'[v].at = "abort" /\ \A w \in Worker : w # v => job'[w] = job[w]
      BY <2>1, Becomes DEF BeginAbort, NoHeldJob
    <3>2. Calm /\ nav' = nav
      BY <2>1 DEF BeginAbort, Leisure, Sending, Calm, Attended, SameNav, navVars
    <3>3. Active = {}
      BY <2>1 DEF BeginAbort, Held, AbortKnows, EstopComes, OnlyRuns, Own, Leisure,
         Sending, Attended, Halting
    <3> QED
      BY <3>1, <3>2, <3>3 DEF Calm, Active
  <2>2. CASE ~BeginAbort(v)
    <3>1. Aborting
      BY <1>5, <2>2, AbortBegins
    <3>2. job[v].at \in {"abort", "afinal"}
      BY <1>5, <2>2, JobsMove DEF JobMove, Elsewhere, Onward, Moving, AbortStop, Doing
    <3> QED
      BY <3>1, <3>2, StaysCalm, NoStart DEF AbortKnows
  <2> QED
    BY <2>1, <2>2
<1>6. ASSUME task' = "CANCELLED" PROVE Active' = {} /\ Calm' /\ Rests(orch')
  <2>1. CASE task = "CANCELLED"
    <3>1. Active = {} /\ Calm /\ Rests(orch)
      BY <2>1 DEF AbortKnows
    <3>2. Rests(orch')
      BY <2>1, <3>1, RecordMoves, NoFaults
         DEF RecordMove, PutOnHold, DispOnward, StepOnward, StepEnds, StillGated,
             Held, Rests, Aborting
    <3> QED
      BY <3>1, <3>2, NoStart, StaysCalm
  <2>2. CASE task # "CANCELLED"
    <3>1. PICK w \in Worker : FinishAbort(w) /\ Aborting /\ orch'.phase = "ABORTED"
      BY <1>6, <2>2, RecordMoves, NoFaults
         DEF RecordMove, PutOnHold, DispOnward, StepOnward, StepEnds
    <3>2. Active = {} /\ Calm
      BY <3>1 DEF AbortKnows, FinishAbort, Doing
    <3> QED
      BY <3>1, <3>2, NoStart, StaysCalm DEF Rests
  <2> QED
    BY <2>1, <2>2
<1> QED
  BY <1>1, <1>2, <1>3, <1>4, <1>5, <1>6 DEF AbortKnows

LEMMA InitAbort == HeldInit => AbortKnows
  BY DEF HeldInit, NavInit, AbortKnows, OnlyRuns, Active, NoHeldJob, Aborting,
     FirstOrch

\* A manual abort gives the robot away when no command runs on it, although
\* its own stop ends none that waits for Nav2 or docks: the E-stop of the hold
\* or the end of the safe move has, while callbacks, poller, stops and monitor
\* go on.  The E-stop must get through, and operators take their time.
THEOREM AbortLeavesNothing ==
    ASSUME Attended PROVE Spec => []AbortedIsStill
<1>1. HeldInit => HeldInv /\ AbortKnows
  BY InitHeld, InitAbort
<1>2. HeldInv /\ AbortKnows /\ [Next]_vars => (HeldInv /\ AbortKnows)'
  BY NextHeld, AbortNext
<1>3. HeldInv /\ AbortKnows => AbortedIsStill
  BY DEF AbortKnows, AbortedIsStill
<1> QED
  BY <1>1, <1>2, <1>3, PTL DEF Spec

-----------------------------------------------------------------------------
(* OldCommandIsOver.                                                       *)

Kept == "note" \notin Faults /\ "navcrash" \notin Faults

\* What a resume found out of the command that it replaces.
ResumeKnows(w) ==
    LET j == job[w]
        s == nav[StepCmd(j.snap.gen)]
    IN  /\ j.snap.gen <= orch.gen
        /\ j.snap.gen = orch.gen =>
              /\ orch.phase # "RUNNING"
              /\ \A v \in Worker : job[v].at # "post"
              /\ j.snap.st = "pending" => s = "NONE"
              /\ j.snap.st = "ended" => s \notin Begun
              /\ j.at = "rcommit" => s # "ACTIVE"

OldKnows ==
    /\ \A g \in 0..MaxGen : g > orch.gen => nav[StepCmd(g)] = "NONE"
    /\ OldCommandIsOver
    /\ orch.st = "pending" => nav[StepCmd(orch.gen)] = "NONE"
    /\ orch.st = "ended" /\ task = "RUNNING" => nav[StepCmd(orch.gen)] \notin Begun
    /\ \A m \in mail : nav[m.cmd] \notin Begun
    /\ \A w \in Worker :
          /\ job[w].at = "post" => job[w].cmd = StepCmd(orch.gen) /\ orch.st # "pending"
          /\ job[w].at \in {"rhealth", "rverify", "rcommit"} => ResumeKnows(w)

\* Nav's answer about a step's command, after a step of the system.
LEMMA StepCmdMoves ==
    ASSUME HeldInv, MovesSafe, OldKnows, Kept, [Next]_vars, NEW g \in 0..MaxGen
    PROVE  LET c == StepCmd(g)
           IN  \/ nav'[c] = nav[c]
               \/ /\ nav[c] = "NONE" /\ nav'[c] = "ACTIVE"
                  /\ g = orch.gen /\ orch.st # "pending"
                  /\ \E w \in Worker : job[w].at = "post"
               \/ nav[c] # "NONE" /\ nav'[c] \notin Begun
<1> DEFINE c == StepCmd(g)
<1>1. c \in Command /\ c \notin SafeCmds
  BY StepCommand DEF StepCmd, SafeCmd, SafeCmds
<1>2. \A w \in Worker : job[w].at \in {"rpost", "scancel", "rcancel"} => job[w].cmd # c
  BY <1>1 DEF MovesSafe, Moving
<1>3. \A w \in Worker : job[w].at = "post" /\ job[w].cmd = c
                          => g = orch.gen /\ orch.st # "pending"
  BY DEF OldKnows, StepCmd
<1>4. ~NavRestart
  BY DEF NavRestart, Kept
<1>5. CommandMove(c)
  BY <1>1, NavMoves DEF NavMove
<1> HIDE DEF c
<1>6. CASE Starts(c) /\ nav'[c] = "ACTIVE"
  BY <1>2, <1>3, <1>6 DEF Starts, c
<1> QED
  BY <1>2, <1>4, <1>5, <1>6 DEF CommandMove, c

\* The record after a step, as far as it concerns the step's commands.
LEMMA GenMoves ==
    ASSUME HeldInv, Kept, [Next]_vars
    PROVE  \/ /\ orch'.gen = orch.gen /\ orch'.st = orch.st
              /\ task' = "RUNNING" => task = "RUNNING"
              /\ orch'.phase = "RUNNING" => orch.phase = "RUNNING"
           \/ orch'.gen = orch.gen /\ StepOnward
           \/ /\ orch'.gen = orch.gen /\ orch'.st = "ended" /\ nav' = nav
              /\ orch.phase = "RUNNING" /\ orch'.phase # "RUNNING"
              /\ orch.st = "dispatched"
              /\ \/ nav[StepCmd(orch.gen)] \in Terminal
                 \/ \E m \in mail : m.cmd = StepCmd(orch.gen)
           \/ /\ orch'.gen = orch.gen + 1 /\ orch'.st = "pending"
              /\ nav' = nav
              /\ \E w \in Worker : CommitResume(w) /\ StillGated(w)
<1>1. \A w \in Worker : ~SaveDecision(w)
  BY DEF SaveDecision, Doing, HeldInv, InPlace, Kept
<1>2. ASSUME NEW m \in mail, Deliver(m), StepEnds(m.cmd)
      PROVE  /\ nav' = nav /\ orch'.gen = orch.gen /\ orch'.st = "ended"
             /\ orch.phase = "RUNNING" /\ orch'.phase # "RUNNING"
             /\ orch.st = "dispatched"
             /\ m.cmd = StepCmd(orch.gen)
  BY <1>2 DEF Deliver, StepEnds
<1>3. ASSUME NEW c \in Command, PollStep, nav[c] \in Terminal, StepEnds(c)
      PROVE  /\ nav' = nav /\ orch'.gen = orch.gen /\ orch'.st = "ended"
             /\ orch.phase = "RUNNING" /\ orch'.phase # "RUNNING"
             /\ orch.st = "dispatched"
             /\ nav[StepCmd(orch.gen)] \in Terminal
  BY <1>3 DEF PollStep, StepEnds, SameNav, navVars
<1>4. ASSUME NEW w \in Worker, CommitResume(w) PROVE nav' = nav
  BY <1>4 DEF CommitResume, SameNav, navVars
<1>5. PutOnHold \/ DispOnward \/ UNCHANGED <<task, orch>>
         => /\ orch'.gen = orch.gen /\ orch'.st = orch.st /\ task' = task
            /\ orch'.phase = "RUNNING" => orch.phase = "RUNNING"
  BY DEF PutOnHold, DispOnward
<1>6. StepOnward => orch'.gen = orch.gen
  BY DEF StepOnward
<1> QED
  BY <1>1, <1>2, <1>3, <1>4, <1>5, <1>6, RecordMoves DEF RecordMove

LEMMA ResumeNext ==
    ASSUME HeldInv, MovesSafe, OldKnows, Kept, Unhurried, [Next]_vars,
           NEW v \in Worker, job'[v].at \in {"rhealth", "rverify", "rcommit"}
    PROVE  ResumeKnows(v)'
<1> USE Unpack
<1>0. /\ orch.gen \in Nat /\ job[v].snap.gen \in Nat
      /\ job[v].snap.gen \in 0..MaxGen /\ orch.gen \in 0..MaxGen
  BY HeldTaskAssumption DEF HeldOrch
<1>1. CASE job'[v].snap = orch /\ \E c \in {"LOADED", "EMPTY"} : BeginResume(v, c)
  <2>1. /\ orch' = orch /\ nav' = nav /\ orch.phase = "AWAITING_OPERATOR"
        /\ task = "RUNNING" /\ Leisure
    BY <1>1 DEF BeginResume, BeginGated, SameRecord, recordVars, SameNav, navVars, Held
  <2>2. job'[v].at = "rhealth" /\ \A w \in Worker : w # v => job'[w] = job[w]
    <3>1. PICK c \in {"LOADED", "EMPTY"} : BeginResume(v, c)
      BY <1>1
    <3> DEFINE j == [NoHeldJob EXCEPT !.at = "rhealth", !.snap = orch, !.cargo = c]
    <3>2. j.at = "rhealth"
      BY DEF NoHeldJob
    <3>3. Become(v, j)
      BY <3>1 DEF BeginResume, BeginGated
    <3> HIDE DEF j
    <3> QED
      BY <3>2, <3>3, Becomes
  <2>3. \A w \in Worker : job'[w].at # "post"
    BY <2>1, <2>2 DEF Leisure, Sending
  <2> QED
    BY <1>0, <1>1, <2>1, <2>2, <2>3 DEF OldKnows, ResumeKnows
<1>2. CASE job'[v].snap = job[v].snap /\ (Health(v) \/ Verify(v))
           /\ job[v].at \in {"rhealth", "rverify"}
  <2>1. orch' = orch /\ nav' = nav
    BY <1>2 DEF Health, Verify, SameRecord, recordVars, SameNav, navVars
  <2>2. \A w \in Worker : w # v => job'[w] = job[w]
    BY <1>2, Goes, Finishes DEF Health, Verify
  <2>3. ResumeKnows(v)
    BY <1>2 DEF OldKnows
  <2>4. job'[v].at = "rcommit" => ProvenOver(job[v].snap) \/ job[v].snap.gen # orch.gen
    BY <1>2, Goes, Finishes DEF Health, Verify, Doing
  <2>5. job[v].snap.gen = orch.gen /\ job'[v].at = "rcommit"
           => nav[StepCmd(job[v].snap.gen)] # "ACTIVE"
    BY <2>3, <2>4 DEF ProvenOver, ResumeKnows, Begun
  <2> QED
    BY <1>2, <2>1, <2>2, <2>3, <2>5 DEF ResumeKnows
<1>3. CASE job'[v] = job[v]
  <2>1. ResumeKnows(v)
    BY <1>3 DEF OldKnows
  <2>2. orch'.gen = orch.gen \/ orch'.gen = orch.gen + 1
    BY GenMoves
  <2>3. CASE job[v].snap.gen # orch'.gen
    BY <1>0, <1>3, <2>1, <2>2, <2>3 DEF ResumeKnows
  <2>4. CASE job[v].snap.gen = orch'.gen
    <3>1. orch'.gen = orch.gen
      BY <1>0, <2>1, <2>2, <2>4 DEF ResumeKnows
    <3>2. /\ orch.phase # "RUNNING"
          /\ \A w \in Worker : job[w].at # "post"
      BY <2>1, <2>4, <3>1 DEF ResumeKnows
    <3>3. orch'.phase # "RUNNING"
      BY <1>0, <3>1, <3>2, GenMoves DEF StepOnward
    <3>4. \A w \in Worker : job'[w].at # "post"
      BY <3>2, Posting
    <3>5. LET c == StepCmd(job[v].snap.gen)
          IN  nav'[c] = nav[c] \/ (nav[c] # "NONE" /\ nav'[c] \notin Begun)
      BY <1>0, <3>2, StepCmdMoves
    <3> QED
      BY <1>3, <2>1, <2>4, <3>1, <3>3, <3>4, <3>5 DEF ResumeKnows, Begun
  <2> QED
    BY <2>3, <2>4
<1> QED
  BY <1>1, <1>2, <1>3, JobsMove
     DEF JobMove, Elsewhere, Onward, Moving, Health, Verify, Doing

LEMMA OldNext ==
    ASSUME HeldInv, MovesSafe, OldKnows, Kept, Unhurried, [Next]_vars
    PROVE  OldKnows'
<1> DEFINE S(g) == StepCmd(g)
<1>0. orch.gen \in Nat /\ orch.gen \in 0..MaxGen /\ orch'.gen \in 0..MaxGen
  <2>1. HeldInv'
    BY NextHeld
  <2> QED
    BY <2>1, HeldTaskAssumption DEF HeldInv, HeldTypeOK, HeldOrch
<1>1. orch'.gen = orch.gen \/ orch'.gen = orch.gen + 1
  BY GenMoves
<1>2. ASSUME NEW w \in Worker, CommitResume(w), StillGated(w)
      PROVE  /\ nav[StepCmd(orch.gen)] # "ACTIVE"
             /\ \A v \in Worker : job[v].at # "post"
  <2>1. ResumeKnows(w) /\ job[w].at = "rcommit" /\ job[w].snap.gen = orch.gen
    BY <1>2 DEF OldKnows, CommitResume, Doing, StillGated
  <2> QED
    BY <2>1 DEF ResumeKnows
<1>3. ASSUME NEW g \in 0..MaxGen, g > orch'.gen PROVE nav'[StepCmd(g)] = "NONE"
  <2>1. g > orch.gen /\ g # orch.gen
    BY <1>0, <1>1, <1>3
  <2> QED
    BY <2>1, StepCmdMoves DEF OldKnows
<1>4. ASSUME NEW g \in 0..MaxGen, g < orch'.gen PROVE nav'[StepCmd(g)] # "ACTIVE"
  <2>1. CASE g < orch.gen
    <3>1. nav[StepCmd(g)] # "ACTIVE" /\ g # orch.gen
      BY <1>0, <2>1 DEF OldKnows, OldCommandIsOver
    <3> QED
      BY <3>1, StepCmdMoves DEF Begun
  <2>2. CASE ~(g < orch.gen)
    <3>1. g = orch.gen /\ orch'.gen # orch.gen
      BY <1>0, <1>1, <1>4, <2>2
    <3> QED
      BY <1>2, <3>1, GenMoves
  <2> QED
    BY <2>1, <2>2
<1>5. ASSUME orch'.st = "pending" PROVE nav'[StepCmd(orch'.gen)] = "NONE"
  <2>1. CASE orch'.gen = orch.gen /\ orch.st = "pending"
    BY <1>0, <2>1, StepCmdMoves DEF OldKnows
  <2>2. CASE orch'.gen = orch.gen + 1 /\ nav' = nav
    <3>1. orch.gen + 1 > orch.gen
      BY <1>0
    <3> QED
      BY <1>0, <2>2, <3>1 DEF OldKnows
  <2> QED
    BY <1>5, <2>1, <2>2, GenMoves DEF StepOnward
<1>6. ASSUME orch'.st = "ended", task' = "RUNNING"
      PROVE  nav'[StepCmd(orch'.gen)] \notin Begun
  <2>1. CASE orch'.gen = orch.gen /\ orch.st = "ended" /\ task = "RUNNING"
    BY <1>0, <2>1, StepCmdMoves DEF OldKnows, Begun
  <2>2. CASE orch'.gen = orch.gen /\ nav' = nav
             /\ (\/ nav[StepCmd(orch.gen)] \in Terminal
                 \/ \E m \in mail : m.cmd = StepCmd(orch.gen))
    BY <2>2 DEF OldKnows, Terminal, Begun
  <2> QED
    BY <1>6, <2>1, <2>2, GenMoves DEF StepOnward, SameNav, navVars
<1>7. ASSUME NEW m \in mail' PROVE nav'[m.cmd] \notin Begun
  <2>1. CASE m \in mail
    <3>1. m.cmd \in Command
      BY <2>1 DEF HeldInv, HeldTypeOK, NavTypeOK, Letter
    <3>2. nav[m.cmd] \notin Begun /\ CommandMove(m.cmd) /\ ~NavRestart
      BY <2>1, <3>1, NavMoves DEF OldKnows, NavMove, NavRestart, Kept
    <3> QED
      BY <3>2 DEF CommandMove, Starts, Begun
  <2> QED
    BY <2>1, NavMoves DEF NavMove
<1>8. ASSUME NEW v \in Worker, job'[v].at = "post"
      PROVE  job'[v].cmd = StepCmd(orch'.gen) /\ orch'.st # "pending"
  <2>1. CASE job'[v] # job[v]
    BY <1>8, <2>1, Posting DEF HeldInv, HeldTypeOK, HeldOrch
  <2>2. CASE job'[v] = job[v]
    <3>1. job[v].cmd = StepCmd(orch.gen) /\ orch.st # "pending"
      BY <1>8, <2>2 DEF OldKnows
    <3> QED
      BY <1>2, <1>8, <2>2, <3>1, GenMoves DEF StepOnward
  <2> QED
    BY <2>1, <2>2
<1> QED
  BY <1>3, <1>4, <1>5, <1>6, <1>7, <1>8, ResumeNext DEF OldKnows, OldCommandIsOver

LEMMA InitOld == HeldInit => OldKnows
<1> SUFFICES ASSUME HeldInit PROVE OldKnows
  OBVIOUS
<1>1. \A g \in 0..MaxGen : nav[StepCmd(g)] = "NONE"
  BY StepCommand DEF HeldInit, NavInit
<1>2. orch.gen = 0 /\ orch.st = "pending" /\ 0 \in 0..MaxGen
  BY HeldTaskAssumption DEF HeldInit, FirstOrch
<1> QED
  BY <1>1, <1>2 DEF HeldInit, NavInit, OldKnows, OldCommandIsOver, NoHeldJob

\* A step that is resumed leaves no older command of it running, for any
\* number of operators, pollers and retries, and whatever is lost, cut off by
\* a crash, stopped or held meanwhile.  No decision is saved over a newer
\* record, and Nav keeps its registry.
THEOREM ResumedStepIsAlone ==
    ASSUME Kept, Unhurried PROVE Spec => []OldCommandIsOver
<1>1. HeldInit => HeldInv /\ MovesSafe /\ OldKnows
  BY InitHeld, InitMoves, InitOld
<1>2. HeldInv /\ MovesSafe /\ OldKnows /\ [Next]_vars
         => (HeldInv /\ MovesSafe /\ OldKnows)'
  BY NextHeld, MovesNext, OldNext
<1>3. OldKnows => OldCommandIsOver
  BY DEF OldKnows
<1> QED
  BY <1>1, <1>2, <1>3, PTL DEF Spec

-----------------------------------------------------------------------------
(* LoadedMoveIsWatched.                                                    *)

\* The person monitor watches the step, one operator acts at a time and when
\* no request to Nav is under way, and no decision is saved over a newer
\* record.
OneWatched == Watched /\ Unhurried /\ OneRequest /\ "note" \notin Faults

\* The record has a safe move only while it runs, and the latest one.
MoveShape ==
    /\ orch.phase # "RECOVERY_RUNNING" => orch.rcmd = 0
    /\ orch.rcmd # 0 => /\ orch.rcmd = orch.moves
                        /\ orch.disp \in {"PENDING", "DISPATCHING", "SENT"}
    /\ orch.phase = "RECOVERY_RUNNING" => task = "RUNNING"

Mine(w) == orch.rcmd # 0 /\ job[w].cmd = SafeCmd(orch.rcmd)

MoveKnows(w) ==
    LET j == job[w]
    IN  /\ j.at = "post" => \E g \in 0..MaxGen : j.cmd = StepCmd(g)
        /\ j.at \in Moving => \E n \in 1..orch.moves : j.cmd = SafeCmd(n)
        /\ j.at = "rarm" => j.cmd = SafeCmd(orch.moves)
        /\ j.at \in {"rarm", "rclaim"} /\ Mine(w) => j.snap.watch = orch.watch
        /\ j.at = "rclaim" /\ Mine(w) /\ orch.watch => rt # "none"
        /\ j.at = "rpost" /\ Mine(w) => orch.disp # "PENDING"
        /\ j.at \in {"festop", "disarm"} => orch.phase # "RECOVERY_RUNNING"
        /\ j.at \in {"shealth", "scommit"} =>
              /\ j.snap.moves <= orch.moves
              /\ j.snap.moves = orch.moves =>
                    orch.rcmd = 0 /\ \A v \in Worker : job[v].at # "rarm"

WatchKnows ==
    /\ MoveShape
    /\ \A n \in 1..MaxMoves : n > orch.moves => nav[SafeCmd(n)] = "NONE"
    /\ orch.rcmd # 0 /\ orch.disp = "PENDING" => nav[SafeCmd(orch.rcmd)] # "ACTIVE"
    /\ orch.rcmd # 0 /\ orch.watch /\ orch.disp # "PENDING" /\ up => rt # "none"
    /\ \A w \in Worker : MoveKnows(w)

\* The safe move of the record is over, goes on, or is a new one.
MoveEnds == orch'.rcmd = 0 /\ orch'.moves = orch.moves

MoveOnward ==
    /\ orch.rcmd # 0 /\ orch'.rcmd = orch.rcmd /\ orch'.moves = orch.moves
    /\ orch.phase = "RECOVERY_RUNNING" /\ orch'.phase = orch.phase
    /\ orch'.watch = orch.watch /\ task' = task
    /\ \/ orch'.disp = orch.disp
       \/ /\ orch.disp = "PENDING" /\ orch'.disp = "DISPATCHING"
          /\ \E w \in Worker : ClaimRecovery(w) /\ Owns(job[w].cmd)
       \/ orch.disp = "DISPATCHING" /\ orch'.disp = "SENT"

MoveBegins(w) ==
    /\ CommitSafeMove(w) /\ StillGated(w) /\ task' = task
    /\ orch'.phase = "RECOVERY_RUNNING" /\ orch'.disp = "PENDING"
    /\ orch'.moves = orch.moves + 1 /\ orch'.rcmd = orch'.moves

LEMMA NoNote ==
    ASSUME HeldInv, "note" \notin Faults, NEW w \in Worker PROVE ~SaveDecision(w)
  BY DEF HeldInv, InPlace, SaveDecision, Doing

LEMMA MoveRecord ==
    ASSUME HeldInv, MoveShape, "note" \notin Faults, [Next]_vars
    PROVE  MoveEnds \/ MoveOnward \/ \E w \in Worker : MoveBegins(w)
<1>1. UNCHANGED <<task, orch>> \/ DispOnward => MoveEnds \/ MoveOnward
  BY DEF DispOnward, MoveEnds, MoveOnward, MoveShape
<1>2. PutOnHold \/ StepOnward \/ (\E c : StepEnds(c)) => MoveEnds
  BY DEF PutOnHold, StepOnward, StepEnds, MoveEnds, MoveShape
<1>3. CASE \E m \in mail : Deliver(m) /\ StepEnds(m.cmd)
  BY <1>2, <1>3
<1>4. CASE \E c \in Command : PollStep /\ nav[c] \in Terminal /\ StepEnds(c)
  BY <1>2, <1>4
<1> QED
  BY <1>1, <1>2, <1>3, <1>4, NoNote, RecordMoves
     DEF RecordMove, MoveEnds, MoveBegins, MoveShape, Held

LEMMA ShapeNext ==
    ASSUME HeldInv, MoveShape, "note" \notin Faults, [Next]_vars
    PROVE  MoveShape'
<1>1. (orch'.phase # "RECOVERY_RUNNING" => orch'.rcmd = 0)
      /\ (orch'.rcmd # 0 => /\ orch'.rcmd = orch'.moves
                            /\ orch'.disp \in {"PENDING", "DISPATCHING", "SENT"})
  BY MoveRecord DEF MoveShape, MoveEnds, MoveOnward, MoveBegins
<1>2. orch'.phase = "RECOVERY_RUNNING" => task' = "RUNNING"
  BY NoNote, RecordMoves
     DEF RecordMove, PutOnHold, DispOnward, StepOnward, StepEnds, MoveShape,
         StillGated, Held
<1> QED
  BY <1>1, <1>2 DEF MoveShape

\* What disarms the monitor.
LEMMA MonitorMoves ==
    ASSUME HeldInv, Watched, [Next]_vars, rt # "none", rt' = "none"
    PROVE  \/ Crash
           \/ orch.phase = "RUNNING" /\ orch'.rcmd = orch.rcmd
           \/ \E w \in Worker : Doing(w, "disarm") /\ SameRecord
           \/ \E w \in Worker :
                 ArmRecovery(w) /\ ~job[w].snap.watch /\ SameRecord
<1> USE DEF SameMonitor, monitorVars
<1>0. ~Arm
  BY DEF Arm, monitorVars
<1>1. \A w, n : ~FailSafe(w, n)
  BY DEF FailSafe, monitorVars
<1>2. \A w : ~PrepareStep(w)
  BY <1>0, <1>1 DEF PrepareStep
<1>3. ASSUME NEW c, NEW e, StepEvent(c, e)
      PROVE  orch.phase = "RUNNING" /\ orch'.rcmd = orch.rcmd
  <2>1. orch \in HeldOrch
    BY DEF HeldInv, HeldTypeOK
  <2> QED
    BY <1>3, <2>1 DEF StepEvent, EndTask, HeldOrch
<1>4. CASE \E w \in Worker : Continue(w)
  <2>1. PICK w \in Worker : Continue(w)
    BY <1>4
  <2>2. \/ DisarmAborted(w)
        \/ ArmRecovery(w)
    BY <1>1, <1>2, <2>1 DEF Continue, SendEstop, DispatchResumed, ClaimStep, PostStep,
       FinishStep, Health, Verify, CommitResume, CommitSafeMove, ClaimRecovery,
       PostRecovery, FinalizeRecovery, CloseAmbiguous, HoldRecovery, SendCancel,
       CancelAnswer, EnforceAnswer, EnforceEstop, MarkUnstopped, AbortStop,
       FinishAbort, HoldAbort, SendFleetEstop, CloseStops, SaveDecision
  <2> QED
    BY <1>0, <1>1, <2>2 DEF DisarmAborted, ArmRecovery
<1>5. ASSUME NEW w \in Worker PROVE ~Operate(w)
  BY DEF Operate, BeginResume, BeginSafeMove, BeginGated, BeginAbort,
     RequestRecoveryStop, FleetEstop, ClearAll, ReadDecision
<1>6. CASE \E m \in mail : Deliver(m)
  BY <1>3, <1>6 DEF Deliver
<1>7. CASE Poll
  BY <1>2, <1>3, <1>7 DEF Poll, PollDispatch, PollStep, PollRecovery
<1>8. CASE Monitor \/ NavStep \/ AIRestart \/ NavRestart \/ Restart \/ UNCHANGED vars
  BY <1>0, <1>1, <1>8 DEF Monitor, SeePerson, MonitorOutage, Reassert, NavStep,
     AIRestart, NavRestart, Restart, vars
<1> QED
  BY <1>4, <1>5, <1>6, <1>7, <1>8 DEF Next

\* The numbers and commands that the steps below speak of.
LEMMA MoveNumbers ==
    ASSUME HeldInv
    PROVE  /\ orch.moves \in Nat /\ orch.rcmd \in 0..MaxMoves
           /\ orch.moves \in 0..MaxMoves
           /\ \A m, n : SafeCmd(m) = SafeCmd(n) => m = n
           /\ \A g, n : StepCmd(g) # SafeCmd(n)
<1>1. orch.moves \in 0..MaxMoves /\ orch.rcmd \in 0..MaxMoves
  BY DEF HeldInv, HeldTypeOK, HeldOrch
<1> QED
  BY <1>1, HeldTaskAssumption DEF SafeCmd, StepCmd

\* A thread that has a command has that of an earlier move when one begins.
LEMMA NotMine ==
    ASSUME HeldInv, WatchKnows, NEW u \in Worker, MoveBegins(u),
           NEW v \in Worker, job[v].at \in Moving, job'[v] = job[v], HeldInv'
    PROVE  ~Mine(v)'
<1>1. PICK n \in 1..orch.moves : job[v].cmd = SafeCmd(n)
  BY DEF WatchKnows, MoveKnows
<1>2. orch'.rcmd = orch.moves + 1 /\ orch.moves \in Nat
  BY MoveNumbers DEF MoveBegins
<1> QED
  BY <1>1, <1>2, MoveNumbers DEF Mine

\* When a safe move begins, no other one is being armed.
LEMMA BeginsAlone ==
    ASSUME HeldInv, WatchKnows, NEW u \in Worker, MoveBegins(u)
    PROVE  orch.rcmd = 0 /\ \A v \in Worker : job[v].at # "rarm"
  BY DEF WatchKnows, MoveKnows, MoveBegins, CommitSafeMove, StillGated, Doing

\* While a loaded move is the record's, nobody disarms the monitor.
LEMMA StaysArmed ==
    ASSUME HeldInv, WatchKnows, Watched, [Next]_vars, MoveOnward,
           orch.watch, ~Crash, rt # "none"
    PROVE  rt' # "none"
<1> SUFFICES ASSUME rt' = "none" PROVE FALSE
  OBVIOUS
<1>1. orch.phase = "RECOVERY_RUNNING" /\ orch.rcmd # 0
  BY DEF MoveOnward
<1>2. CASE \E w \in Worker : Doing(w, "disarm") /\ SameRecord
  BY <1>1, <1>2 DEF WatchKnows, MoveKnows, Doing
<1>3. CASE \E w \in Worker : ArmRecovery(w) /\ ~job[w].snap.watch /\ SameRecord
  <2>1. PICK w \in Worker : ArmRecovery(w) /\ ~job[w].snap.watch
    BY <1>3
  <2>2. job[w].at = "rarm" /\ job[w].cmd = SafeCmd(orch.moves)
    BY <2>1 DEF WatchKnows, MoveKnows, ArmRecovery, Doing
  <2>3. Mine(w)
    BY <1>1, <2>2 DEF WatchKnows, MoveShape, Mine
  <2> QED
    BY <2>1, <2>2, <2>3 DEF WatchKnows, MoveKnows
<1> QED
  BY <1>1, <1>2, <1>3, MonitorMoves

\* A place that thread v keeps, or comes to.
LEMMA CommandsNext ==
    ASSUME HeldInv, HeldInv', WatchKnows, OneWatched, [Next]_vars, NEW v \in Worker
    PROVE  /\ job'[v].at = "post" => \E g \in 0..MaxGen : job'[v].cmd = StepCmd(g)
           /\ job'[v].at \in Moving => \E n \in 1..orch'.moves : job'[v].cmd = SafeCmd(n)
           /\ job'[v].at = "rarm" => job'[v].cmd = SafeCmd(orch'.moves)
<1>0. /\ orch.moves \in Nat /\ orch'.moves \in Nat
      /\ orch.rcmd \in Nat /\ orch'.rcmd \in Nat
      /\ orch.gen \in 0..MaxGen
  BY MoveNumbers, HeldTaskAssumption DEF HeldInv, HeldTypeOK, HeldOrch
<1>1. orch'.moves = orch.moves \/ (orch'.moves = orch.moves + 1 /\ \E u \in Worker : MoveBegins(u))
  BY MoveRecord DEF WatchKnows, OneWatched, MoveEnds, MoveOnward, MoveBegins
<1>2. 1..orch.moves \subseteq 1..orch'.moves
  BY <1>0, <1>1
<1>3. CASE job'[v] = job[v]
  <2>1. job[v].at = "rarm" => orch'.moves = orch.moves
    BY <1>1, BeginsAlone
  <2> QED
    BY <1>2, <1>3, <2>1 DEF WatchKnows, MoveKnows
<1>4. CASE Onward(v) \/ (job'[v].at \in {"rclaim", "rpost"} /\ job'[v].cmd = job[v].cmd
                         /\ job[v].at \in Moving)
  BY <1>2, <1>4 DEF WatchKnows, MoveKnows, Onward, Moving
<1>5. CASE job'[v].at = "post" /\ job'[v].cmd = StepCmd(orch.gen)
  BY <1>0, <1>5 DEF Moving
<1>6. CASE /\ job'[v].at = "rarm" /\ job'[v].cmd = SafeCmd(orch'.rcmd)
           /\ CommitSafeMove(v) \/ (v = Poller /\ PollRecovery /\ job'[v] # job[v])
  <2>1. orch'.rcmd # 0 /\ orch'.rcmd = orch'.moves
    <3>1. CASE CommitSafeMove(v)
      <4>1. ~GiveUp(v)
        BY <1>6, Finishes DEF GiveUp
      <4> DEFINE n == orch.moves + 1
                 o == [orch EXCEPT !.phase = "RECOVERY_RUNNING", !.moves = n,
                                   !.rcmd = n, !.disp = "PENDING",
                                   !.watch = (job[v].cargo = "LOADED"),
                                   !.cargo = job[v].cargo]
      <4>2. o.moves = n /\ o.rcmd = n
        BY Unpack DEF HeldOrch
      <4>3. orch' = o
        BY <3>1, <4>1 DEF CommitSafeMove, Save
      <4> HIDE DEF o
      <4> QED
        BY <1>0, <4>2, <4>3
    <3>2. CASE PollRecovery /\ job'[v] # job[v]
      BY <3>2 DEF PollRecovery, SameRecord, recordVars, WatchKnows, MoveShape
    <3> QED
      BY <1>6, <3>1, <3>2
  <2>2. orch'.rcmd \in 1..orch'.moves
    BY <1>0, <2>1
  <2> QED
    BY <1>6, <2>1, <2>2
<1>7. CASE /\ job'[v].at = "scancel" /\ job'[v].cmd = SafeCmd(orch.rcmd)
           /\ RequestRecoveryStop(v) \/ (v = Poller /\ PollRecovery)
  <2>1. orch.rcmd # 0 /\ orch.rcmd = orch.moves
    BY <1>7 DEF RequestRecoveryStop, PollRecovery, WatchKnows, MoveShape
  <2>2. orch.rcmd \in 1..orch'.moves
    BY <1>0, <1>2, <2>1
  <2> QED
    BY <1>7, <2>2
<1>8. CASE job'[v].at \in Elsewhere
  BY <1>8 DEF Elsewhere, Moving
<1>9. CASE job'[v].at = "rclaim" /\ job'[v].cmd = job[v].cmd /\ ArmRecovery(v)
  BY <1>4, <1>9 DEF ArmRecovery, Doing, Moving
<1>10. CASE job'[v].at = "rpost" /\ job'[v].cmd = job[v].cmd /\ ClaimRecovery(v)
  BY <1>4, <1>10 DEF ClaimRecovery, Doing, Moving
<1>11. CASE job'[v].at \notin Moving \cup {"post"}
  BY <1>11 DEF Moving
<1> QED
  BY <1>3, <1>4, <1>5, <1>6, <1>7, <1>8, <1>9, <1>10, <1>11, JobsMove
     DEF JobMove, Moving

LEMMA ArmedNext ==
    ASSUME HeldInv, HeldInv', WatchKnows, OneWatched, [Next]_vars, NEW v \in Worker
    PROVE  /\ job'[v].at \in {"rarm", "rclaim"} /\ Mine(v)'
                => job'[v].snap.watch = orch'.watch
           /\ job'[v].at = "rclaim" /\ Mine(v)' /\ orch'.watch => rt' # "none"
           /\ job'[v].at = "rpost" /\ Mine(v)' => orch'.disp # "PENDING"
<1> SUFFICES ASSUME job'[v].at \in {"rarm", "rclaim", "rpost"}, Mine(v)'
             PROVE  /\ job'[v].at # "rpost" => job'[v].snap.watch = orch'.watch
                    /\ job'[v].at = "rclaim" /\ orch'.watch => rt' # "none"
                    /\ job'[v].at = "rpost" => orch'.disp # "PENDING"
  OBVIOUS
<1>0. ~Crash
  BY DEF Crash, NoHeldJob
<1>1. CASE job'[v] = job[v]
  <2>1. job[v].at \in Moving
    BY <1>1 DEF Moving
  <2>2. MoveOnward
    BY <1>1, <2>1, MoveRecord, NotMine DEF WatchKnows, OneWatched, MoveEnds, Mine
  <2>3. Mine(v) /\ orch'.watch = orch.watch
    BY <1>1, <2>2 DEF Mine, MoveOnward
  <2>4. job'[v].at = "rpost" => orch'.disp # "PENDING"
    BY <1>1, <2>2, <2>3 DEF WatchKnows, MoveKnows, MoveOnward
  <2>5. job'[v].at = "rclaim" /\ orch'.watch => rt' # "none"
    BY <1>0, <1>1, <2>2, <2>3, StaysArmed DEF WatchKnows, MoveKnows, OneWatched
  <2> QED
    BY <1>1, <2>3, <2>4, <2>5 DEF WatchKnows, MoveKnows
<1>2. CASE job'[v].at = "rarm" /\ job'[v].snap = orch'
  BY <1>2
<1>3. CASE /\ job'[v].at = "rclaim" /\ job'[v].snap = job[v].snap
           /\ job'[v].cmd = job[v].cmd /\ ArmRecovery(v)
  <2>1. job[v].at = "rarm"
    BY <1>3 DEF ArmRecovery, Doing
  <2>2. ~FailSafe(v, "rhold")
    BY <1>3, Goes DEF FailSafe
  <2>3. /\ (job[v].snap.watch /\ Arm) \/ ~job[v].snap.watch
        /\ orch' = orch
    BY <1>3, <2>2 DEF ArmRecovery, SameRecord, recordVars
  <2>4. Mine(v)
    BY <1>3, <2>3 DEF Mine
  <2>5. job[v].snap.watch = orch.watch
    BY <2>1, <2>4 DEF WatchKnows, MoveKnows
  <2>6. Arm => rt' # "none"
    BY DEF Arm, monitorVars
  <2> QED
    BY <1>3, <2>3, <2>5, <2>6
<1>4. CASE job'[v].at = "rpost" /\ job'[v] # job[v]
  <2>1. orch' = [orch EXCEPT !.disp = "DISPATCHING"] /\ orch \in HeldOrch
    BY <1>4, Posting DEF HeldInv, HeldTypeOK
  <2> QED
    BY <1>4, <2>1 DEF HeldOrch
<1> QED
  BY <1>1, <1>2, <1>3, <1>4, JobsMove DEF JobMove, Elsewhere, Onward

\* No monitor is closed under a safe move, and none is begun on an old record.
LEMMA RequestsNext ==
    ASSUME HeldInv, HeldInv', WatchKnows, OneWatched, [Next]_vars, NEW v \in Worker
    PROVE  /\ job'[v].at \in {"festop", "disarm"} => orch'.phase # "RECOVERY_RUNNING"
           /\ job'[v].at \in {"shealth", "scommit"} =>
                 /\ job'[v].snap.moves <= orch'.moves
                 /\ job'[v].snap.moves = orch'.moves =>
                       orch'.rcmd = 0 /\ \A w \in Worker : job'[w].at # "rarm"
<1>0. /\ orch.moves \in Nat /\ orch'.moves \in Nat /\ job[v].snap.moves \in Nat
      /\ orch.rcmd \in Nat /\ orch'.rcmd \in Nat
  BY MoveNumbers, HeldTaskAssumption, Unpack DEF HeldInv, HeldTypeOK, HeldOrch
<1>1. ASSUME job'[v].at \in {"festop", "disarm"}, job'[v] = job[v]
      PROVE  orch'.phase # "RECOVERY_RUNNING"
  <2>1. orch.phase # "RECOVERY_RUNNING"
    BY <1>1 DEF WatchKnows, MoveKnows
  <2>2. SUFFICES ASSUME NEW w \in Worker, CommitSafeMove(w) \/ BeginAbort(w)
                 PROVE  FALSE
    BY <2>1, IntoRecovery, NoNote DEF OneWatched
  <2>3. /\ job[w].at \in {"scommit", "idle"}
        /\ job[w].at \in OperatorAt \/ w \in Requests
    BY <2>2 DEF CommitSafeMove, BeginAbort, Request, Requests, Idle, Doing, OperatorAt
  <2>4. v = w
    BY <1>1, <2>3, Alone DEF OneWatched, OperatorAt
  <2> QED
    BY <1>1, <2>3, <2>4
<1>2. ASSUME job'[v].at = "festop", FleetEstop(v)
      PROVE  orch'.phase # "RECOVERY_RUNNING"
  <2>1. Marked(orch).phase = "AWAITING_OPERATOR"
    BY Unpack DEF Marked, Await, HeldOrch
  <2> QED
    BY <1>2, <2>1 DEF FleetEstop, Save, SameRecord, recordVars, WatchKnows, MoveShape
<1>3. ASSUME job'[v].at = "disarm", FinishAbort(v) \/ SendFleetEstop(v)
      PROVE  orch'.phase # "RECOVERY_RUNNING"
  <2>1. CASE SendFleetEstop(v)
    BY <2>1 DEF SendFleetEstop, Doing, SameRecord, recordVars, WatchKnows, MoveKnows
  <2>2. CASE FinishAbort(v)
    <3>1. ~GiveUp(v)
      BY <1>3, Finishes DEF GiveUp
    <3>2. [Cleared(orch) EXCEPT !.phase = "ABORTED", !.disp = "none"].phase = "ABORTED"
      BY Unpack DEF Cleared, HeldOrch
    <3> QED
      BY <2>2, <3>1, <3>2 DEF FinishAbort
  <2> QED
    BY <1>3, <2>1, <2>2
<1>4. ASSUME job'[v].at \in {"shealth", "scommit"}, job[v].at \in {"shealth", "scommit"},
             job'[v].snap = job[v].snap
      PROVE  /\ job'[v].snap.moves <= orch'.moves
             /\ job'[v].snap.moves = orch'.moves =>
                   orch'.rcmd = 0 /\ \A w \in Worker : job'[w].at # "rarm"
  <2>1. /\ job[v].snap.moves <= orch.moves
        /\ job[v].snap.moves = orch.moves =>
              orch.rcmd = 0 /\ \A w \in Worker : job[w].at # "rarm"
    BY <1>4 DEF WatchKnows, MoveKnows
  <2>2. CASE \E u \in Worker : MoveBegins(u)
    BY <1>0, <1>4, <2>1, <2>2 DEF MoveBegins
  <2>3. CASE orch'.moves = orch.moves /\ (MoveEnds \/ orch.rcmd # 0)
             /\ ~\E u \in Worker : MoveBegins(u)
    <3>1. ASSUME NEW w \in Worker, job'[w].at = "rarm", orch.rcmd = 0
          PROVE  job[w].at = "rarm"
      <4>1. job'[w] = job[w] \/ CommitSafeMove(w) \/ PollRecovery
        BY <3>1, JobsMove DEF JobMove, Elsewhere, Onward
      <4>2. ~PollRecovery
        BY <3>1 DEF PollRecovery
      <4>3. CASE CommitSafeMove(w)
        <5>1. ~GiveUp(w)
          BY <3>1, Finishes DEF GiveUp
        <5>2. orch'.moves = orch.moves + 1
          BY <4>3, <5>1, Unpack DEF CommitSafeMove, Save, HeldOrch
        <5> QED
          BY <1>0, <2>3, <5>2
      <4> QED
        BY <3>1, <4>1, <4>2, <4>3
    <3> QED
      BY <1>4, <2>1, <2>3, <3>1 DEF MoveEnds
  <2> QED
    BY <2>2, <2>3, MoveRecord DEF WatchKnows, OneWatched, MoveEnds, MoveOnward
<1>5. ASSUME job'[v].at = "shealth", job'[v].snap = orch,
             NEW c \in {"LOADED", "EMPTY"}, BeginSafeMove(v, c)
      PROVE  /\ job'[v].snap.moves <= orch'.moves
             /\ job'[v].snap.moves = orch'.moves =>
                   orch'.rcmd = 0 /\ \A w \in Worker : job'[w].at # "rarm"
  <2>1. /\ orch' = orch /\ orch.phase = "AWAITING_OPERATOR"
        /\ \A w \in Worker : job[w].at # "rarm"
    BY <1>5 DEF BeginSafeMove, BeginGated, SameRecord, recordVars, Held, Leisure,
       Sending, OneWatched
  <2>2. \A w \in Worker : w # v => job'[w] = job[w]
    BY <1>5, Becomes DEF BeginSafeMove, BeginGated
  <2> QED
    BY <1>0, <1>5, <2>1, <2>2 DEF WatchKnows, MoveShape
<1>6. job'[v].at \in {"festop", "disarm"} => orch'.phase # "RECOVERY_RUNNING"
  BY <1>1, <1>2, <1>3, JobsMove DEF JobMove, Elsewhere, Onward, Moving
<1>7. job'[v].at \in {"shealth", "scommit"} =>
        \/ job[v].at \in {"shealth", "scommit"} /\ job'[v].snap = job[v].snap
        \/ /\ job'[v].at = "shealth" /\ job'[v].snap = orch
           /\ \E c \in {"LOADED", "EMPTY"} : BeginSafeMove(v, c)
  BY JobsMove DEF JobMove, Elsewhere, Onward, Moving, Doing
<1> QED
  BY <1>4, <1>5, <1>6, <1>7

LEMMA OnlyRestart == [Next]_vars /\ ~up /\ up' => Restart
<1> SUFFICES ASSUME [Next]_vars, ~up, up' PROVE Restart
  OBVIOUS
<1>1. \A w : ~Continue(w)
  BY DEF Continue, SendEstop, DispatchResumed, ClaimStep, PostStep, FinishStep,
     Health, Verify, CommitResume, CommitSafeMove, ArmRecovery, ClaimRecovery,
     PostRecovery, FinalizeRecovery, CloseAmbiguous, HoldRecovery, SendCancel,
     CancelAnswer, EnforceAnswer, EnforceEstop, MarkUnstopped, AbortStop,
     FinishAbort, HoldAbort, DisarmAborted, SendFleetEstop, CloseStops,
     SaveDecision, Doing
<1>2. \A w : ~Operate(w)
  BY DEF Operate, BeginResume, BeginSafeMove, BeginGated, BeginAbort,
     RequestRecoveryStop, FleetEstop, ClearAll, ReadDecision, Request, Idle, Doing
<1>3. ~Poll /\ ~Monitor /\ ~Crash
  BY DEF Poll, PollDispatch, PollStep, PollRecovery, Monitor, SeePerson,
     MonitorOutage, Reassert, Watching, Crash, Idle, Doing
<1> QED
  BY <1>1, <1>2, <1>3 DEF Next, Deliver, NavStep, AIRestart, NavRestart, vars

LEMMA MoveKnowsNext ==
    ASSUME HeldInv, HeldInv', WatchKnows, OneWatched, [Next]_vars, NEW v \in Worker
    PROVE  MoveKnows(v)'
  BY CommandsNext, ArmedNext, RequestsNext DEF MoveKnows

LEMMA WatchNext ==
    ASSUME HeldInv, WatchKnows, OneWatched, [Next]_vars
    PROVE  WatchKnows'
<1>0. HeldInv'
  BY NextHeld
<1>1. MoveShape'
  BY ShapeNext DEF WatchKnows, OneWatched
<1>2. \A v \in Worker : MoveKnows(v)'
  BY <1>0, MoveKnowsNext
<1>3. /\ orch.moves \in Nat /\ orch'.moves \in Nat
      /\ orch'.moves = orch.moves \/ orch'.moves = orch.moves + 1
      /\ orch'.rcmd # 0 => orch'.rcmd \in 1..MaxMoves
      /\ orch.rcmd # 0 => orch.rcmd \in 1..MaxMoves
  BY <1>0, MoveNumbers, MoveRecord, HeldTaskAssumption
     DEF HeldInv, HeldTypeOK, HeldOrch, WatchKnows, OneWatched, MoveEnds, MoveOnward,
         MoveBegins
<1>4. ASSUME NEW n \in 1..MaxMoves, n > orch'.moves PROVE nav'[SafeCmd(n)] = "NONE"
  <2>1. n > orch.moves /\ nav[SafeCmd(n)] = "NONE"
    BY <1>3, <1>4 DEF WatchKnows
  <2>2. CommandMove(SafeCmd(n))
    BY NavMoves, SafeCommand DEF NavMove
  <2>3. ASSUME NEW w \in Worker, job[w].at \in {"post", "rpost", "scancel", "rcancel"},
               job[w].cmd = SafeCmd(n)
        PROVE  FALSE
    BY <1>3, <2>1, <2>3, MoveNumbers DEF WatchKnows, MoveKnows, Moving
  <2> QED
    BY <2>1, <2>2, <2>3 DEF CommandMove, Starts
<1>5. ASSUME orch'.rcmd # 0, orch'.disp = "PENDING"
      PROVE  nav'[SafeCmd(orch'.rcmd)] # "ACTIVE"
  <2>1. CASE \E u \in Worker : MoveBegins(u)
    <3>1. PICK u \in Worker : MoveBegins(u)
      BY <2>1
    <3>2. nav' = nav
      BY <3>1 DEF MoveBegins, CommitSafeMove, SameNav, navVars
    <3>3. orch'.rcmd = orch.moves + 1
      BY <3>1 DEF MoveBegins
    <3> QED
      BY <1>3, <1>5, <3>2, <3>3 DEF WatchKnows
  <2>2. CASE MoveOnward
    <3>1. /\ orch.rcmd # 0 /\ orch'.rcmd = orch.rcmd /\ orch.disp = "PENDING"
      BY <1>5, <2>2 DEF MoveOnward
    <3>2. CommandMove(SafeCmd(orch.rcmd))
      BY <1>3, <3>1, NavMoves, SafeCommand DEF NavMove
    <3>3. ASSUME NEW w \in Worker, job[w].at \in {"post", "rpost"},
                 job[w].cmd = SafeCmd(orch.rcmd)
          PROVE  FALSE
      BY <3>1, <3>3, MoveNumbers DEF WatchKnows, MoveKnows, Mine
    <3> QED
      BY <3>1, <3>2, <3>3 DEF WatchKnows, CommandMove, Starts, Begun
  <2> QED
    BY <1>5, <2>1, <2>2, MoveRecord DEF WatchKnows, OneWatched, MoveEnds
<1>6. ASSUME orch'.rcmd # 0, orch'.watch, orch'.disp # "PENDING", up'
      PROVE  rt' # "none"
  <2>1. MoveOnward
    BY <1>6, MoveRecord DEF WatchKnows, OneWatched, MoveEnds, MoveBegins
  <2>2. orch.rcmd # 0 /\ orch.watch /\ orch.phase = "RECOVERY_RUNNING" /\ ~Crash
    BY <1>6, <2>1 DEF MoveOnward, Crash
  <2>3. CASE ~up
    <3>1. Restart
      BY <1>6, <2>3, OnlyRestart
    <3>2. MustHold
      BY <2>2, <2>1 DEF MustHold, RecoveryMayMove, WatchKnows, MoveShape, OneWatched
    <3> QED
      BY <2>2, <3>1, <3>2 DEF Restart, MayRestop
  <2>4. CASE up /\ orch.disp # "PENDING"
    BY <2>1, <2>2, <2>4, StaysArmed DEF WatchKnows, OneWatched
  <2>5. CASE orch.disp = "PENDING"
    <3>1. PICK w \in Worker : ClaimRecovery(w) /\ Owns(job[w].cmd)
      BY <1>6, <2>1, <2>5 DEF MoveOnward
    <3>2. rt # "none"
      BY <2>2, <3>1 DEF WatchKnows, MoveKnows, ClaimRecovery, Doing, Owns, Mine
    <3> QED
      BY <3>1, <3>2 DEF ClaimRecovery, SameMonitor, monitorVars
  <2> QED
    BY <2>3, <2>4, <2>5
<1> QED
  BY <1>1, <1>2, <1>4, <1>5, <1>6 DEF WatchKnows

LEMMA InitWatch == HeldInit => WatchKnows
<1> SUFFICES ASSUME HeldInit PROVE WatchKnows
  OBVIOUS
<1>1. \A w \in Worker : job[w].at = "idle"
  BY DEF HeldInit, NoHeldJob
<1>2. \A n \in 1..MaxMoves : nav[SafeCmd(n)] = "NONE"
  BY SafeCommand DEF HeldInit, NavInit
<1> QED
  BY <1>1, <1>2 DEF HeldInit, FirstOrch, WatchKnows, MoveShape, MoveKnows, Moving

\* A loaded safe move is never under way without the monitor, for any number
\* of moves and holds, and whatever is lost, crashes, is stopped, or is armed
\* and disarmed for others meanwhile: a restarted Main holds the move before
\* it does anything else.
THEOREM SafeMoveIsWatched ==
    ASSUME OneWatched PROVE Spec => []LoadedMoveIsWatched
<1>1. HeldInit => HeldInv /\ WatchKnows
  BY InitHeld, InitWatch
<1>2. HeldInv /\ WatchKnows /\ [Next]_vars => (HeldInv /\ WatchKnows)'
  BY NextHeld, WatchNext
<1>3. HeldInv /\ WatchKnows => LoadedMoveIsWatched
  BY MoveNumbers DEF WatchKnows, LoadedMoveIsWatched, Owns
<1> QED
  BY <1>1, <1>2, <1>3, PTL DEF Spec
=============================================================================
