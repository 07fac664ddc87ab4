-------------------------- MODULE NavServerProofs --------------------------
(***************************************************************************)
(* Theorems about the Nav servers, for any robots, commands, segments and  *)
(* request threads, and any faults but a command that outlasts its locks.  *)
(***************************************************************************)
EXTENDS NavServer, TLAPS

Locking == {"lock", "undo"}
Ending == {"stop", "confirm", "unlock"}
Knowing == {"convert", "mark"}

Exe == [at : ExeAt, i : Nat]
HandRec == [at : HandAt, cmd : NavCmd \cup {NoCmd},
            robot : Robot \cup {NoHand.robot}, n : Nat]

NavTypes ==
    /\ reg \in [NavCmd -> RegState]
    /\ segs \in [NavCmd -> Seq(Segment)]
    /\ exe \in [NavCmd -> Exe]
    /\ running \in [Robot -> NavCmd \cup {NoCmd}]
    /\ arrived \in [Robot -> NavCmd \cup {NoCmd}]
    /\ lock \in [Segment -> NavCmd \cup {NoCmd}]
    /\ timer \in [NavCmd -> {"off", "armed", "late", "pop"}]
    /\ hand \in [Client -> HandRec]

\* A command names every segment once.
SegsApart == \A c \in NavCmd : \A j, k \in DOMAIN segs[c] :
    segs[c][j] = segs[c][k] => j = k

\* What an executor has yet to do fits the state of its command.
ExeKnows == \A c \in NavCmd :
    /\ exe[c].i \in 1 .. Len(StepsOf[c])
    /\ reg[c] = "NONE" => exe[c].at = "none"
    /\ reg[c] = "ACCEPTED" => exe[c].at = "queued"
    /\ reg[c] = "RUNNING" => exe[c].at \notin {"none", "queued"}
    /\ exe[c].at \in {"gate", "release", "over"} => reg[c] \notin InForce

TimerKnows == \A c \in NavCmd : timer[c] # "off" => reg[c] \notin InForce \cup {"NONE"}

\* A registration keeps its robot without command in force.  What is being
\* canceled or aborted has not ended otherwise.  A thread that took a gate, or
\* is about to abort, knows a command that exists.
LocksHand(h) ==
    /\ hand[h].cmd \in NavCmd
    /\ hand[h].robot = RobotOf[hand[h].cmd]
    /\ reg[hand[h].cmd] = "NONE"
    /\ \A d \in NavCmd : RobotOf[d] = hand[h].robot => reg[d] \notin InForce
    /\ hand[h].n <= Len(segs[hand[h].cmd])
EndsHand(h) ==
    /\ hand[h].cmd \in NavCmd
    /\ hand[h].robot = RobotOf[hand[h].cmd]
    /\ reg[hand[h].cmd] \notin InForce \cup {"NONE", "DONE", "FAILED", "ARRIVED"}
KnownHand(h) ==
    /\ hand[h].cmd \in NavCmd
    /\ reg[hand[h].cmd] # "NONE"
    /\ hand[h].at = "mark" => hand[h].robot = RobotOf[hand[h].cmd]
HandsKnow == \A h \in Client :
    /\ hand[h].at \in Locking => LocksHand(h)
    /\ hand[h].at \in Ending => EndsHand(h)
    /\ hand[h].at \in Knowing => KnownHand(h)
OneRegistration == \A g, h \in Client :
    hand[g].at \in Locking /\ hand[h].at \in Locking /\ hand[g].robot = hand[h].robot => g = h

\* A registration holds the locks that it has come to, and a command in force
\* those of its segments.
LocksTaken == \A h \in Client : hand[h].at \in Locking =>
    \A k \in 1 .. hand[h].n : lock[segs[hand[h].cmd][k]] = hand[h].cmd
LocksHeld == \A c \in NavCmd : reg[c] \in InForce =>
    \A k \in DOMAIN segs[c] : lock[segs[c][k]] = c

\* An executor that runs holds the execution lock of its robot.
ExecutorHeld == \A c \in NavCmd : Executing(c) => running[RobotOf[c]] = c

\* Nothing is told of a command before it leaves force, and of one that was
\* told to be DONE or FAILED it stays the only word.
ToldInv == \A c \in NavCmd :
    /\ reg[c] \in InForce \cup {"NONE"} => \A e \in RegState : <<c, e>> \notin told
    /\ \A e \in {"DONE", "FAILED"} : <<c, e>> \in told =>
          reg[c] = e /\ \A f \in RegState : <<c, f>> \in told => f = e

\* No command outlasts the TTL of its locks.
Prompt == "slow" \notin NavFaults

NavBase == NavTypes /\ SegsApart /\ ExeKnows /\ TimerKnows /\ HandsKnow /\ OneRegistration
NavInv == NavBase /\ ExecutorHeld /\ ToldInv /\ (Prompt => LocksTaken /\ LocksHeld)

-----------------------------------------------------------------------------
(* Types, and the steps that change nothing of this.                       *)

LEMMA NavTyped ==
    /\ RobotOf \in [NavCmd -> Robot]
    /\ StepsOf \in [NavCmd -> Seq({"nav", "dock", "wait"})]
    /\ \A c \in NavCmd : Len(StepsOf[c]) \in Nat \ {0}
    /\ SegsOf \in [NavCmd -> Seq(Segment)]
    /\ \A c \in NavCmd : \A j, k \in DOMAIN SegsOf[c] : SegsOf[c][j] = SegsOf[c][k] => j = k
    /\ NoCmd \notin NavCmd
BY NavServerAssumption

LEMMA NoHandTyped ==
    /\ NoHand \in HandRec
    /\ NoHand.at = "idle"
BY DEF NoHand, HandRec, HandAt

LEMMA NavInitInv == NavServerInit => NavInv
<1> SUFFICES ASSUME NavServerInit
             PROVE  NavInv
  OBVIOUS
<1> USE NavTyped, NoHandTyped DEF NavServerInit
<1>1. NavTypes
  <2>1. <<>> \in Seq(Segment)
    OBVIOUS
  <2> QED
    BY <2>1 DEF NavTypes, RegState, Exe, ExeAt
<1>2. SegsApart /\ ExeKnows /\ TimerKnows
  BY DEF SegsApart, ExeKnows, TimerKnows
<1>3. HandsKnow /\ OneRegistration /\ LocksTaken
  BY DEF HandsKnow, OneRegistration, LocksTaken, Locking, Ending, Knowing
<1>4. ExecutorHeld /\ ToldInv /\ LocksHeld
  BY DEF ExecutorHeld, Executing, ToldInv, LocksHeld, InForce
<1> QED
  BY <1>1, <1>2, <1>3, <1>4 DEF NavInv, NavBase

recordVars == <<reg, segs, exe, running, lock, timer, hand, told>>

LEMMA QuietKeeps ==
    ASSUME NavInv, UNCHANGED recordVars, arrived' \in [Robot -> NavCmd \cup {NoCmd}]
    PROVE  NavInv'
<1> USE DEF recordVars, NavInv, NavBase
<1>1. NavTypes' /\ SegsApart' /\ ExeKnows' /\ TimerKnows'
  BY DEF NavTypes, SegsApart, ExeKnows, TimerKnows
<1>2. HandsKnow' /\ OneRegistration' /\ (Prompt => LocksTaken' /\ LocksHeld')
  BY DEF HandsKnow, LocksHand, EndsHand, KnownHand, OneRegistration, LocksTaken, LocksHeld
<1>3. ExecutorHeld' /\ ToldInv'
  BY DEF ExecutorHeld, Executing, ToldInv
<1> QED
  BY <1>1, <1>2, <1>3

\* The base, the latch and the gate of a robot change alone.
LEMMA QuietSteps ==
    ASSUME NavInv,
           \/ \E r \in Robot : DropGate(r) \/ ClearLatch(r) \/ Jog(r) \/ EndJog(r) \/ StopByHand(r)
           \/ UNCHANGED navServerVars
    PROVE  NavInv'
<1>1. UNCHANGED recordVars
  BY DEF DropGate, ClearLatch, Jog, EndJog, StopByHand, navServerVars, recordVars
<1>2. arrived' \in [Robot -> NavCmd \cup {NoCmd}]
  BY DEF DropGate, PopGateOf, ClearLatch, Jog, EndJog, StopByHand, navServerVars,
         NavInv, NavBase, NavTypes
<1> QED
  BY <1>1, <1>2, QuietKeeps

-----------------------------------------------------------------------------
(* The executor.                                                           *)

\* An executor that goes on, and ends the command as told if that still runs.
LEMMA ExecutorMoves ==
    ASSUME NavInv, NEW c \in NavCmd, Executing(c),
           NEW a \in ExeAt \ {"none", "queued", "over"}, NEW i \in 1 .. Len(StepsOf[c]),
           exe' = [exe EXCEPT ![c] = [at |-> a, i |-> i]],
           \/ UNCHANGED <<reg, told>> /\ (a \in {"gate", "release"} => reg[c] \notin InForce)
           \/ \E e \in {"DONE", "ARRIVED", "FAILED", "ABORTED"} :
                 reg[c] = "RUNNING" /\ reg' = [reg EXCEPT ![c] = e] /\ Report(c, e),
           UNCHANGED <<segs, running, arrived, lock, timer, hand>>
    PROVE  NavInv'
<1> USE DEF NavInv, NavBase
<1>1. NavTypes'
  <2>1. [at |-> a, i |-> i] \in Exe
    BY NavTyped DEF Exe
  <2>2. reg' \in [NavCmd -> RegState]
    BY DEF NavTypes, RegState
  <2> QED
    BY <2>1, <2>2 DEF NavTypes
<1>2. \A d \in NavCmd : /\ d # c => exe'[d] = exe[d] /\ reg'[d] = reg[d]
                        /\ reg'[d] \in InForce => reg[d] = reg'[d]
                        /\ reg'[d] = reg[d] \/ reg[d] = "RUNNING"
                        /\ reg'[d] = "NONE" <=> reg[d] = "NONE"
                        /\ reg'[d] = "ACCEPTED" <=> reg[d] = "ACCEPTED"
  BY DEF NavTypes, InForce
<1>3. exe'[c] = [at |-> a, i |-> i] /\ exe'[c].at = a /\ exe'[c].i = i
  BY DEF NavTypes
<1>4. reg[c] \notin {"NONE", "ACCEPTED"}
  BY DEF Executing, ExeKnows
<1>5. ExeKnows'
  <2> SUFFICES ASSUME NEW d \in NavCmd
               PROVE  /\ exe'[d].i \in 1 .. Len(StepsOf[d])
                      /\ reg'[d] = "NONE" => exe'[d].at = "none"
                      /\ reg'[d] = "ACCEPTED" => exe'[d].at = "queued"
                      /\ reg'[d] = "RUNNING" => exe'[d].at \notin {"none", "queued"}
                      /\ exe'[d].at \in {"gate", "release", "over"} => reg'[d] \notin InForce
    BY DEF ExeKnows
  <2>1. CASE d # c
    BY <2>1, <1>2 DEF ExeKnows
  <2>2. CASE d = c
    BY <2>2, <1>2, <1>3, <1>4 DEF ExeKnows, NavTypes, InForce
  <2> QED
    BY <2>1, <2>2
<1>6. SegsApart' /\ TimerKnows'
  BY <1>2 DEF SegsApart, TimerKnows, InForce
<1>7. HandsKnow' /\ OneRegistration'
  BY <1>2 DEF HandsKnow, LocksHand, EndsHand, KnownHand, OneRegistration, NavTypes, InForce
<1>8. ExecutorHeld'
  BY <1>2, <1>3 DEF ExecutorHeld, Executing
<1>9. ToldInv'
  <2>1. CASE UNCHANGED <<reg, told>>
    BY <2>1 DEF ToldInv
  <2>2. CASE ~UNCHANGED <<reg, told>>
    <3>1. PICK e \in {"DONE", "ARRIVED", "FAILED", "ABORTED"} :
            reg[c] = "RUNNING" /\ reg' = [reg EXCEPT ![c] = e] /\ told' = told \cup {<<c, e>>}
      BY <2>2 DEF Report
    <3>2. reg'[c] = e /\ \A f \in RegState : <<c, f>> \in told' => f = e
      BY <3>1 DEF ToldInv, InForce, NavTypes
    <3>3. \A d \in NavCmd, f \in RegState : d # c => (<<d, f>> \in told' <=> <<d, f>> \in told)
      BY <3>1
    <3>4. reg'[c] \notin InForce \cup {"NONE"}
      BY <3>1, <3>2 DEF InForce
    <3> QED
      BY <1>2, <3>2, <3>3, <3>4 DEF ToldInv, RegState
  <2> QED
    BY <2>1, <2>2
<1>10. Prompt => LocksTaken' /\ LocksHeld'
  BY <1>2 DEF LocksTaken, LocksHeld
<1> QED
  BY <1>1, <1>5, <1>6, <1>7, <1>8, <1>9, <1>10

LEMMA MoveIs ==
    ASSUME NavTypes, NEW c \in NavCmd, NEW a, Move(c, a)
    PROVE  exe' = [exe EXCEPT ![c] = [at |-> a, i |-> exe[c].i]]
<1>1. exe[c] \in Exe
  BY DEF NavTypes
<1>2. [exe[c] EXCEPT !.at = a] = [at |-> a, i |-> exe[c].i]
  BY <1>1 DEF Exe
<1> QED
  BY <1>2 DEF Move

LEMMA GiveUpIs ==
    ASSUME NavInv, NEW c \in NavCmd, NEW e \in {"FAILED", "ABORTED"}, Executing(c), GiveUpOn(c, e),
           UNCHANGED <<segs, running, arrived, lock, timer, hand>>
    PROVE  NavInv'
<1>1. exe' = [exe EXCEPT ![c] = [at |-> "release", i |-> exe[c].i]]
  BY MoveIs DEF GiveUpOn, NavInv, NavBase
<1>2. exe[c].i \in 1 .. Len(StepsOf[c]) /\ reg[c] # "ACCEPTED"
  BY DEF NavInv, NavBase, ExeKnows, Executing
<1>3. CASE reg[c] = "RUNNING"
  BY <1>1, <1>2, <1>3, ExecutorMoves DEF GiveUpOn, ExeAt
<1>4. CASE reg[c] # "RUNNING"
  BY <1>1, <1>2, <1>4, ExecutorMoves DEF GiveUpOn, ExeAt, InForce
<1> QED
  BY <1>3, <1>4

LEMMA GoOnIs ==
    ASSUME NavInv, NEW c \in NavCmd, Executing(c), NEW a \in {"begin", "go", "passed", "failed"},
           Move(c, a), UNCHANGED <<reg, told, segs, running, arrived, lock, timer, hand>>
    PROVE  NavInv'
<1>1. exe' = [exe EXCEPT ![c] = [at |-> a, i |-> exe[c].i]]
  BY MoveIs DEF NavInv, NavBase
<1>2. exe[c].i \in 1 .. Len(StepsOf[c])
  BY DEF NavInv, NavBase, ExeKnows
<1> QED
  BY <1>1, <1>2, ExecutorMoves DEF ExeAt

LEMMA ExecutorSteps ==
    ASSUME NavInv, NEW c \in NavCmd,
           \/ NextStep(c) \/ SendGoal(c) \/ Reach(c) \/ ResumeDock(c) \/ FailStep(c)
           \/ BreakStep(c) \/ EndFailed(c) \/ EndPassed(c) \/ GoOn(c)
    PROVE  NavInv'
<1>0. Executing(c)
  BY DEF NextStep, SendGoal, Reach, ResumeDock, Driving, FailStep, BreakStep, EndFailed, EndPassed,
         GoOn, At, Executing
<1>i. exe[c].i \in 1 .. Len(StepsOf[c])
  BY DEF NavInv, NavBase, ExeKnows
<1>1. CASE NextStep(c)
  <2>1. CASE reg[c] \in CancelState \/ latch[RobotOf[c]]
    BY <1>0, <1>1, <2>1, GiveUpIs DEF NextStep
  <2>2. CASE ~(reg[c] \in CancelState \/ latch[RobotOf[c]])
    <3>1. StepsOf[c][exe[c].i] \in {"nav", "dock", "wait"}
      BY <1>i, NavTyped
    <3>2. Move(c, "begin") \/ Move(c, "passed") \/ Move(c, "go")
      BY <1>1, <2>2, <3>1 DEF NextStep
    <3> QED
      BY <1>0, <1>1, <2>2, <3>2, GoOnIs DEF NextStep
  <2> QED
    BY <2>1, <2>2
<1>2. CASE SendGoal(c)
  BY <1>0, <1>2, GoOnIs DEF SendGoal
<1>7. CASE Reach(c)
  BY <1>0, <1>7, GoOnIs DEF Reach
<1>8. CASE FailStep(c)
  BY <1>0, <1>8, GoOnIs DEF FailStep
<1>9. CASE BreakStep(c)
  BY <1>0, <1>9, GoOnIs DEF BreakStep
<1>3. CASE ResumeDock(c)
  BY <1>3, QuietKeeps DEF ResumeDock, recordVars, NavInv, NavBase, NavTypes
<1>4. CASE EndFailed(c)
  BY <1>0, <1>4, GiveUpIs DEF EndFailed
<1>5. CASE EndPassed(c)
  <2>1. CASE reg[c] = "RUNNING"
    <3> DEFINE a == IF EndState(c) = "ARRIVED" THEN "gate" ELSE "release"
    <3>1. exe' = [exe EXCEPT ![c] = [at |-> a, i |-> exe[c].i]]
      BY <1>5, <2>1, MoveIs DEF EndPassed, NavInv, NavBase
    <3>2. EndState(c) \in {"DONE", "ARRIVED"} /\ a \in ExeAt \ {"none", "queued", "over"}
      BY DEF EndState, ExeAt
    <3> HIDE DEF a
    <3>4. \E e \in {"DONE", "ARRIVED", "FAILED", "ABORTED"} :
             reg[c] = "RUNNING" /\ reg' = [reg EXCEPT ![c] = e] /\ Report(c, e)
      BY <1>5, <2>1, <3>2 DEF EndPassed
    <3>5. UNCHANGED <<segs, running, arrived, lock, timer, hand>>
      BY <1>5 DEF EndPassed
    <3> QED
      BY <1>i, <1>0, <3>1, <3>2, <3>4, <3>5, ExecutorMoves
  <2>2. CASE reg[c] # "RUNNING"
    <3>1. exe' = [exe EXCEPT ![c] = [at |-> "release", i |-> exe[c].i]]
      BY <1>5, <2>2, MoveIs DEF EndPassed, NavInv, NavBase
    <3>2. Executing(c) /\ reg[c] \notin InForce
      BY <1>0, <1>5, <2>2 DEF EndPassed, Executing, InForce, NavInv, NavBase, NavTypes, ExeKnows, RegState
    <3> QED
      BY <1>i, <1>5, <2>2, <3>1, <3>2, ExecutorMoves DEF EndPassed, ExeAt
  <2> QED
    BY <2>1, <2>2
<1>6. CASE GoOn(c)
  <2>1. CASE reg[c] \in CancelState
    <3>1. exe' = [exe EXCEPT ![c] = [at |-> "release", i |-> exe[c].i]]
      BY <1>6, <2>1, MoveIs DEF GoOn, NavInv, NavBase
    <3>2. Executing(c) /\ reg[c] \notin InForce
      BY <1>0, <1>6, <2>1 DEF GoOn, InForce, CancelState
    <3> QED
      BY <1>i, <1>6, <3>1, <3>2, ExecutorMoves DEF GoOn, ExeAt
  <2>2. CASE reg[c] \notin CancelState
    <3>1. exe' = [exe EXCEPT ![c] = [at |-> "loop", i |-> exe[c].i + 1]]
      BY <1>6, <2>2 DEF GoOn
    <3>2. exe[c].i + 1 \in 1 .. Len(StepsOf[c])
      BY <1>i, <1>6, NavTyped DEF GoOn
    <3> QED
      BY <1>0, <1>6, <3>1, <3>2, ExecutorMoves DEF GoOn, ExeAt
  <2> QED
    BY <2>1, <2>2
<1> QED
  BY <1>1, <1>2, <1>3, <1>4, <1>5, <1>6, <1>7, <1>8, <1>9

\* Locks of commands that are out of force may go at any time, others only
\* when they expire.
OutOfForce(c) == reg[c] \notin InForce \cup {"NONE"}
LocksLoosen ==
    /\ lock' \in [Segment -> NavCmd \cup {NoCmd}]
    /\ Prompt => \A s \in Segment : \/ lock'[s] = lock[s]
                                    \/ lock[s] = NoCmd \/ OutOfForce(lock[s])

\* The threads work on what they have worked on, or no more, or have seen a
\* command.
HandsLoosen ==
    /\ hand' \in [Client -> HandRec]
    /\ \A h \in Client : \/ hand'[h] = hand[h]
                         \/ hand'[h].at \notin Locking \cup Ending \cup Knowing
                         \/ /\ hand'[h].at \in Ending /\ hand[h].at \in Ending
                            /\ hand'[h].cmd = hand[h].cmd /\ hand'[h].robot = hand[h].robot
                         \/ /\ hand'[h].at \in Knowing
                            /\ hand'[h].cmd \in NavCmd /\ reg[hand'[h].cmd] # "NONE"
                            /\ hand'[h].at = "mark" => hand'[h].robot = RobotOf[hand'[h].cmd]
TimersLoosen ==
    /\ timer' \in [NavCmd -> {"off", "armed", "late", "pop"}]
    /\ \A c \in NavCmd : timer'[c] # "off" => OutOfForce(c)

LEMMA UnlockedLoosens ==
    ASSUME NavInv, NEW c \in NavCmd, OutOfForce(c), lock' = Unlocked(c)
    PROVE  LocksLoosen
BY DEF LocksLoosen, Unlocked, NavInv, NavBase, NavTypes

LEMMA LocksKept ==
    ASSUME NavInv, LocksLoosen, HandsLoosen, UNCHANGED <<reg, segs>>, Prompt
    PROVE  LocksTaken' /\ LocksHeld'
<1> USE DEF NavInv, NavBase
<1>1. \A c \in NavCmd, k \in Nat : k \in DOMAIN segs[c] => segs[c][k] \in Segment
  BY DEF NavTypes
<1>2. \A c \in NavCmd, s \in Segment : ~OutOfForce(c) /\ lock[s] = c => lock'[s] = c
  BY NavTyped DEF LocksLoosen
<1>3. LocksHeld'
  BY <1>1, <1>2 DEF LocksHeld, OutOfForce, NavTypes
<1>4. LocksTaken'
  <2> SUFFICES ASSUME NEW h \in Client, hand'[h].at \in Locking, NEW k \in 1 .. hand'[h].n
               PROVE  lock'[segs'[hand'[h].cmd][k]] = hand'[h].cmd
    BY DEF LocksTaken
  <2>1. hand'[h] = hand[h]
    BY DEF HandsLoosen, Locking, Ending, Knowing
  <2>2. /\ hand[h].cmd \in NavCmd /\ ~OutOfForce(hand[h].cmd)
        /\ hand[h].n \in Nat /\ hand[h].n <= Len(segs[hand[h].cmd])
        /\ lock[segs[hand[h].cmd][k]] = hand[h].cmd
    BY <2>1 DEF HandsKnow, LocksHand, OutOfForce, LocksTaken, NavTypes, HandRec
  <2>3. k \in DOMAIN segs[hand[h].cmd]
    BY <2>1, <2>2 DEF NavTypes
  <2> QED
    BY <1>1, <1>2, <2>1, <2>2, <2>3
<1> QED
  BY <1>3, <1>4

LEMMA HandsKept ==
    ASSUME NavInv, HandsLoosen, UNCHANGED <<reg, segs>>
    PROVE  HandsKnow' /\ OneRegistration'
<1> USE DEF NavInv, NavBase
<1>1. HandsKnow'
  BY DEF HandsLoosen, HandsKnow, LocksHand, EndsHand, KnownHand, Locking, Ending, Knowing
<1>2. OneRegistration'
  BY DEF HandsLoosen, OneRegistration, Locking, Ending, Knowing
<1> QED
  BY <1>1, <1>2

\* Threads, timers and locks go on beside the registry.
LEMMA BesideRegistry ==
    ASSUME NavInv, LocksLoosen, HandsLoosen, TimersLoosen,
           arrived' \in [Robot -> NavCmd \cup {NoCmd}],
           UNCHANGED <<reg, segs, exe, running, told>>
    PROVE  NavInv'
<1> USE DEF NavInv, NavBase
<1>1. NavTypes'
  BY DEF NavTypes, LocksLoosen, HandsLoosen, TimersLoosen
<1>2. SegsApart' /\ ExeKnows' /\ TimerKnows'
  BY DEF SegsApart, ExeKnows, TimerKnows, TimersLoosen, OutOfForce
<1>3. ExecutorHeld' /\ ToldInv'
  BY DEF ExecutorHeld, Executing, ToldInv
<1> QED
  BY <1>1, <1>2, <1>3, HandsKept, LocksKept

LEMMA Same ==
    ASSUME NavInv
    PROVE  /\ lock' = lock => LocksLoosen
           /\ hand' = hand => HandsLoosen
           /\ timer' = timer => TimersLoosen
BY DEF LocksLoosen, HandsLoosen, TimersLoosen, OutOfForce, NavInv, NavBase, NavTypes, TimerKnows

LEMMA Freed ==
    ASSUME NavInv, NEW h \in Client, Free(h)
    PROVE  HandsLoosen
BY NoHandTyped DEF HandsLoosen, Free, NavInv, NavBase, NavTypes, Locking, Ending, Knowing

LEMMA Handed ==
    ASSUME NavInv, NEW h \in Client, hand[h].at \in Ending, NEW a \in Ending, NEW n \in Nat,
           \/ hand' = [hand EXCEPT ![h].at = a]
           \/ hand' = [hand EXCEPT ![h].at = a, ![h].n = n]
    PROVE  HandsLoosen
<1>1. hand[h] \in HandRec
  BY DEF NavInv, NavBase, NavTypes
<1>2. /\ [hand[h] EXCEPT !.at = a] \in HandRec
      /\ [hand[h] EXCEPT !.at = a, !.n = n] \in HandRec
  BY <1>1 DEF HandRec, HandAt, Ending
<1>3. hand' = [hand EXCEPT ![h] = [hand[h] EXCEPT !.at = a]]
      \/ hand' = [hand EXCEPT ![h] = [hand[h] EXCEPT !.at = a, !.n = n]]
  OBVIOUS
<1>4. /\ hand'[h].at = a /\ hand'[h].cmd = hand[h].cmd /\ hand'[h].robot = hand[h].robot
      /\ \A g \in Client : g # h => hand'[g] = hand[g]
  BY <1>1, <1>3 DEF HandRec, NavInv, NavBase, NavTypes
<1> QED
  BY <1>2, <1>3, <1>4 DEF HandsLoosen, NavInv, NavBase, NavTypes

LEMMA BesideSteps ==
    ASSUME NavInv,
           \/ \E c \in NavCmd : LateGate(c) \/ PopGate(c)
           \/ \E h \in Client : StopMotion(h) \/ ReleaseCanceled(h) \/ RefuseDock(h) \/ AbortActive(h)
           \/ \E h \in Client, r \in Robot : EngageEstop(h, r) \/ TakeGate(h, r)
           \/ \E s \in Segment : Expire(s)
    PROVE  NavInv'
<1> USE DEF NavInv, NavBase
<1>1. ASSUME NEW c \in NavCmd, LateGate(c) PROVE NavInv'
  <2>1. TimersLoosen
    BY <1>1 DEF LateGate, TimersLoosen, OutOfForce, TimerKnows, NavTypes
  <2> QED
    BY <1>1, <2>1, Same, BesideRegistry DEF LateGate, NavTypes
<1>2. ASSUME NEW c \in NavCmd, PopGate(c) PROVE NavInv'
  <2>1. OutOfForce(c)
    BY <1>2 DEF PopGate, OutOfForce, TimerKnows
  <2>2. LocksLoosen
    BY <1>2, <2>1, UnlockedLoosens DEF PopGate
  <2>3. TimersLoosen /\ arrived' \in [Robot -> NavCmd \cup {NoCmd}]
    BY <1>2 DEF PopGate, TimersLoosen, OutOfForce, TimerKnows, NavTypes
  <2> QED
    BY <1>2, <2>2, <2>3, Same, BesideRegistry DEF PopGate
<1>3. ASSUME NEW h \in Client, StopMotion(h) PROVE NavInv'
  <2>1. HandsLoosen
    BY <1>3, Handed DEF StopMotion, Hand, Ending
  <2> QED
    BY <1>3, <2>1, Same, BesideRegistry DEF StopMotion, NavTypes
<1>4. ASSUME NEW h \in Client, ReleaseCanceled(h) PROVE NavInv'
  <2>1. hand[h].cmd \in NavCmd /\ OutOfForce(hand[h].cmd)
    BY <1>4 DEF ReleaseCanceled, HandsKnow, EndsHand, Ending, OutOfForce
  <2>2. LocksLoosen
    BY <1>4, <2>1, UnlockedLoosens DEF ReleaseCanceled
  <2> QED
    BY <1>4, <2>2, Same, Freed, BesideRegistry DEF ReleaseCanceled, NavTypes
<1>5. ASSUME NEW h \in Client, NEW r \in Robot, EngageEstop(h, r) PROVE NavInv'
  <2>1. [NoHand EXCEPT !.at = "abort", !.robot = r] \in HandRec
    BY NoHandTyped DEF HandRec, HandAt
  <2>2. [NoHand EXCEPT !.at = "abort", !.robot = r].at = "abort"
    BY DEF NoHand
  <2>3. HandsLoosen
    BY <1>5, <2>1, <2>2 DEF EngageEstop, HandsLoosen, Locking, Ending, Knowing, NavTypes
  <2> QED
    BY <1>5, <2>3, Same, BesideRegistry DEF EngageEstop, NavTypes
<1>6. ASSUME NEW s \in Segment, Expire(s) PROVE NavInv'
  <2>1. LocksLoosen
    BY <1>6 DEF Expire, Prompt, LocksLoosen, OutOfForce, NavTypes
  <2> QED
    BY <1>6, <2>1, Same, BesideRegistry DEF Expire, NavTypes
<1>7. ASSUME NEW h \in Client, RefuseDock(h) PROVE NavInv'
  BY <1>7, Freed, Same, BesideRegistry DEF RefuseDock, NavTypes
<1>8. ASSUME NEW h \in Client, NEW r \in Robot, TakeGate(h, r) PROVE NavInv'
  <2> DEFINE q == [at |-> "convert", cmd |-> GateOf(r), robot |-> r, n |-> 0]
  <2>1. GateOf(r) \in NavCmd /\ reg[GateOf(r)] # "NONE"
    BY <1>8 DEF TakeGate, GateOf, NavTypes
  <2>2. q \in HandRec /\ q.at = "convert" /\ q.cmd = GateOf(r)
    BY <2>1 DEF HandRec, HandAt
  <2>3. hand' = [hand EXCEPT ![h] = q] /\ PopGateOf(r)
    BY <1>8 DEF TakeGate
  <2> HIDE DEF q
  <2>4. HandsLoosen
    BY <2>1, <2>2, <2>3 DEF HandsLoosen, Locking, Ending, Knowing, NavTypes
  <2>5. arrived' \in [Robot -> NavCmd \cup {NoCmd}]
    BY <2>3 DEF PopGateOf, NavTypes
  <2> QED
    BY <1>8, <2>4, <2>5, Same, BesideRegistry DEF TakeGate
<1>9. ASSUME NEW h \in Client, AbortActive(h) PROVE NavInv'
  <2>1. CASE InForceOf(hand[h].robot) = {}
    BY <1>9, <2>1, Freed, Same, BesideRegistry DEF AbortActive, NavTypes
  <2>2. CASE InForceOf(hand[h].robot) # {}
    <3>1. PICK c \in InForceOf(hand[h].robot) : hand' = [hand EXCEPT ![h].at = "mark", ![h].cmd = c]
      BY <1>9, <2>2 DEF AbortActive
    <3>2. c \in NavCmd /\ RobotOf[c] = hand[h].robot /\ reg[c] # "NONE"
      BY DEF InForceOf, CmdsOf, InForce
    <3>3. hand[h] \in HandRec /\ hand' = [hand EXCEPT ![h] = [hand[h] EXCEPT !.at = "mark", !.cmd = c]]
      BY <3>1 DEF NavTypes
    <3>4. /\ [hand[h] EXCEPT !.at = "mark", !.cmd = c] \in HandRec
          /\ [hand[h] EXCEPT !.at = "mark", !.cmd = c].at = "mark"
          /\ [hand[h] EXCEPT !.at = "mark", !.cmd = c].cmd = c
          /\ [hand[h] EXCEPT !.at = "mark", !.cmd = c].robot = RobotOf[c]
      BY <3>2, <3>3 DEF HandRec, HandAt
    <3>5. HandsLoosen
      BY <3>2, <3>3, <3>4 DEF HandsLoosen, Locking, Ending, Knowing, NavTypes
    <3> QED
      BY <1>9, <3>5, Same, BesideRegistry DEF AbortActive, NavTypes
  <2> QED
    BY <2>1, <2>2
<1> QED
  BY <1>1, <1>2, <1>3, <1>4, <1>5, <1>6, <1>7, <1>8, <1>9

-----------------------------------------------------------------------------
(* A command leaves force, or is reserved as canceled, from outside.       *)

Undone == {"ABORTED", "CANCEL_REQUESTED", "CANCELED", "STOP_UNCONFIRMED"}

LEMMA RegistryFalls ==
    ASSUME NavInv, NEW c \in NavCmd, NEW e \in Undone,
           reg[c] \notin {"DONE", "FAILED"}, ~Registering(RobotOf[c]),
           reg' = [reg EXCEPT ![c] = e],
           told' = told \/ Report(c, e),
           arrived' \in [Robot -> NavCmd \cup {NoCmd}],
           UNCHANGED <<segs, exe, running, lock>>,
           timer' \in [NavCmd -> {"off", "armed", "late", "pop"}],
           \A d \in NavCmd : timer[d] = "off" => timer'[d] = "off",
           hand' \in [Client -> HandRec],
           \A h \in Client : \/ hand'[h] = hand[h]
                             \/ hand'[h].at \notin Locking \cup Ending \cup Knowing
                             \/ hand'[h].at \in Ending /\ hand'[h].cmd = c /\ hand'[h].robot = RobotOf[c]
    PROVE  NavInv'
<1> USE DEF NavInv, NavBase
<1>1. /\ NavTypes'
      /\ reg'[c] = e /\ e \notin InForce \cup {"NONE", "DONE", "FAILED", "ARRIVED"}
      /\ \A d \in NavCmd : d # c => reg'[d] = reg[d]
  BY DEF NavTypes, Undone, RegState, InForce
<1>2. SegsApart' /\ ExecutorHeld'
  BY DEF SegsApart, ExecutorHeld, Executing
<1>8. ExeKnows' /\ TimerKnows'
  BY <1>1 DEF ExeKnows, TimerKnows, InForce
<1>3. \A h \in Client : hand[h].at \in Locking => hand[h].cmd # c
  BY DEF HandsKnow, LocksHand, Registering, Locking
<1>4. HandsKnow'
  <2> SUFFICES ASSUME NEW h \in Client
               PROVE  /\ hand'[h].at \in Locking => LocksHand(h)'
                      /\ hand'[h].at \in Ending => EndsHand(h)'
                      /\ hand'[h].at \in Knowing => KnownHand(h)'
    BY DEF HandsKnow
  <2>1. CASE hand'[h] = hand[h] /\ hand[h].at \in Locking
    BY <1>1, <1>3, <2>1 DEF HandsKnow, LocksHand, Locking, Ending, Knowing
  <2>2. CASE hand'[h] = hand[h] /\ hand[h].at \in Ending
    BY <1>1, <2>2 DEF HandsKnow, EndsHand, Locking, Ending, Knowing
  <2>3. CASE hand'[h].at \in Ending /\ hand'[h].cmd = c /\ hand'[h].robot = RobotOf[c]
    BY <1>1, <2>3 DEF EndsHand, Locking, Ending, Knowing
  <2>4. CASE hand'[h] = hand[h] /\ hand[h].at \in Knowing
    BY <1>1, <2>4 DEF HandsKnow, KnownHand, Locking, Ending, Knowing
  <2> QED
    BY <2>1, <2>2, <2>3, <2>4
<1>5. OneRegistration'
  BY DEF OneRegistration, Locking, Ending, Knowing
<1>6. ToldInv'
  <2>1. \A d \in NavCmd, f \in RegState : d # c => (<<d, f>> \in told' <=> <<d, f>> \in told)
    BY DEF Report
  <2>2. \A f \in {"DONE", "FAILED"} : <<c, f>> \notin told'
    <3>1. \A f \in {"DONE", "FAILED"} : <<c, f>> \notin told /\ <<c, f>> # <<c, e>>
      BY <1>1 DEF ToldInv
    <3> QED
      BY <3>1 DEF Report
  <2> QED
    BY <1>1, <2>1, <2>2 DEF ToldInv, RegState
<1>7. Prompt => LocksTaken' /\ LocksHeld'
  BY <1>1 DEF LocksTaken, LocksHeld, Locking, Ending, Knowing
<1> QED
  BY <1>1, <1>2, <1>8, <1>4, <1>5, <1>6, <1>7

LEMMA FallSteps ==
    ASSUME NavInv,
           \/ \E c \in NavCmd : AbortLate(c) \/ CancelTombstone(c)
           \/ \E h \in Client : FinishCancel(h) \/ MarkAborted(h)
           \/ \E h \in Client, c \in NavCmd : BeginCancel(h, c)
    PROVE  NavInv'
<1> USE DEF NavInv, NavBase
<1>1. ASSUME NEW c \in NavCmd, AbortLate(c) PROVE NavInv'
  <2>1. CASE reg[c] \in Settled
    <3>1. TimersLoosen
      BY <1>1, <2>1 DEF AbortLate, TimersLoosen, OutOfForce, TimerKnows, NavTypes
    <3> QED
      BY <1>1, <2>1, <3>1, Same, BesideRegistry DEF AbortLate, NavTypes
  <2>2. CASE reg[c] \notin Settled
    <3>1. /\ timer' \in [NavCmd -> {"off", "armed", "late", "pop"}]
          /\ \A d \in NavCmd : timer[d] = "off" => timer'[d] = "off"
      BY <1>1, <2>2 DEF AbortLate, NavTypes
    <3> QED
      BY <1>1, <2>2, <3>1, RegistryFalls DEF AbortLate, Settled, Undone, NavTypes
  <2> QED
    BY <2>1, <2>2
<1>2. ASSUME NEW c \in NavCmd, CancelTombstone(c) PROVE NavInv'
  BY <1>2, RegistryFalls DEF CancelTombstone, Undone, NavTypes
<1>3. ASSUME NEW h \in Client, FinishCancel(h) PROVE NavInv'
  <2>1. hand[h].at \in Ending
    BY <1>3 DEF FinishCancel, Ending
  <2>2. /\ hand[h].cmd \in NavCmd /\ hand[h].robot = RobotOf[hand[h].cmd]
        /\ reg[hand[h].cmd] \notin {"DONE", "FAILED"}
    BY <2>1 DEF HandsKnow, EndsHand
  <2>3. /\ hand[h] \in HandRec
        /\ hand' = [hand EXCEPT ![h] = [hand[h] EXCEPT !.at = "unlock"]]
    BY <1>3 DEF FinishCancel, Hand, NavTypes
  <2>4. /\ [hand[h] EXCEPT !.at = "unlock"] \in HandRec
        /\ [hand[h] EXCEPT !.at = "unlock"].at = "unlock"
        /\ [hand[h] EXCEPT !.at = "unlock"].cmd = hand[h].cmd
        /\ [hand[h] EXCEPT !.at = "unlock"].robot = hand[h].robot
    BY <2>3 DEF HandRec, HandAt
  <2>5. /\ hand' \in [Client -> HandRec]
        /\ \A g \in Client : \/ hand'[g] = hand[g]
                             \/ /\ hand'[g].at \in Ending /\ hand'[g].cmd = hand[h].cmd
                                /\ hand'[g].robot = hand[h].robot
    BY <2>3, <2>4 DEF NavTypes, Ending
  <2>6. ~Registering(RobotOf[hand[h].cmd])
    BY <1>3, <2>2 DEF FinishCancel
  <2> QED
    BY <1>3, <2>2, <2>5, <2>6, RegistryFalls DEF FinishCancel, Undone, NavTypes
<1>4. ASSUME NEW h \in Client, MarkAborted(h) PROVE NavInv'
  <2> DEFINE c == hand[h].cmd
  <2>1. c \in NavCmd /\ RobotOf[c] = hand[h].robot /\ reg[c] # "NONE" /\ ~Registering(RobotOf[c])
    BY <1>4 DEF MarkAborted, Knowing, HandsKnow, KnownHand
  <2>2. CASE reg[c] \in Settled
    BY <1>4, <2>2, Freed, Same, BesideRegistry DEF MarkAborted, NavTypes
  <2>3. CASE reg[c] \notin Settled
    <3>1. /\ reg' = [reg EXCEPT ![c] = "ABORTED"] /\ Report(c, "ABORTED")
          /\ hand' = [hand EXCEPT ![h] = [hand[h] EXCEPT !.at = "unlock"]]
          /\ UNCHANGED <<segs, exe, running, lock, arrived, timer>>
      BY <1>4, <2>3 DEF MarkAborted, Hand
    <3>2. /\ [hand[h] EXCEPT !.at = "unlock"] \in HandRec
          /\ [hand[h] EXCEPT !.at = "unlock"].at = "unlock"
          /\ [hand[h] EXCEPT !.at = "unlock"].cmd = c
          /\ [hand[h] EXCEPT !.at = "unlock"].robot = RobotOf[c]
      <4>1. hand[h] \in HandRec
        BY DEF NavTypes
      <4> QED
        BY <2>1, <4>1 DEF HandRec, HandAt
    <3> HIDE DEF c
    <3>3. /\ hand' \in [Client -> HandRec]
          /\ \A g \in Client : \/ hand'[g] = hand[g]
                               \/ /\ hand'[g].at \in Ending /\ hand'[g].cmd = c
                                  /\ hand'[g].robot = RobotOf[c]
      BY <3>1, <3>2 DEF NavTypes, Ending
    <3> QED
      BY <2>1, <2>3, <3>1, <3>3, RegistryFalls DEF Undone, Settled, NavTypes
  <2> QED
    BY <2>2, <2>3
<1>5. ASSUME NEW h \in Client, NEW c \in NavCmd, BeginCancel(h, c) PROVE NavInv'
  <2>1. [at |-> "stop", cmd |-> c, robot |-> RobotOf[c], n |-> 0] \in HandRec
    BY NavTyped DEF HandRec, HandAt
  <2>2. /\ hand' \in [Client -> HandRec]
        /\ \A g \in Client : \/ hand'[g] = hand[g]
                             \/ /\ hand'[g].at \in Ending /\ hand'[g].cmd = c
                                /\ hand'[g].robot = RobotOf[c]
    BY <1>5, <2>1 DEF BeginCancel, NavTypes, Ending
  <2>3. arrived' \in [Robot -> NavCmd \cup {NoCmd}]
    BY <1>5 DEF BeginCancel, NavTypes
  <2> QED
    BY <1>5, <2>2, <2>3, RegistryFalls DEF BeginCancel, Undone, Settled, NavTypes
<1> QED
  BY <1>1, <1>2, <1>3, <1>4, <1>5

-----------------------------------------------------------------------------
(* An executor takes the execution lock, records its gate, and gives up.   *)

LEMMA RunSteps ==
    ASSUME NavInv, NEW c \in NavCmd, Run(c)
    PROVE  NavInv'
<1> USE DEF NavInv, NavBase
<1>1. /\ exe[c].at = "queued" /\ exe[c].i \in 1 .. Len(StepsOf[c]) /\ reg[c] # "NONE"
      /\ RobotOf[c] \in Robot /\ exe[c].i \in Nat
      /\ UNCHANGED <<segs, arrived, lock, timer, hand, told>>
  BY NavTyped DEF Run, At, ExeKnows, NavTypes, Exe
<1>2. PICK a \in {"loop", "over"} :
         /\ exe' = [exe EXCEPT ![c] = [at |-> a, i |-> exe[c].i]]
         /\ a = "loop" => /\ reg[c] = "ACCEPTED" /\ reg' = [reg EXCEPT ![c] = "RUNNING"]
                          /\ running' = [running EXCEPT ![RobotOf[c]] = c]
         /\ a = "over" => reg[c] # "ACCEPTED" /\ UNCHANGED <<reg, running>>
  BY MoveIs DEF Run
<1>3. /\ \A d \in NavCmd : d # c => exe'[d] = exe[d] /\ reg'[d] = reg[d]
      /\ exe'[c].at = a /\ exe'[c].i = exe[c].i
      /\ a = "loop" => reg'[c] = "RUNNING"
      /\ a = "over" => reg'[c] = reg[c]
  BY <1>2 DEF NavTypes
<1>4. \A d \in NavCmd : /\ reg'[d] \in InForce <=> reg[d] \in InForce
                        /\ reg'[d] \in {"NONE", "DONE", "FAILED", "ARRIVED"}
                           <=> reg[d] \in {"NONE", "DONE", "FAILED", "ARRIVED"}
                        /\ reg'[d] = "NONE" <=> reg[d] = "NONE"
                        /\ reg'[d] \in {"DONE", "FAILED"} \/ reg[d] \in {"DONE", "FAILED"} => reg'[d] = reg[d]
  BY <1>2, <1>3 DEF InForce
<1>5. NavTypes'
  <2>1. exe' \in [NavCmd -> Exe]
    BY <1>1, <1>2 DEF NavTypes, Exe, ExeAt
  <2>2. reg' \in [NavCmd -> RegState] /\ running' \in [Robot -> NavCmd \cup {NoCmd}]
    BY <1>2 DEF NavTypes, RegState
  <2> QED
    BY <1>1, <2>1, <2>2 DEF NavTypes
<1>6. ExeKnows'
  <2>1. a = "over" => reg[c] \notin InForce
    BY <1>1, <1>2 DEF ExeKnows, NavTypes, RegState, InForce
  <2> QED
    BY <1>1, <1>2, <1>3, <2>1 DEF ExeKnows, InForce
<1>7. SegsApart' /\ TimerKnows' /\ OneRegistration'
  BY <1>1, <1>4 DEF SegsApart, TimerKnows, OneRegistration
<1>8. HandsKnow'
  BY <1>1, <1>4 DEF HandsKnow, LocksHand, EndsHand, KnownHand
<1>9. ExecutorHeld'
  <2> SUFFICES ASSUME NEW d \in NavCmd, Executing(d)'
               PROVE  running'[RobotOf[d]] = d
    BY DEF ExecutorHeld
  <2>1. CASE d = c
    <3>1. a = "loop"
      BY <1>2, <1>3, <2>1 DEF Executing
    <3> QED
      BY <1>1, <1>2, <2>1, <3>1 DEF NavTypes
  <2>2. CASE d # c
    <3>1. running[RobotOf[d]] = d /\ RobotOf[d] \in Robot /\ d # NoCmd
      BY <1>3, <2>2, NavTyped DEF ExecutorHeld, Executing
    <3>2. running[RobotOf[c]] = NoCmd
      BY DEF Run
    <3> QED
      BY <1>1, <1>2, <3>1, <3>2 DEF NavTypes
  <2> QED
    BY <2>1, <2>2
<1>10. ToldInv'
  BY <1>1, <1>4 DEF ToldInv
<1>11. Prompt => LocksTaken' /\ LocksHeld'
  BY <1>1, <1>4 DEF LocksTaken, LocksHeld
<1> QED
  BY <1>5, <1>6, <1>7, <1>8, <1>9, <1>10, <1>11

\* An executor that has ended its command arms a timer or drops its locks.
LEMMA ExecutorEnds ==
    ASSUME NavInv, NEW c \in NavCmd, Executing(c), reg[c] \notin InForce,
           NEW a \in {"release", "over"}, Move(c, a),
           \/ a = "release" /\ UNCHANGED running
           \/ a = "over" /\ running' = [r \in Robot |-> IF running[r] = c THEN NoCmd ELSE running[r]],
           LocksLoosen, TimersLoosen, arrived' \in [Robot -> NavCmd \cup {NoCmd}],
           UNCHANGED <<reg, segs, hand, told>>
    PROVE  NavInv'
<1> USE DEF NavInv, NavBase
<1>1. exe' = [exe EXCEPT ![c] = [at |-> a, i |-> exe[c].i]]
  BY MoveIs
<1>2. /\ \A d \in NavCmd : d # c => exe'[d] = exe[d]
      /\ exe'[c].at = a /\ exe'[c].i = exe[c].i
      /\ exe[c].i \in Nat /\ reg[c] # "NONE"
  BY <1>1 DEF NavTypes, Exe, ExeKnows, Executing
<1>3. NavTypes'
  <2>1. exe' \in [NavCmd -> Exe]
    BY <1>1, <1>2 DEF NavTypes, Exe, ExeAt
  <2>2. running' \in [Robot -> NavCmd \cup {NoCmd}]
    BY DEF NavTypes
  <2> QED
    BY <2>1, <2>2 DEF NavTypes, LocksLoosen, TimersLoosen
<1>4. ExeKnows' /\ SegsApart' /\ TimerKnows'
  BY <1>2 DEF ExeKnows, SegsApart, TimerKnows, TimersLoosen, OutOfForce, InForce
<1>5. ExecutorHeld'
  <2> SUFFICES ASSUME NEW d \in NavCmd, Executing(d)'
               PROVE  running'[RobotOf[d]] = d
    BY DEF ExecutorHeld
  <2>1. running[RobotOf[d]] = d /\ RobotOf[d] \in Robot
    BY <1>2, NavTyped DEF ExecutorHeld, Executing
  <2>2. a = "over" => d # c
    BY <1>2 DEF Executing
  <2> QED
    BY <2>1, <2>2
<1>6. ToldInv'
  BY DEF ToldInv
<1>7. HandsLoosen
  BY Same
<1> QED
  BY <1>3, <1>4, <1>5, <1>6, <1>7, HandsKept, LocksKept

LEMMA EndSteps ==
    ASSUME NavInv, NEW c \in NavCmd, RecordGate(c) \/ ReleaseExecutor(c)
    PROVE  NavInv'
<1> USE DEF NavInv, NavBase
<1>1. Executing(c) /\ reg[c] \notin InForce /\ OutOfForce(c)
  BY DEF RecordGate, ReleaseExecutor, At, Executing, ExeKnows, OutOfForce
<1>2. CASE RecordGate(c)
  <2>1. TimersLoosen /\ arrived' \in [Robot -> NavCmd \cup {NoCmd}]
    BY <1>1, <1>2 DEF RecordGate, TimersLoosen, OutOfForce, TimerKnows, NavTypes
  <2> QED
    BY <1>1, <1>2, <2>1, Same, ExecutorEnds DEF RecordGate
<1>3. CASE ReleaseExecutor(c)
  <2>1. LocksLoosen
    BY <1>1, <1>3, Same, UnlockedLoosens DEF ReleaseExecutor
  <2>2. TimersLoosen /\ arrived' \in [Robot -> NavCmd \cup {NoCmd}]
    BY <1>3, Same DEF ReleaseExecutor, NavTypes
  <2> QED
    BY <1>1, <1>3, <2>1, <2>2, ExecutorEnds DEF ReleaseExecutor
<1> QED
  BY <1>2, <1>3

-----------------------------------------------------------------------------
(* Registration.                                                           *)

LEMMA BeginKeeps ==
    ASSUME NavInv, NEW h \in Client, NEW c \in NavCmd, BeginRegister(h, c)
    PROVE  NavInv'
<1> USE DEF NavInv, NavBase
<1> DEFINE q == [at |-> "lock", cmd |-> c, robot |-> RobotOf[c], n |-> 0]
<1>1. /\ reg[c] = "NONE" /\ InForceOf(RobotOf[c]) = {} /\ ~Registering(RobotOf[c])
      /\ segs' = [segs EXCEPT ![c] = WantedSegs(h, c)]
      /\ hand' = [hand EXCEPT ![h] = q]
      /\ UNCHANGED <<reg, exe, running, arrived, lock, timer, told>>
  BY DEF BeginRegister
<1>2. /\ WantedSegs(h, c) \in Seq(Segment)
      /\ \A j, k \in DOMAIN WantedSegs(h, c) : WantedSegs(h, c)[j] = WantedSegs(h, c)[k] => j = k
  <2>1. c \in Docks => hand[h].cmd \in NavCmd
    BY DEF BeginRegister, Requests, HandsKnow, KnownHand, Knowing
  <2> QED
    BY <2>1, NavTyped DEF WantedSegs, SegsApart, NavTypes
<1>3. q \in HandRec
  BY NavTyped DEF HandRec, HandAt
<1>4. hand'[h] = q /\ \A g \in Client : g # h => hand'[g] = hand[g]
  BY <1>1 DEF NavTypes
<1> HIDE DEF q
<1>5. q.at = "lock" /\ q.cmd = c /\ q.robot = RobotOf[c] /\ q.n = 0
  BY DEF q
<1>6. /\ segs'[c] = WantedSegs(h, c)
      /\ \A d \in NavCmd : d # c => segs'[d] = segs[d]
  BY <1>1 DEF NavTypes
<1>7. NavTypes'
  <2>2. hand' \in [Client -> HandRec]
    BY <1>1, <1>3 DEF NavTypes
  <2>3. segs' \in [NavCmd -> Seq(Segment)]
    BY <1>1, <1>2 DEF NavTypes
  <2> QED
    BY <1>1, <2>2, <2>3 DEF NavTypes
<1>8. SegsApart'
  BY <1>2, <1>6 DEF SegsApart
<1>9. ExeKnows' /\ TimerKnows' /\ ToldInv' /\ ExecutorHeld'
  BY <1>1 DEF ExeKnows, TimerKnows, ToldInv, ExecutorHeld, Executing
<1>10. \A g \in Client : hand[g].at \in Locking => hand[g].robot # RobotOf[c] /\ hand[g].cmd # c
  BY <1>1 DEF Registering, Locking, HandsKnow, LocksHand
<1>11. HandsKnow'
  <2> SUFFICES ASSUME NEW g \in Client
               PROVE  /\ hand'[g].at \in Locking => LocksHand(g)'
                      /\ hand'[g].at \in Ending => EndsHand(g)'
                      /\ hand'[g].at \in Knowing => KnownHand(g)'
    BY DEF HandsKnow
  <2>1. CASE g = h
    <3>1. Len(segs'[c]) \in Nat
      BY <1>2, <1>6
    <3> QED
      BY <1>1, <1>4, <1>5, <2>1, <3>1 DEF LocksHand, Locking, Ending, Knowing, InForceOf, CmdsOf
  <2>2. CASE g # h
    BY <1>1, <1>4, <1>6, <1>10, <2>2 DEF HandsKnow, LocksHand, EndsHand, KnownHand
  <2> QED
    BY <2>1, <2>2
<1>12. OneRegistration'
  BY <1>4, <1>5, <1>10 DEF OneRegistration
<1>13. Prompt => LocksTaken' /\ LocksHeld'
  <2>1. Prompt => LocksHeld'
    BY <1>1, <1>6 DEF LocksHeld, InForce
  <2>2. Prompt => LocksTaken'
    BY <1>1, <1>4, <1>5, <1>6, <1>10 DEF LocksTaken
  <2> QED
    BY <2>1, <2>2
<1> QED
  BY <1>7, <1>8, <1>9, <1>11, <1>12, <1>13

\* A registration goes on to lock, or to unlock what it took.
LEMMA RegistrationMoves ==
    ASSUME NavInv, NEW h \in Client, hand[h].at \in Locking,
           NEW a \in Locking, NEW n \in Nat, n <= Len(segs[hand[h].cmd]),
           hand' = [hand EXCEPT ![h] = [hand[h] EXCEPT !.at = a, !.n = n]],
           lock' \in [Segment -> NavCmd \cup {NoCmd}],
           UNCHANGED <<reg, segs, exe, running, arrived, timer, told>>
    PROVE  /\ NavTypes' /\ SegsApart' /\ ExeKnows' /\ TimerKnows' /\ HandsKnow' /\ OneRegistration'
           /\ ExecutorHeld' /\ ToldInv'
           /\ hand'[h].cmd = hand[h].cmd /\ hand'[h].n = n
<1> USE DEF NavInv, NavBase
<1>1. /\ [hand[h] EXCEPT !.at = a, !.n = n] \in HandRec
      /\ hand'[h].at = a /\ hand'[h].cmd = hand[h].cmd /\ hand'[h].robot = hand[h].robot
      /\ hand'[h].n = n
      /\ \A g \in Client : g # h => hand'[g] = hand[g]
  <2>1. hand[h] \in HandRec
    BY DEF NavTypes
  <2>2. /\ [hand[h] EXCEPT !.at = a, !.n = n] \in HandRec
        /\ [hand[h] EXCEPT !.at = a, !.n = n].at = a
        /\ [hand[h] EXCEPT !.at = a, !.n = n].n = n
        /\ [hand[h] EXCEPT !.at = a, !.n = n].cmd = hand[h].cmd
        /\ [hand[h] EXCEPT !.at = a, !.n = n].robot = hand[h].robot
    BY <2>1 DEF HandRec, HandAt, Locking
  <2> QED
    BY <2>2 DEF NavTypes
<1>2. NavTypes'
  BY <1>1 DEF NavTypes
<1>3. SegsApart' /\ ExeKnows' /\ TimerKnows' /\ ExecutorHeld' /\ ToldInv'
  BY DEF SegsApart, ExeKnows, TimerKnows, ExecutorHeld, Executing, ToldInv
<1>4. HandsKnow' /\ OneRegistration'
  BY <1>1 DEF HandsKnow, LocksHand, EndsHand, KnownHand, OneRegistration, Locking, Ending, Knowing
<1> QED
  BY <1>1, <1>2, <1>3, <1>4

LEMMA RegistrationKnown ==
    ASSUME NavInv, NEW h \in Client, hand[h].at \in Locking
    PROVE  /\ hand[h].cmd \in NavCmd /\ hand[h].robot = RobotOf[hand[h].cmd]
           /\ reg[hand[h].cmd] = "NONE"
           /\ hand[h].n \in Nat /\ Len(segs[hand[h].cmd]) \in Nat
           /\ hand[h].n <= Len(segs[hand[h].cmd])
           /\ \A k \in 1 .. Len(segs[hand[h].cmd]) : segs[hand[h].cmd][k] \in Segment
           /\ \A d \in NavCmd : reg[d] \in InForce => RobotOf[d] # RobotOf[hand[h].cmd]
           /\ \A g \in Client : hand[g].at \in Locking /\ g # h =>
                 hand[g].cmd \in NavCmd /\ RobotOf[hand[g].cmd] # RobotOf[hand[h].cmd]
BY DEF NavInv, NavBase, NavTypes, HandRec, HandsKnow, LocksHand, OneRegistration

LEMMA LockKeeps ==
    ASSUME NavInv, NEW h \in Client, LockSegment(h)
    PROVE  NavInv'
<1> USE DEF NavInv, NavBase
<1> DEFINE c == hand[h].cmd
           n == hand[h].n + 1
<1>1. hand[h].at = "lock" /\ hand[h].at \in Locking
  BY DEF LockSegment, Locking
<1>2. hand[h] \in HandRec
  BY DEF NavTypes
<1>3. CASE LockIsFree(segs[c][n], c)
  <2>1. n \in Nat /\ n \in 1 .. Len(segs[c]) /\ segs[c][n] \in Segment /\ c \in NavCmd
    BY <1>1, RegistrationKnown DEF LockSegment
  <2>2. lock' = [lock EXCEPT ![segs[c][n]] = c]
    BY <1>3 DEF LockSegment
  <2>3. hand' = [hand EXCEPT ![h] = [hand[h] EXCEPT !.at = "lock", !.n = n]]
    <3>1. [hand[h] EXCEPT !.n = n] = [hand[h] EXCEPT !.at = "lock", !.n = n]
      BY <1>1, <1>2 DEF HandRec
    <3> QED
      BY <1>3, <3>1 DEF LockSegment
  <2>4. UNCHANGED <<reg, segs, exe, running, arrived, timer, told>>
    BY DEF LockSegment
  <2>5. lock' \in [Segment -> NavCmd \cup {NoCmd}]
    BY <2>1, <2>2 DEF NavTypes
  <2>6. /\ NavTypes' /\ SegsApart' /\ ExeKnows' /\ TimerKnows' /\ HandsKnow' /\ OneRegistration'
        /\ ExecutorHeld' /\ ToldInv'
        /\ hand'[h].cmd = c /\ hand'[h].n = n
    <3>1. n <= Len(segs[c])
      BY <1>1, <2>1, RegistrationKnown
    <3> HIDE DEF n
    <3> QED
      BY <1>1, <2>1, <2>3, <2>4, <2>5, <3>1, RegistrationMoves DEF Locking
  <2>7. \A g \in Client : g # h => hand'[g] = hand[g]
    BY <2>3 DEF NavTypes
  <2>8. \A d \in NavCmd, s \in Segment : RobotOf[d] # RobotOf[c] /\ lock[s] = d => lock'[s] = d
    BY <1>3, <2>2, NavTyped DEF LockIsFree, NavTypes
  <2>9. Prompt => LocksHeld'
    BY <1>1, <2>4, <2>8, RegistrationKnown DEF LocksHeld, NavTypes
  <2>10. ASSUME Prompt PROVE LocksTaken'
    <3> SUFFICES ASSUME NEW g \in Client, hand'[g].at \in Locking, NEW k \in 1 .. hand'[g].n
                 PROVE  lock'[segs[hand'[g].cmd][k]] = hand'[g].cmd
      BY <2>4 DEF LocksTaken
    <3>1. CASE g = h
      <4>1. segs[c][k] \in Segment /\ (k # n => k \in 1 .. hand[h].n)
        BY <1>1, <2>1, <2>6, <3>1, RegistrationKnown
      <4>2. k # n => lock[segs[c][k]] = c
        BY <1>1, <2>10, <4>1 DEF LocksTaken
      <4> QED
        BY <2>1, <2>2, <2>6, <3>1, <4>1, <4>2 DEF NavTypes
    <3>2. CASE g # h
      <4>1. /\ hand[g].at \in Locking /\ k \in 1 .. hand[g].n /\ hand'[g].cmd = hand[g].cmd
            /\ hand[g].cmd \in NavCmd /\ RobotOf[hand[g].cmd] # RobotOf[c]
        BY <1>1, <2>7, <3>2, RegistrationKnown
      <4>2. lock[segs[hand[g].cmd][k]] = hand[g].cmd /\ segs[hand[g].cmd][k] \in Segment
        BY <2>10, <4>1, RegistrationKnown DEF LocksTaken
      <4> QED
        BY <2>8, <4>1, <4>2
    <3> QED
      BY <3>1, <3>2
  <2> QED
    BY <2>6, <2>9, <2>10
<1>4. CASE ~LockIsFree(segs[c][n], c)
  <2>1. hand' = [hand EXCEPT ![h] = [hand[h] EXCEPT !.at = "undo", !.n = hand[h].n]]
    <3>1. [hand[h] EXCEPT !.at = "undo"] = [hand[h] EXCEPT !.at = "undo", !.n = hand[h].n]
      BY <1>2 DEF HandRec
    <3> QED
      BY <1>4, <3>1 DEF LockSegment, Hand
  <2>2. UNCHANGED <<reg, segs, exe, running, arrived, timer, told, lock>>
    BY <1>4 DEF LockSegment
  <2>3. /\ NavTypes' /\ SegsApart' /\ ExeKnows' /\ TimerKnows' /\ HandsKnow' /\ OneRegistration'
        /\ ExecutorHeld' /\ ToldInv'
        /\ hand'[h].cmd = c /\ hand'[h].n = hand[h].n
    BY <1>1, <2>1, <2>2, RegistrationMoves, RegistrationKnown DEF Locking, NavTypes
  <2>4. \A g \in Client : g # h => hand'[g] = hand[g]
    BY <2>1 DEF NavTypes
  <2>5. Prompt => LocksTaken' /\ LocksHeld'
    BY <1>1, <2>2, <2>3, <2>4 DEF LocksTaken, LocksHeld
  <2> QED
    BY <2>3, <2>5
<1> QED
  BY <1>3, <1>4

LEMMA UndoKeeps ==
    ASSUME NavInv, NEW h \in Client, UndoLocks(h)
    PROVE  NavInv'
<1> USE DEF NavInv, NavBase
<1> DEFINE c == hand[h].cmd
           n == hand[h].n
<1>1. hand[h].at = "undo" /\ hand[h].at \in Locking
  BY DEF UndoLocks, Locking
<1>2. hand[h] \in HandRec
  BY DEF NavTypes
<1>3. CASE n # 0
  <2>1. n \in 1 .. Len(segs[c]) /\ n \in Nat /\ n - 1 \in Nat /\ segs[c][n] \in Segment /\ c \in NavCmd
    BY <1>1, <1>3, RegistrationKnown
  <2>2. lock' = [lock EXCEPT ![segs[c][n]] = NoCmd]
    BY <1>3 DEF UndoLocks
  <2>3. hand' = [hand EXCEPT ![h] = [hand[h] EXCEPT !.at = "undo", !.n = n - 1]]
    <3>1. [hand[h] EXCEPT !.n = n - 1] = [hand[h] EXCEPT !.at = "undo", !.n = n - 1]
      BY <1>1, <1>2 DEF HandRec
    <3> QED
      BY <1>3, <3>1 DEF UndoLocks
  <2>4. UNCHANGED <<reg, segs, exe, running, arrived, timer, told>>
    BY <1>3 DEF UndoLocks
  <2>5. lock' \in [Segment -> NavCmd \cup {NoCmd}]
    BY <2>1, <2>2 DEF NavTypes
  <2>6. /\ NavTypes' /\ SegsApart' /\ ExeKnows' /\ TimerKnows' /\ HandsKnow' /\ OneRegistration'
        /\ ExecutorHeld' /\ ToldInv'
        /\ hand'[h].cmd = c /\ hand'[h].n = n - 1
    <3>1. n - 1 <= Len(segs[c])
      BY <1>1, <2>1, RegistrationKnown
    <3> HIDE DEF n
    <3> QED
      BY <1>1, <2>1, <2>3, <2>4, <2>5, <3>1, RegistrationMoves DEF Locking
  <2>7. \A g \in Client : g # h => hand'[g] = hand[g]
    BY <2>3 DEF NavTypes
  <2>8. Prompt => \A d \in NavCmd, s \in Segment : d # c /\ lock[s] = d => lock'[s] = d
    BY <1>1, <2>1, <2>2 DEF LocksTaken, NavTypes
  <2>9. Prompt => LocksHeld'
    <3> SUFFICES ASSUME Prompt, NEW d \in NavCmd, reg[d] \in InForce, NEW k \in DOMAIN segs[d]
                 PROVE  lock'[segs[d][k]] = d
      BY <2>4 DEF LocksHeld
    <3>1. d # c
      BY <1>1, RegistrationKnown DEF InForce
    <3>2. segs[d][k] \in Segment /\ lock[segs[d][k]] = d
      BY DEF LocksHeld, NavTypes
    <3> QED
      BY <2>8, <3>1, <3>2
  <2>10. ASSUME Prompt PROVE LocksTaken'
    <3> SUFFICES ASSUME NEW g \in Client, hand'[g].at \in Locking, NEW k \in 1 .. hand'[g].n
                 PROVE  lock'[segs[hand'[g].cmd][k]] = hand'[g].cmd
      BY <2>4 DEF LocksTaken
    <3>1. CASE g = h
      <4>1. k \in 1 .. n /\ k # n /\ k \in 1 .. Len(segs[c]) /\ segs[c][k] \in Segment
        BY <1>1, <2>1, <2>6, <3>1, RegistrationKnown
      <4>2. segs[c][k] # segs[c][n]
        BY <2>1, <4>1 DEF SegsApart, NavTypes
      <4>3. lock[segs[c][k]] = c
        BY <1>1, <2>10, <4>1 DEF LocksTaken
      <4> QED
        BY <2>2, <2>6, <3>1, <4>1, <4>2, <4>3 DEF NavTypes
    <3>2. CASE g # h
      <4>1. /\ hand[g].at \in Locking /\ k \in 1 .. hand[g].n /\ hand'[g].cmd = hand[g].cmd
            /\ hand[g].cmd \in NavCmd /\ hand[g].cmd # c
        BY <1>1, <2>7, <3>2, RegistrationKnown
      <4>2. lock[segs[hand[g].cmd][k]] = hand[g].cmd /\ segs[hand[g].cmd][k] \in Segment
        BY <2>10, <4>1, RegistrationKnown DEF LocksTaken
      <4> QED
        BY <2>8, <2>10, <4>1, <4>2
    <3> QED
      BY <3>1, <3>2
  <2> QED
    BY <2>6, <2>9, <2>10
<1>4. CASE n = 0
  <2>1. /\ segs' = [segs EXCEPT ![c] = <<>>] /\ Free(h)
        /\ UNCHANGED <<reg, exe, running, arrived, timer, told, lock>>
    BY <1>4 DEF UndoLocks
  <2>2. /\ c \in NavCmd /\ reg[c] = "NONE"
        /\ segs'[c] = <<>> /\ \A d \in NavCmd : d # c => segs'[d] = segs[d]
    BY <1>1, <2>1, RegistrationKnown DEF NavTypes
  <2>3. hand'[h].at = "idle" /\ \A g \in Client : g # h => hand'[g] = hand[g]
    BY <2>1, NoHandTyped DEF Free, NavTypes
  <2>4. NavTypes'
    <3>1. segs' \in [NavCmd -> Seq(Segment)]
      <4>1. <<>> \in Seq(Segment)
        OBVIOUS
      <4> QED
        BY <2>1, <4>1 DEF NavTypes
    <3>2. hand' \in [Client -> HandRec]
      BY <2>1, NoHandTyped DEF Free, NavTypes
    <3> QED
      BY <2>1, <3>1, <3>2 DEF NavTypes
  <2>5. SegsApart' /\ ExeKnows' /\ TimerKnows' /\ ExecutorHeld' /\ ToldInv'
    BY <2>1, <2>2 DEF SegsApart, ExeKnows, TimerKnows, ExecutorHeld, Executing, ToldInv
  <2>6. \A g \in Client : hand[g].at \in Locking /\ g # h => hand[g].cmd # c
    BY <1>1, RegistrationKnown
  <2>7. HandsKnow' /\ OneRegistration'
    BY <2>1, <2>2, <2>3, <2>6 DEF HandsKnow, LocksHand, EndsHand, KnownHand, OneRegistration, Locking, Ending, Knowing
  <2>8. Prompt => LocksTaken' /\ LocksHeld'
    <3>1. Prompt => LocksHeld'
      BY <2>1, <2>2 DEF LocksHeld, InForce
    <3>2. Prompt => LocksTaken'
      <4> SUFFICES ASSUME Prompt, NEW g \in Client, hand'[g].at \in Locking, NEW k \in 1 .. hand'[g].n
                   PROVE  lock'[segs'[hand'[g].cmd][k]] = hand'[g].cmd
        BY DEF LocksTaken
      <4>1. g # h /\ hand'[g] = hand[g]
        BY <2>3 DEF Locking
      <4>2. hand[g].cmd \in NavCmd /\ segs'[hand[g].cmd] = segs[hand[g].cmd]
        BY <2>2, <2>6, <4>1, RegistrationKnown
      <4> QED
        BY <2>1, <4>1, <4>2 DEF LocksTaken
    <3> QED
      BY <3>1, <3>2
  <2> QED
    BY <2>4, <2>5, <2>7, <2>8
<1> QED
  BY <1>3, <1>4

LEMMA FinishKeeps ==
    ASSUME NavInv, NEW h \in Client, FinishRegister(h)
    PROVE  NavInv'
<1> USE DEF NavInv, NavBase
<1> DEFINE c == hand[h].cmd
<1>1. hand[h].at \in Locking
  BY DEF FinishRegister, Locking
<1>2. /\ c \in NavCmd /\ reg[c] = "NONE" /\ Len(segs[c]) \in Nat /\ hand[h].n = Len(segs[c])
      /\ \A g \in Client : hand[g].at \in Locking /\ g # h => RobotOf[hand[g].cmd] # RobotOf[c]
  BY <1>1, RegistrationKnown DEF FinishRegister
<1>3. exe' = [exe EXCEPT ![c] = [at |-> "queued", i |-> exe[c].i]]
  BY <1>2, MoveIs DEF FinishRegister
<1> HIDE DEF c
<1>4. /\ reg' = [reg EXCEPT ![c] = "ACCEPTED"] /\ hand' = [hand EXCEPT ![h] = NoHand]
      /\ UNCHANGED <<segs, running, lock, told, arrived, timer>>
  BY DEF FinishRegister, Free, c
<1>5. /\ reg'[c] = "ACCEPTED" /\ exe'[c].at = "queued" /\ exe'[c].i = exe[c].i
      /\ \A d \in NavCmd : d # c => reg'[d] = reg[d] /\ exe'[d] = exe[d]
      /\ hand'[h].at = "idle" /\ \A g \in Client : g # h => hand'[g] = hand[g]
  BY <1>2, <1>3, <1>4, NoHandTyped DEF NavTypes
<1>6. NavTypes'
  <2>1. [at |-> "queued", i |-> exe[c].i] \in Exe
    BY <1>2 DEF NavTypes, Exe, ExeAt
  <2> QED
    BY <1>3, <1>4, <2>1, NoHandTyped DEF NavTypes, RegState
<1>7. SegsApart' /\ ExeKnows' /\ TimerKnows' /\ ExecutorHeld'
  <2>1. SegsApart' /\ ExecutorHeld'
    BY <1>4, <1>5 DEF SegsApart, ExecutorHeld, Executing
  <2>2. ExeKnows'
    BY <1>5 DEF ExeKnows
  <2>3. TimerKnows'
    BY <1>2, <1>4, <1>5 DEF TimerKnows
  <2> QED
    BY <2>1, <2>2, <2>3
<1>8. HandsKnow'
  <2> SUFFICES ASSUME NEW g \in Client, g # h
               PROVE  /\ hand'[g].at \in Locking => LocksHand(g)'
                      /\ hand'[g].at \in Ending => EndsHand(g)'
                      /\ hand'[g].at \in Knowing => KnownHand(g)'
    BY <1>5 DEF HandsKnow, Locking, Ending, Knowing
  <2>1. ASSUME hand[g].at \in Locking PROVE LocksHand(g)'
    <3>1. LocksHand(g) /\ hand[g].cmd # c /\ hand[g].robot # RobotOf[c]
      BY <1>2, <2>1 DEF HandsKnow, LocksHand
    <3> QED
      BY <1>4, <1>5, <3>1 DEF LocksHand
  <2>2. ASSUME hand[g].at \in Ending PROVE EndsHand(g)'
    <3>1. EndsHand(g) /\ hand[g].cmd # c
      BY <1>2, <2>2 DEF HandsKnow, EndsHand
    <3> QED
      BY <1>5, <3>1 DEF EndsHand
  <2>3. ASSUME hand[g].at \in Knowing PROVE KnownHand(g)'
    BY <1>2, <1>5, <2>3 DEF HandsKnow, KnownHand
  <2> QED
    BY <1>5, <2>1, <2>2, <2>3
<1>9. OneRegistration'
  BY <1>5 DEF OneRegistration, Locking
<1>10. ToldInv'
  BY <1>2, <1>4, <1>5 DEF ToldInv, RegState, InForce
<1>11. ASSUME Prompt PROVE LocksTaken' /\ LocksHeld'
  <2>1. \A k \in DOMAIN segs[c] : lock[segs[c][k]] = c
    <3>1. DOMAIN segs[c] = 1 .. hand[h].n
      BY <1>2 DEF NavTypes
    <3>2. \A k \in 1 .. hand[h].n : lock[segs[hand[h].cmd][k]] = hand[h].cmd
      BY <1>1, <1>11 DEF LocksTaken
    <3> QED
      BY <3>1, <3>2 DEF c
  <2>2. LocksTaken'
    BY <1>4, <1>5, <1>11 DEF LocksTaken, Locking
  <2>3. LocksHeld'
    BY <1>4, <1>5, <1>11, <2>1 DEF LocksHeld
  <2> QED
    BY <2>2, <2>3
<1> QED
  BY <1>6, <1>7, <1>8, <1>9, <1>10, <1>11

-----------------------------------------------------------------------------

LEMMA NavStep == NavInv /\ [NavServerNext]_navServerVars => NavInv'
<1> SUFFICES ASSUME NavInv, [NavServerNext]_navServerVars
             PROVE  NavInv'
  OBVIOUS
<1>1. CASE UNCHANGED navServerVars
  BY <1>1, QuietSteps
<1>2. CASE \E c \in NavCmd : Execute(c) \/ BreakStep(c)
  BY <1>2, RunSteps, ExecutorSteps, EndSteps DEF Execute
<1>3. CASE \E h \in Client : Serve(h) \/ (\E c \in NavCmd \ Docks : BeginRegister(h, c))
  <2>1. PICK h \in Client : Serve(h) \/ (\E c \in NavCmd : BeginRegister(h, c))
    BY <1>3
  <2>2. CASE LockSegment(h) \/ UndoLocks(h) \/ FinishRegister(h)
    BY <2>2, LockKeeps, UndoKeeps, FinishKeeps
  <2>3. CASE StopMotion(h) \/ ReleaseCanceled(h) \/ RefuseDock(h) \/ AbortActive(h)
    BY <2>3, BesideSteps
  <2>4. CASE FinishCancel(h) \/ MarkAborted(h)
    BY <2>4, FallSteps
  <2>5. CASE \E c \in NavCmd : BeginRegister(h, c)
    BY <2>5, BeginKeeps
  <2> QED
    BY <2>1, <2>2, <2>3, <2>4, <2>5, NavServerAssumption DEF Serve
<1>6. CASE \E r \in Robot : DropGate(r) \/ (\E h \in Client : TakeGate(h, r))
  BY <1>6, QuietSteps, BesideSteps
<1>4. CASE \E r \in Disturbed : Disturb(r)
  <2>1. PICK r \in Robot : Disturb(r)
    BY <1>4, NavServerAssumption
  <2>2. CASE \E c \in CmdsOf(r) : Time(c) \/ CancelTombstone(c) \/ (\E h \in Client : BeginCancel(h, c))
    <3>1. PICK c \in NavCmd : Time(c) \/ CancelTombstone(c) \/ (\E h \in Client : BeginCancel(h, c))
      BY <2>2 DEF CmdsOf
    <3>2. CASE LateGate(c) \/ PopGate(c)
      BY <3>2, BesideSteps
    <3>3. CASE AbortLate(c) \/ CancelTombstone(c) \/ (\E h \in Client : BeginCancel(h, c))
      BY <3>3, FallSteps
    <3> QED
      BY <3>1, <3>2, <3>3 DEF Time
  <2>3. CASE \E h \in Client : EngageEstop(h, r)
    BY <2>3, BesideSteps
  <2>4. CASE ClearLatch(r) \/ Jog(r) \/ EndJog(r) \/ StopByHand(r)
    BY <2>4, QuietSteps
  <2> QED
    BY <2>1, <2>2, <2>3, <2>4 DEF Disturb
<1>5. CASE \E s \in Segment : Expire(s)
  BY <1>5, BesideSteps
<1> QED
  BY <1>1, <1>2, <1>3, <1>4, <1>5, <1>6 DEF NavServerNext

LEMMA NavInvariant == NavServerSpec => []NavInv
BY NavInitInv, NavStep, PTL DEF NavServerSpec

\* For any number of robots, commands and request threads, the executors of
\* one robot never run two commands at once, in spite of cancels, E-stops and
\* timers that settle a command while its executor still drains.
\* movement_executor.execute_movement_command.
THEOREM ExecutorAlone == NavServerSpec => []OneExecutor
<1>1. NavInv => OneExecutor
  BY NavTyped DEF NavInv, ExecutorHeld, OneExecutor
<1> QED
  BY <1>1, NavInvariant, PTL

\* A command that was reported DONE or FAILED is never reported otherwise,
\* whatever cancel, E-stop and gate timer do.
\* movement_executor._transition_command_state, mark_command_aborted.
THEOREM ToldOnceForAll == NavServerSpec => []ToldOnce
<1>1. NavInv => ToldOnce
  BY DEF NavInv, ToldInv, ToldOnce
<1> QED
  BY <1>1, NavInvariant, PTL

\* Unless a command outlasts the TTL of its locks, two robots never have
\* commands in force on one traffic segment, for any routes and any order in
\* which the processes take, take over, give back and drop their locks.
\* traffic_manager.acquire_many, release_traffic_locks_for_command.
THEOREM SegmentsExclusive == Prompt => (NavServerSpec => []OneRobotPerSegment)
<1>1. NavInv /\ Prompt => OneRobotPerSegment
  <2> SUFFICES ASSUME NavInv, Prompt, NEW c \in NavCmd, NEW d \in NavCmd,
                      reg[c] \in InForce, reg[d] \in InForce, SegSet(c) \cap SegSet(d) # {}
               PROVE  RobotOf[c] = RobotOf[d]
    BY DEF OneRobotPerSegment
  <2>1. PICK j \in DOMAIN segs[c], k \in DOMAIN segs[d] : segs[c][j] = segs[d][k]
    BY DEF SegSet
  <2>2. lock[segs[c][j]] = c /\ lock[segs[d][k]] = d
    BY DEF NavInv, LocksHeld
  <2> QED
    BY <2>1, <2>2
<1> SUFFICES ASSUME Prompt PROVE NavServerSpec => []OneRobotPerSegment
  OBVIOUS
<1>2. NavInv => OneRobotPerSegment
  BY <1>1
<1> QED
  BY <1>2, NavInvariant, PTL

-----------------------------------------------------------------------------
(* The processes implement CommandRegistry.                                *)

\* A robot's execution lock is held for a command of the robot.
RunsOwn == \A r \in Robot : running[r] # NoCmd => RobotOf[running[r]] = r

LEMMA NavMoves ==
    ASSUME NavServerNext
    PROVE  \/ \E c \in NavCmd :
                 \/ Run(c) \/ NextStep(c) \/ EndFailed(c) \/ EndPassed(c) \/ ReleaseExecutor(c)
                 \/ AbortLate(c) \/ CancelTombstone(c)
                 \/ \E h \in Client : BeginRegister(h, c) \/ BeginCancel(h, c)
           \/ \E h \in Client : FinishRegister(h) \/ FinishCancel(h) \/ MarkAborted(h) \/ UndoLocks(h)
           \/ UNCHANGED <<reg, segs, running, told>>
<1>1. CASE \E c \in NavCmd : Execute(c) \/ BreakStep(c)
  BY <1>1 DEF Execute, SendGoal, Reach, ResumeDock, FailStep, BreakStep, GoOn, RecordGate
<1>2. CASE \E h \in Client : Serve(h) \/ (\E c \in NavCmd \ Docks : BeginRegister(h, c))
  BY <1>2, NavServerAssumption DEF Serve, LockSegment, StopMotion, ReleaseCanceled, RefuseDock, AbortActive
<1>5. CASE \E r \in Robot : DropGate(r) \/ (\E h \in Client : TakeGate(h, r))
  BY <1>5 DEF DropGate, TakeGate
<1>3. CASE \E r \in Disturbed : Disturb(r)
  BY <1>3 DEF Disturb, CmdsOf, Time, LateGate, PopGate, EngageEstop, ClearLatch, Jog, EndJog,
              StopByHand
<1>4. CASE \E s \in Segment : Expire(s)
  BY <1>4 DEF Expire
<1> QED
  BY <1>1, <1>2, <1>3, <1>4, <1>5 DEF NavServerNext

LEMMA RunsOwnStep == NavInv /\ RunsOwn /\ [NavServerNext]_navServerVars => RunsOwn'
<1> SUFFICES ASSUME NavInv, RunsOwn, [NavServerNext]_navServerVars
             PROVE  RunsOwn'
  OBVIOUS
<1> USE NavTyped DEF NavInv, NavBase, NavTypes, RunsOwn
<1>1. CASE UNCHANGED running
  BY <1>1
<1>2. CASE \E c \in NavCmd : Run(c)
  <2>1. PICK c \in NavCmd : running' = running \/ running' = [running EXCEPT ![RobotOf[c]] = c]
    BY <1>2 DEF Run
  <2>2. CASE running' = [running EXCEPT ![RobotOf[c]] = c]
    <3>1. \A r \in Robot : running'[r] = IF r = RobotOf[c] THEN c ELSE running[r]
      BY <2>2
    <3> QED
      BY <3>1
  <2> QED
    BY <1>1, <2>1, <2>2
<1>3. CASE \E c \in NavCmd : ReleaseExecutor(c)
  BY <1>3 DEF ReleaseExecutor
<1>4. \/ UNCHANGED running
      \/ \E c \in NavCmd : Run(c) \/ ReleaseExecutor(c)
  <2>1. CASE NavServerNext
    BY <2>1, NavMoves DEF NextStep, EndFailed, EndPassed, AbortLate, CancelTombstone,
       BeginRegister, BeginCancel, FinishRegister, FinishCancel, MarkAborted, UndoLocks
  <2>2. CASE UNCHANGED navServerVars
    BY <2>2 DEF navServerVars
  <2> QED
    BY <2>1, <2>2
<1> QED
  BY <1>1, <1>2, <1>3, <1>4

\* A route changes only where a command comes into force or leaves it.
LEMMA RouteStays ==
    ASSUME \A c \in NavCmd : reg'[c] \in InForce <=> reg[c] \in InForce,
           \A c \in NavCmd : reg[c] \in InForce => segs'[c] = segs[c]
    PROVE  Route' = Route
<1>1. \A c \in NavCmd : (IF reg'[c] \in InForce THEN SegSet(c)' ELSE {})
                        = (IF reg[c] \in InForce THEN SegSet(c) ELSE {})
  BY DEF SegSet
<1> QED
  BY <1>1 DEF Route

LEMMA RouteOf ==
    ASSUME NavTypes, NEW c \in NavCmd, NEW e \in RegState, reg' = [reg EXCEPT ![c] = e],
           UNCHANGED segs
    PROVE  Route' = [Route EXCEPT ![c] = IF e \in InForce THEN SegSet(c) ELSE {}]
<1>1. reg'[c] = e /\ \A d \in NavCmd : d # c => reg'[d] = reg[d]
  BY DEF NavTypes
<1>2. \A d \in NavCmd : SegSet(d)' = SegSet(d)
  BY DEF SegSet
<1>3. \A d \in NavCmd : (IF reg'[d] \in InForce THEN SegSet(d)' ELSE {})
         = IF d = c THEN (IF e \in InForce THEN SegSet(c) ELSE {})
           ELSE (IF reg[d] \in InForce THEN SegSet(d) ELSE {})
  BY <1>1, <1>2
<1> QED
  BY <1>3 DEF Route

LEMMA Becomes ==
    ASSUME NavTypes, NEW c \in NavCmd, NEW e \in RegState \ InForce, reg' = [reg EXCEPT ![c] = e],
           UNCHANGED segs
    PROVE  Registry!Become(c, e)
BY RouteOf DEF Registry!Become

LEMMA RegistryStutters ==
    ASSUME UNCHANGED <<reg, running, told>>,
           \A c \in NavCmd : reg[c] \in InForce => segs'[c] = segs[c]
    PROVE  UNCHANGED Registry!registryVars
BY RouteStays DEF Registry!registryVars

\* The locks of a registration that is complete keep every other robot's
\* command off its segments.
LEMMA RegistersAtOnce ==
    ASSUME NavInv, Prompt, NEW h \in Client, FinishRegister(h)
    PROVE  Registry!Accept(hand[h].cmd)
<1> USE DEF NavInv, NavBase
<1> DEFINE c == hand[h].cmd
<1>1. hand[h].at \in Locking /\ hand[h].n = Len(segs[c])
  BY DEF FinishRegister, Locking
<1>2. /\ c \in NavCmd /\ reg[c] = "NONE"
      /\ \A d \in NavCmd : reg[d] \in InForce => RobotOf[d] # RobotOf[c]
  BY <1>1, RegistrationKnown
<1>3. \A k \in DOMAIN segs[c] : lock[segs[c][k]] = c
  <2>1. DOMAIN segs[c] = 1 .. hand[h].n
    BY <1>1, <1>2 DEF NavTypes
  <2>2. \A k \in 1 .. hand[h].n : lock[segs[c][k]] = c
    BY <1>1 DEF LocksTaken
  <2> QED
    BY <2>1, <2>2
<1>4. \A d \in NavCmd : Route[d] \cap SegSet(c) = {}
  <2> SUFFICES ASSUME NEW d \in NavCmd, reg[d] \in InForce, NEW s \in SegSet(c), s \in SegSet(d)
               PROVE  FALSE
    BY DEF Route
  <2>1. PICK j \in DOMAIN segs[c] : s = segs[c][j]
    BY DEF SegSet
  <2>2. PICK k \in DOMAIN segs[d] : s = segs[d][k]
    BY DEF SegSet
  <2>3. lock[s] = c /\ lock[s] = d
    BY <1>3, <2>1, <2>2 DEF LocksHeld
  <2> QED
    BY <1>2, <2>3
<1>5. SegSet(c) \in SUBSET Segment
  BY <1>2 DEF SegSet, NavTypes
<1>6. Route' = [Route EXCEPT ![c] = SegSet(c)]
  BY <1>2, RouteOf DEF FinishRegister, RegState, InForce
<1>7. reg' = [reg EXCEPT ![c] = "ACCEPTED"] /\ UNCHANGED <<running, told>>
  BY DEF FinishRegister
<1> HIDE DEF c
<1> QED
  BY <1>2, <1>4, <1>5, <1>6, <1>7 DEF Registry!Accept, Registry!InForce, InForce, c

LEMMA ExecutorImplements ==
    ASSUME NavInv, RunsOwn, NEW c \in NavCmd,
           Run(c) \/ NextStep(c) \/ EndFailed(c) \/ EndPassed(c) \/ ReleaseExecutor(c)
    PROVE  \/ Registry!Start(c) \/ Registry!End(c) \/ Registry!Leave(c)
           \/ UNCHANGED Registry!registryVars
<1> USE DEF NavInv, NavBase
<1>1. Executing(c) => running[RobotOf[c]] = c
  BY DEF ExecutorHeld
<1>2. CASE Run(c)
  <2>1. CASE reg[c] = "ACCEPTED"
    <3>1. reg' = [reg EXCEPT ![c] = "RUNNING"] /\ UNCHANGED segs
      BY <1>2, <2>1 DEF Run
    <3>2. Route' = Route
      BY <2>1, <3>1, RouteStays DEF NavTypes, InForce
    <3> QED
      BY <1>2, <2>1, <3>1, <3>2 DEF Run, Registry!Start
  <2>2. CASE reg[c] # "ACCEPTED"
    BY <1>2, <2>2, RegistryStutters DEF Run
  <2> QED
    BY <2>1, <2>2
<1>3. ASSUME Executing(c), reg[c] = "RUNNING", NEW e \in {"ABORTED", "FAILED", EndState(c)},
             reg' = [reg EXCEPT ![c] = e], Report(c, e), UNCHANGED <<segs, running>>
      PROVE  Registry!End(c)
  <2>1. /\ e \in {IF c \in Docks THEN "DONE" ELSE "ARRIVED", "FAILED", "ABORTED"}
        /\ e \in RegState \ InForce
    BY <1>3 DEF EndState, RegState, InForce
  <2>2. Registry!Become(c, e) /\ Registry!Tell(c, e)
    BY <1>3, <2>1, Becomes DEF Report, Registry!Tell
  <2> QED
    BY <1>1, <1>3, <2>1, <2>2 DEF Registry!End
<1>4. CASE NextStep(c)
  <2>1. Executing(c) /\ UNCHANGED <<segs, running>>
    BY <1>4 DEF NextStep, At, Executing
  <2>2. \/ reg[c] = "RUNNING" /\ reg' = [reg EXCEPT ![c] = "ABORTED"] /\ Report(c, "ABORTED")
        \/ UNCHANGED <<reg, told>>
    BY <1>4 DEF NextStep, GiveUpOn
  <2> QED
    BY <1>3, <2>1, <2>2, RegistryStutters
<1>5. CASE EndFailed(c)
  <2>1. Executing(c) /\ UNCHANGED <<segs, running>>
    BY <1>5 DEF EndFailed, At, Executing
  <2>2. \/ reg[c] = "RUNNING" /\ reg' = [reg EXCEPT ![c] = "FAILED"] /\ Report(c, "FAILED")
        \/ UNCHANGED <<reg, told>>
    BY <1>5 DEF EndFailed, GiveUpOn
  <2> QED
    BY <1>3, <2>1, <2>2, RegistryStutters
<1>6. CASE EndPassed(c)
  <2>1. Executing(c) /\ UNCHANGED <<segs, running>>
    BY <1>6 DEF EndPassed, At, Executing
  <2>2. \/ reg[c] = "RUNNING" /\ reg' = [reg EXCEPT ![c] = EndState(c)] /\ Report(c, EndState(c))
        \/ UNCHANGED <<reg, told>>
    BY <1>6 DEF EndPassed
  <2> QED
    BY <1>3, <2>1, <2>2, RegistryStutters
<1>7. CASE ReleaseExecutor(c)
  <2>1. /\ running[RobotOf[c]] = c /\ reg[c] \notin InForce
        /\ UNCHANGED <<reg, segs, told>>
        /\ running' = [r \in Robot |-> IF running[r] = c THEN NoCmd ELSE running[r]]
    BY <1>1, <1>7 DEF ReleaseExecutor, At, Executing, ExeKnows
  <2>2. running' = [running EXCEPT ![RobotOf[c]] = NoCmd]
    BY <2>1, NavTyped DEF RunsOwn, NavTypes
  <2>3. Route' = Route
    BY <2>1, RouteStays
  <2> QED
    BY <2>1, <2>2, <2>3 DEF Registry!Leave, Registry!InForce, InForce
<1> QED
  BY <1>2, <1>4, <1>5, <1>6, <1>7

LEMMA StopImplements ==
    ASSUME NavInv,
           \/ \E c \in NavCmd : AbortLate(c) \/ CancelTombstone(c)
           \/ \E h \in Client : FinishCancel(h) \/ MarkAborted(h)
           \/ \E h \in Client, c \in NavCmd : BeginCancel(h, c)
    PROVE  \/ \E c \in NavCmd : \/ Registry!Abort(c) \/ Registry!Reserve(c)
                                \/ Registry!RequestCancel(c) \/ Registry!ResolveCancel(c)
           \/ UNCHANGED Registry!registryVars
<1> USE DEF NavInv, NavBase
<1>1. ASSUME NEW c \in NavCmd, reg[c] \notin Settled \cup {"NONE"},
             reg' = [reg EXCEPT ![c] = "ABORTED"], Report(c, "ABORTED"), UNCHANGED <<segs, running>>
      PROVE  Registry!Abort(c)
  <2>1. reg[c] \in Registry!InForce \cup {"ARRIVED", "CANCEL_REQUESTED", "STOP_UNCONFIRMED"}
    BY <1>1 DEF NavTypes, RegState, Settled, Registry!InForce
  <2>2. Registry!Become(c, "ABORTED") /\ Registry!Tell(c, "ABORTED")
    BY <1>1, Becomes DEF Report, Registry!Tell, RegState, InForce
  <2> QED
    BY <1>1, <2>1, <2>2 DEF Registry!Abort
<1>2. ASSUME NEW c \in NavCmd, AbortLate(c)
      PROVE  Registry!Abort(c) \/ UNCHANGED Registry!registryVars
  <2>1. reg[c] # "NONE" /\ UNCHANGED <<segs, running>>
    BY <1>2 DEF AbortLate, TimerKnows
  <2>2. \/ UNCHANGED <<reg, told>>
        \/ /\ reg[c] \notin Settled
           /\ reg' = [reg EXCEPT ![c] = "ABORTED"] /\ Report(c, "ABORTED")
    BY <1>2 DEF AbortLate
  <2> QED
    BY <1>1, <2>1, <2>2, RegistryStutters
<1>3. ASSUME NEW c \in NavCmd, CancelTombstone(c)
      PROVE  Registry!Reserve(c)
  BY <1>3, Becomes DEF CancelTombstone, Registry!Reserve, RegState, InForce
<1>4. ASSUME NEW h \in Client, NEW c \in NavCmd, BeginCancel(h, c)
      PROVE  Registry!RequestCancel(c)
  <2>1. reg[c] \in Registry!InForce \cup {"ARRIVED", "CANCEL_REQUESTED"}
    BY <1>4 DEF BeginCancel, NavTypes, RegState, Settled, Registry!InForce
  <2>2. Registry!Become(c, "CANCEL_REQUESTED")
    BY <1>4, Becomes DEF BeginCancel, RegState, InForce
  <2> QED
    BY <1>4, <2>1, <2>2 DEF BeginCancel, Registry!RequestCancel
<1>5. ASSUME NEW h \in Client, FinishCancel(h)
      PROVE  hand[h].cmd \in NavCmd /\ Registry!ResolveCancel(hand[h].cmd)
  <2> DEFINE c == hand[h].cmd
  <2>1. c \in NavCmd /\ reg[c] \in Registry!Stopped
    BY <1>5 DEF FinishCancel, Ending, HandsKnow, EndsHand, NavTypes, RegState, InForce, Registry!Stopped
  <2>2. UNCHANGED <<segs, running>>
    BY <1>5 DEF FinishCancel
  <2>3. \/ reg' = [reg EXCEPT ![c] = "STOP_UNCONFIRMED"] /\ UNCHANGED told
        \/ reg' = [reg EXCEPT ![c] = "CANCELED"] /\ Report(c, "CANCELED")
    BY <1>5 DEF FinishCancel
  <2> HIDE DEF c
  <2>4. \/ Registry!Become(c, "STOP_UNCONFIRMED") /\ UNCHANGED told
        \/ Registry!Become(c, "CANCELED") /\ Registry!Tell(c, "CANCELED")
    BY <2>1, <2>2, <2>3, Becomes DEF RegState, InForce, Report, Registry!Tell
  <2>5. Registry!ResolveCancel(c)
    BY <2>1, <2>2, <2>4 DEF Registry!ResolveCancel
  <2> QED
    BY <2>1, <2>5 DEF c
<1>6. ASSUME NEW h \in Client, MarkAborted(h)
      PROVE  (\E c \in NavCmd : Registry!Abort(c)) \/ UNCHANGED Registry!registryVars
  <2> DEFINE c == hand[h].cmd
  <2>1. c \in NavCmd /\ reg[c] # "NONE" /\ UNCHANGED <<segs, running>>
    BY <1>6 DEF MarkAborted, Knowing, HandsKnow, KnownHand
  <2>2. \/ UNCHANGED <<reg, told>>
        \/ /\ reg[c] \notin Settled
           /\ reg' = [reg EXCEPT ![c] = "ABORTED"] /\ Report(c, "ABORTED")
    BY <1>6 DEF MarkAborted
  <2> HIDE DEF c
  <2> QED
    BY <1>1, <2>1, <2>2, RegistryStutters
<1> QED
  BY <1>2, <1>3, <1>4, <1>5, <1>6

LEMMA RegistryStep ==
    Prompt /\ NavInv /\ RunsOwn /\ [NavServerNext]_navServerVars
        => [Registry!RegistryNext]_Registry!registryVars
<1> SUFFICES ASSUME Prompt, NavInv, RunsOwn, [NavServerNext]_navServerVars
             PROVE  [Registry!RegistryNext]_Registry!registryVars
  OBVIOUS
<1>1. CASE UNCHANGED <<reg, segs, running, told>>
  BY <1>1, RegistryStutters
<1>2. ASSUME NEW c \in NavCmd,
             Run(c) \/ NextStep(c) \/ EndFailed(c) \/ EndPassed(c) \/ ReleaseExecutor(c)
      PROVE  [Registry!RegistryNext]_Registry!registryVars
  BY <1>2, ExecutorImplements DEF Registry!RegistryNext
<1>3. ASSUME NEW h \in Client, NEW c \in NavCmd, BeginRegister(h, c)
      PROVE  UNCHANGED Registry!registryVars
  <2>1. reg[c] = "NONE" /\ segs' = [segs EXCEPT ![c] = WantedSegs(h, c)] /\ UNCHANGED <<reg, running, told>>
    BY <1>3 DEF BeginRegister
  <2>2. \A d \in NavCmd : reg[d] \in InForce => segs'[d] = segs[d]
    BY <2>1 DEF InForce, NavInv, NavBase, NavTypes
  <2> QED
    BY <2>1, <2>2, RegistryStutters
<1>4. ASSUME NEW h \in Client, UndoLocks(h)
      PROVE  UNCHANGED Registry!registryVars
  <2>1. /\ reg[hand[h].cmd] = "NONE" /\ UNCHANGED <<reg, running, told>>
        /\ segs' = segs \/ segs' = [segs EXCEPT ![hand[h].cmd] = <<>>]
    BY <1>4, RegistrationKnown DEF UndoLocks, Locking
  <2>2. \A d \in NavCmd : reg[d] \in InForce => segs'[d] = segs[d]
    BY <2>1 DEF InForce, NavInv, NavBase, NavTypes
  <2> QED
    BY <2>1, <2>2, RegistryStutters
<1>5. ASSUME NEW h \in Client, FinishRegister(h)
      PROVE  Registry!RegistryNext
  <2>1. hand[h].cmd \in NavCmd
    BY <1>5, RegistrationKnown DEF FinishRegister, Locking
  <2> QED
    BY <1>5, <2>1, RegistersAtOnce DEF Registry!RegistryNext
<1>6. ASSUME \/ \E c \in NavCmd : AbortLate(c) \/ CancelTombstone(c)
             \/ \E h \in Client : FinishCancel(h) \/ MarkAborted(h)
             \/ \E h \in Client, c \in NavCmd : BeginCancel(h, c)
      PROVE  [Registry!RegistryNext]_Registry!registryVars
  BY <1>6, StopImplements DEF Registry!RegistryNext
<1>7. CASE UNCHANGED navServerVars
  BY <1>1, <1>7 DEF navServerVars
<1>8. CASE NavServerNext
  BY <1>1, <1>2, <1>3, <1>4, <1>5, <1>6, <1>8, NavMoves
<1> QED
  BY <1>7, <1>8

\* Unless a command outlasts the TTL of its locks, the Nav processes of any
\* number of robots are one registry in which every operation is one step: a
\* command that takes its segments one by one, against the processes of other
\* robots, is accepted as if it took its whole route at once; what was
\* stopped stays stopped, however cancel, E-stop, timer and executor meet.
\* movement_api._register_movement_command,
\* movement_executor.execute_movement_command, command_state.cancel_command.
THEOREM ProcessesAreOneRegistry == Prompt => (NavServerSpec => ImplementsRegistry)
<1> SUFFICES ASSUME Prompt PROVE NavServerSpec => ImplementsRegistry
  OBVIOUS
<1>1. NavServerInit => RunsOwn /\ Registry!RegistryInit
  <2> SUFFICES ASSUME NavServerInit PROVE RunsOwn /\ Registry!RegistryInit
    OBVIOUS
  <2>1. Route = [c \in NavCmd |-> {}]
    BY DEF NavServerInit, Route, InForce
  <2> QED
    BY <2>1 DEF NavServerInit, RunsOwn, Registry!RegistryInit
<1>2. NavInv /\ RunsOwn /\ [NavServerNext]_navServerVars
         => RunsOwn' /\ [Registry!RegistryNext]_Registry!registryVars
  BY RunsOwnStep, RegistryStep
<1> QED
  BY <1>1, <1>2, NavInvariant, PTL
     DEF NavServerSpec, ImplementsRegistry, Registry!RegistrySpec
=============================================================================
