----------------------------- MODULE NavServer -----------------------------
(***************************************************************************)
(* The Nav servers, one process per robot: how NavContract's promises come *)
(* about.  Each process has the registry of commands, the executor threads *)
(* that run their steps one command at a time, the request threads that    *)
(* cancel, stop and register, and the timers of the ARRIVED gates.  The    *)
(* processes share the file of traffic locks.                              *)
(*                                                                         *)
(* An action ends where the code releases command_state_lock, waits for    *)
(* the robot, or posts to Main.  A callback is posted with the change that *)
(* it reports: only Main reads it.                                         *)
(***************************************************************************)
EXTENDS Naturals, Sequences, FiniteSets

CONSTANTS
    Robot,       \* one Nav process each
    NavCmd,      \* the command identities
    RobotOf,     \* the robot that a command is for
    StepsOf,     \* the actions of a command: "nav", "dock" or "wait"
    Docks,       \* the commands that consume an ARRIVED gate
    Segment,     \* traffic segments
    SegsOf,      \* the segments of a move, in the order they are locked
    Client,      \* the request threads
    NoCmd,
    Disturbed,   \* the robots that are late, canceled, stopped and jogged
    NavFaults    \* what may go wrong, see NavFaultKind

\* "fail": a step fails by itself, or a robot is not ready; "nostop": a stop is not confirmed;
\* "slow": a command takes longer than the TTL of its locks; "late": the dock
\* request comes after the gate's timeout; "jog": the operator jogs the robot.
NavFaultKind == {"fail", "nostop", "slow", "late", "jog"}

ASSUME NavServerAssumption ==
    /\ RobotOf \in [NavCmd -> Robot]
    /\ StepsOf \in [NavCmd -> Seq({"nav", "dock", "wait"})]
    /\ \A c \in NavCmd : StepsOf[c] # <<>>
    /\ SegsOf \in [NavCmd -> Seq(Segment)]
    /\ \A c \in NavCmd : \A j, k \in DOMAIN SegsOf[c] : SegsOf[c][j] = SegsOf[c][k] => j = k
    /\ Docks \subseteq NavCmd
    /\ NoCmd \notin NavCmd
    /\ Disturbed \subseteq Robot
    /\ NavFaults \subseteq NavFaultKind

VARIABLES
    reg,         \* runtime.movement_commands: the state of every command
    segs,        \* command["traffic_segments"]
    exe,         \* the executor thread of every command
    running,     \* who holds movement_execution_lock
    arrived,     \* runtime.last_arrived_gate_by_robot
    latch,       \* navigator.safety.estop
    drive,       \* the command whose goal or velocity the base follows
    jog,         \* the operator drives the base
    lock,        \* the traffic locks: the command that a segment names
    timer,       \* the gate timers
    hand,        \* what every request thread is doing
    told         \* the terminal callbacks posted to Main

navServerVars == <<reg, segs, exe, running, arrived, latch, drive, jog, lock,
                   timer, hand, told>>

RegState == {"NONE", "ACCEPTED", "RUNNING", "DONE", "ARRIVED", "FAILED",
             "ABORTED", "CANCEL_REQUESTED", "CANCELED", "STOP_UNCONFIRMED"}

\* cancel_command and mark_command_aborted leave these alone.
Settled == {"DONE", "FAILED", "ABORTED", "CANCELED"}

\* _CANCEL_STATES: the executor gives up.
CancelState == {"CANCEL_REQUESTED", "CANCELED", "STOP_UNCONFIRMED"}

InForce == {"ACCEPTED", "RUNNING"}

ExeAt == {"none", "queued", "loop", "begin", "go", "passed", "failed",
          "gate", "release", "over"}

HandAt == {"idle", "convert", "lock", "undo", "stop", "confirm", "unlock", "abort", "mark"}

NoHand == [at |-> "idle", cmd |-> NoCmd, robot |-> CHOOSE r \in Robot : TRUE, n |-> 0]

NavServerInit ==
    /\ reg = [c \in NavCmd |-> "NONE"]
    /\ segs = [c \in NavCmd |-> <<>>]
    /\ exe = [c \in NavCmd |-> [at |-> "none", i |-> 1]]
    /\ running = [r \in Robot |-> NoCmd]
    /\ arrived = [r \in Robot |-> NoCmd]
    /\ latch = [r \in Robot |-> FALSE]
    /\ drive = [r \in Robot |-> NoCmd]
    /\ jog = [r \in Robot |-> FALSE]
    /\ lock = [s \in Segment |-> NoCmd]
    /\ timer = [c \in NavCmd |-> "off"]
    /\ hand = [h \in Client |-> NoHand]
    /\ told = {}

-----------------------------------------------------------------------------
(* Shared steps.                                                           *)

CmdsOf(r) == {c \in NavCmd : RobotOf[c] = r}
InForceOf(r) == {c \in CmdsOf(r) : reg[c] \in InForce}
Report(c, e) == told' = told \cup {<<c, e>>}
SegSet(c) == {segs[c][k] : k \in DOMAIN segs[c]}

\* A registration holds command_state_lock while it takes its traffic locks.
Registering(r) == \E h \in Client : hand[h].at \in {"lock", "undo"} /\ hand[h].robot = r

\* release_traffic_locks_for_command: only the locks that name the command.
Unlocked(c) == [s \in Segment |-> IF s \in SegSet(c) /\ lock[s] = c THEN NoCmd ELSE lock[s]]

Move(c, at) == exe' = [exe EXCEPT ![c].at = at]
Hand(h, at) == hand' = [hand EXCEPT ![h].at = at]
Free(h) == hand' = [hand EXCEPT ![h] = NoHand]

\* publish_stop_velocity and cancelTask.
Rest(r) == /\ drive' = [drive EXCEPT ![r] = NoCmd]
           /\ jog' = [jog EXCEPT ![r] = FALSE]

-----------------------------------------------------------------------------
(* Registration.                                                           *)

\* consume_arrived_gate, without any lock: a gate is popped whether or not
\* its move is still ARRIVED.
GateOf(r) == arrived[r]
PopGateOf(r) == arrived' = [arrived EXCEPT ![r] = NoCmd]

\* 409: the gate is no longer valid.
DropGate(r) ==
    /\ GateOf(r) # NoCmd /\ reg[GateOf(r)] # "ARRIVED"
    /\ PopGateOf(r)
    /\ UNCHANGED <<reg, segs, exe, running, latch, drive, jog, lock, timer, hand, told>>

\* A dock request is converted: from here its thread alone knows the move
\* whose gate it took.
TakeGate(h, r) ==
    /\ hand[h] = NoHand
    /\ GateOf(r) # NoCmd /\ reg[GateOf(r)] = "ARRIVED"
    /\ PopGateOf(r)
    /\ hand' = [hand EXCEPT ![h] = [at |-> "convert", cmd |-> GateOf(r), robot |-> r, n |-> 0]]
    /\ UNCHANGED <<reg, segs, exe, running, latch, drive, jog, lock, timer, told>>

\* The robot is not ready, it is busy, or the identity is known: answered as a
\* duplicate.  The gate is gone.  A robot under E-stop is not refused here.
RefuseDock(h) ==
    /\ hand[h].at = "convert"
    /\ \/ "fail" \in NavFaults
       \/ /\ ~Registering(hand[h].robot)
          /\ InForceOf(hand[h].robot) # {} \/ \E c \in Docks \cap CmdsOf(hand[h].robot) : reg[c] # "NONE"
    /\ Free(h)
    /\ UNCHANGED <<reg, segs, exe, running, arrived, latch, drive, jog, lock, timer, told>>

\* A dock command inherits the segments of the move that opened the gate.
Requests(h, c) == IF c \in Docks THEN hand[h].at = "convert" /\ hand[h].robot = RobotOf[c]
                  ELSE hand[h] = NoHand
WantedSegs(h, c) == IF c \in Docks THEN segs[hand[h].cmd] ELSE SegsOf[c]

\* A new command starts to take its locks.
BeginRegister(h, c) ==
    /\ Requests(h, c)
    /\ ~Registering(RobotOf[c])
    /\ reg[c] = "NONE"
    /\ InForceOf(RobotOf[c]) = {}
    /\ segs' = [segs EXCEPT ![c] = WantedSegs(h, c)]
    /\ hand' = [hand EXCEPT ![h] = [at |-> "lock", cmd |-> c, robot |-> RobotOf[c], n |-> 0]]
    /\ UNCHANGED <<reg, exe, running, arrived, latch, drive, jog, lock, timer, told>>

\* acquire: the same robot takes a segment over from its previous command.
LockIsFree(s, c) == lock[s] = NoCmd \/ RobotOf[lock[s]] = RobotOf[c]

\* acquire_many, one segment at a time: the file is locked for each.
LockSegment(h) ==
    /\ hand[h].at = "lock"
    /\ LET c == hand[h].cmd
           n == hand[h].n + 1
       IN  /\ n <= Len(segs[c])
           /\ IF LockIsFree(segs[c][n], c)
              THEN /\ lock' = [lock EXCEPT ![segs[c][n]] = c]
                   /\ hand' = [hand EXCEPT ![h].n = n]
              ELSE Hand(h, "undo") /\ UNCHANGED lock
    /\ UNCHANGED <<reg, segs, exe, running, latch, drive, told, arrived, jog, timer>>

\* A conflict: what this call took is released by force, the locks that it
\* took over from the robot's previous command included.
UndoLocks(h) ==
    /\ hand[h].at = "undo"
    /\ LET c == hand[h].cmd
           n == hand[h].n
       IN  IF n = 0
           THEN /\ segs' = [segs EXCEPT ![c] = <<>>]
                /\ Free(h)
                /\ UNCHANGED lock
           ELSE /\ lock' = [lock EXCEPT ![segs[c][n]] = NoCmd]
                /\ hand' = [hand EXCEPT ![h].n = n - 1]
                /\ UNCHANGED segs
    /\ UNCHANGED <<reg, exe, running, latch, drive, told, arrived, jog, timer>>

\* The command is known, and its executor is scheduled.
FinishRegister(h) ==
    /\ hand[h].at = "lock"
    /\ hand[h].n = Len(segs[hand[h].cmd])
    /\ reg' = [reg EXCEPT ![hand[h].cmd] = "ACCEPTED"]
    /\ Move(hand[h].cmd, "queued")
    /\ Free(h)
    /\ UNCHANGED <<segs, running, latch, drive, lock, told, arrived, jog, timer>>

-----------------------------------------------------------------------------
(* The executor thread of a command.                                       *)

At(c, a) == exe[c].at = a

\* mutant: the executor does not wait for the one before it
RunUnlocked(c) ==
    /\ At(c, "queued")
    /\ ~Registering(RobotOf[c])
    /\ IF reg[c] = "ACCEPTED"
       THEN /\ reg' = [reg EXCEPT ![c] = "RUNNING"]
            /\ running' = [running EXCEPT ![RobotOf[c]] = c]
            /\ Move(c, "loop")
       ELSE Move(c, "over") /\ UNCHANGED <<reg, running>>
    /\ UNCHANGED <<segs, latch, drive, lock, told, arrived, jog, timer, hand>>

\* One command at a time: a canceled command that still drains keeps the
\* next one waiting.
Run(c) ==
    /\ At(c, "queued")
    /\ ~Registering(RobotOf[c])
    /\ running[RobotOf[c]] = NoCmd
    /\ IF reg[c] = "ACCEPTED"
       THEN /\ reg' = [reg EXCEPT ![c] = "RUNNING"]
            /\ running' = [running EXCEPT ![RobotOf[c]] = c]
            /\ Move(c, "loop")
       ELSE Move(c, "over") /\ UNCHANGED <<reg, running>>
    /\ UNCHANGED <<segs, latch, drive, lock, told, arrived, jog, timer, hand>>

\* CommandAborted: reported only if the command is still RUNNING.
GiveUpOn(c, e) ==
    /\ IF reg[c] = "RUNNING"
       THEN reg' = [reg EXCEPT ![c] = e] /\ Report(c, e)
       ELSE UNCHANGED <<reg, told>>
    /\ Move(c, "release")

\* The head of the loop over the steps.  ABORTED is not a cancel state: a
\* command that an E-stop aborted goes on when the E-stop is cleared first.
NextStep(c) ==
    /\ At(c, "loop")
    /\ ~Registering(RobotOf[c])
    /\ LET r == RobotOf[c] IN
       IF reg[c] \in CancelState \/ latch[r]
       THEN GiveUpOn(c, "ABORTED") /\ UNCHANGED drive
       ELSE /\ UNCHANGED <<reg, told>>
            /\ CASE StepsOf[c][exe[c].i] = "nav"  -> Move(c, "begin") /\ UNCHANGED drive
                 [] StepsOf[c][exe[c].i] = "wait" -> Move(c, "passed") /\ UNCHANGED drive
                 [] StepsOf[c][exe[c].i] = "dock" ->
                        Move(c, "go") /\ drive' = [drive EXCEPT ![r] = c]
    /\ UNCHANGED <<segs, running, latch, lock, arrived, jog, timer, hand>>

\* go_to_pose_goal: Nav2 is ready at last and gets its goal.  Nothing is
\* looked at in between.
SendGoal(c) ==
    /\ At(c, "begin")
    /\ drive' = [drive EXCEPT ![RobotOf[c]] = c]
    /\ Move(c, "go")
    /\ UNCHANGED <<reg, segs, running, latch, lock, told, arrived, jog, timer, hand>>

Driving(c) == At(c, "go") /\ drive[RobotOf[c]] = c

\* The goal is reached, or the docking ends.
Reach(c) ==
    /\ Driving(c)
    /\ ~latch[RobotOf[c]]
    /\ drive' = [drive EXCEPT ![RobotOf[c]] = NoCmd]
    /\ Move(c, "passed")
    /\ UNCHANGED <<reg, segs, running, latch, lock, told, arrived, jog, timer, hand>>

\* A docking step that was stopped from outside goes on with its next burst,
\* unless it sees that it is canceled.
ResumeDock(c) ==
    /\ At(c, "go")
    /\ StepsOf[c][exe[c].i] = "dock"
    /\ ~Driving(c) /\ ~latch[RobotOf[c]] /\ reg[c] \notin CancelState
    /\ drive' = [drive EXCEPT ![RobotOf[c]] = c]
    /\ UNCHANGED <<reg, segs, exe, running, latch, lock, told, arrived, jog, timer, hand>>

\* Nav2 gives up, an obstacle appears, the docking loses its marker or its
\* time is over.
BreakStep(c) ==
    /\ "fail" \in NavFaults
    /\ At(c, "go")
    /\ drive' = [drive EXCEPT ![RobotOf[c]] = IF @ = c THEN NoCmd ELSE @]
    /\ Move(c, "failed")
    /\ UNCHANGED <<reg, segs, running, latch, lock, told, arrived, jog, timer, hand>>

\* mutant: the step does not look at the E-stop
FailStepUnwatched(c) ==
    /\ At(c, "go")
    /\ LET r == RobotOf[c] IN
       /\ IF StepsOf[c][exe[c].i] = "dock" THEN reg[c] \in CancelState ELSE drive[r] # c
       /\ drive' = [drive EXCEPT ![r] = IF @ = c THEN NoCmd ELSE @]
    /\ Move(c, "failed")
    /\ UNCHANGED <<reg, segs, running, latch, lock, told, arrived, jog, timer, hand>>

\* The step sees the E-stop or, when it docks, its cancel.  A Nav2 goal that
\* was stopped from outside has failed.
FailStep(c) ==
    /\ At(c, "go")
    /\ LET r == RobotOf[c] IN
       /\ \/ latch[r]
          \/ IF StepsOf[c][exe[c].i] = "dock" THEN reg[c] \in CancelState ELSE drive[r] # c
       /\ drive' = [drive EXCEPT ![r] = IF @ = c THEN NoCmd ELSE @]
    /\ Move(c, "failed")
    /\ UNCHANGED <<reg, segs, running, latch, lock, told, arrived, jog, timer, hand>>

\* A canceled command ends silently, any other as FAILED with a stop.
EndFailed(c) ==
    /\ At(c, "failed")
    /\ ~Registering(RobotOf[c])
    /\ GiveUpOn(c, "FAILED")
    /\ IF reg[c] = "RUNNING" THEN Rest(RobotOf[c]) ELSE UNCHANGED <<drive, jog>>
    /\ UNCHANGED <<segs, running, latch, lock, arrived, timer, hand>>

EndState(c) == IF c \in Docks THEN "DONE" ELSE "ARRIVED"

\* mutant: the end is written without comparing
EndBlindly(c) ==
    /\ At(c, "passed")
    /\ ~Registering(RobotOf[c])
    /\ exe[c].i = Len(StepsOf[c])
    /\ reg' = [reg EXCEPT ![c] = EndState(c)]
    /\ Report(c, EndState(c))
    /\ Move(c, IF EndState(c) = "ARRIVED" THEN "gate" ELSE "release")
    /\ UNCHANGED <<segs, running, latch, drive, lock, arrived, jog, timer, hand>>

\* The last step is over: RUNNING, or the cancel has been faster.
EndPassed(c) ==
    /\ At(c, "passed")
    /\ ~Registering(RobotOf[c])
    /\ exe[c].i = Len(StepsOf[c])
    /\ IF reg[c] = "RUNNING"
       THEN /\ reg' = [reg EXCEPT ![c] = EndState(c)]
            /\ Report(c, EndState(c))
            /\ Move(c, IF EndState(c) = "ARRIVED" THEN "gate" ELSE "release")
       ELSE Move(c, "release") /\ UNCHANGED <<reg, told>>
    /\ UNCHANGED <<segs, running, latch, drive, lock, arrived, jog, timer, hand>>

GoOn(c) ==
    /\ At(c, "passed")
    /\ exe[c].i < Len(StepsOf[c])
    /\ IF reg[c] \in CancelState
       THEN Move(c, "release")
       ELSE exe' = [exe EXCEPT ![c] = [at |-> "loop", i |-> @.i + 1]]
    /\ UNCHANGED <<reg, segs, running, latch, drive, lock, told, arrived, jog, timer, hand>>

\* record_arrived_gate runs outside the lock, whatever became of the command.
RecordGate(c) ==
    /\ At(c, "gate")
    /\ arrived' = [arrived EXCEPT ![RobotOf[c]] = c]
    /\ timer' = [timer EXCEPT ![c] = "armed"]
    /\ Move(c, "release")
    /\ UNCHANGED <<reg, segs, running, latch, drive, lock, told, jog, hand>>

\* mutant: the locks of an ARRIVED command are released as well
ReleaseAll(c) ==
    /\ At(c, "release")
    /\ lock' = [s \in Segment |-> IF s \in SegSet(c) THEN NoCmd ELSE lock[s]]
    /\ running' = [r \in Robot |-> IF running[r] = c THEN NoCmd ELSE running[r]]
    /\ Move(c, "over")
    /\ UNCHANGED <<reg, segs, latch, drive, told, arrived, jog, timer, hand>>

\* mutant: an ARRIVED command keeps the execution lock as well
ReleaseUnlessArrived(c) ==
    /\ At(c, "release")
    /\ IF reg[c] = "ARRIVED" THEN UNCHANGED <<lock, running>>
       ELSE /\ lock' = Unlocked(c)
            /\ running' = [r \in Robot |-> IF running[r] = c THEN NoCmd ELSE running[r]]
    /\ Move(c, "over")
    /\ UNCHANGED <<reg, segs, latch, drive, told, arrived, jog, timer, hand>>

\* The locks of an ARRIVED command are kept for the command that docks.
ReleaseExecutor(c) ==
    /\ At(c, "release")
    /\ lock' = IF reg[c] = "ARRIVED" THEN lock ELSE Unlocked(c)
    /\ running' = [r \in Robot |-> IF running[r] = c THEN NoCmd ELSE running[r]]
    /\ Move(c, "over")
    /\ UNCHANGED <<reg, segs, latch, drive, told, arrived, jog, timer, hand>>

-----------------------------------------------------------------------------
(* The timer of a gate.  It looks without a lock, and what it saw may have *)
(* changed when it acts.                                                   *)

LateGate(c) ==
    /\ timer[c] = "armed"
    /\ "late" \in NavFaults
    /\ timer' = [timer EXCEPT ![c] =
           IF reg[c] = "ARRIVED" /\ arrived[RobotOf[c]] = c THEN "late" ELSE "off"]
    /\ UNCHANGED <<reg, segs, exe, running, latch, drive, lock, told, arrived, jog, hand>>

\* mutant: a settled command is aborted as well
AbortSettled(c) ==
    /\ timer[c] = "late"
    /\ ~Registering(RobotOf[c])
    /\ reg' = [reg EXCEPT ![c] = "ABORTED"]
    /\ Report(c, "ABORTED")
    /\ timer' = [timer EXCEPT ![c] = "pop"]
    /\ UNCHANGED <<segs, exe, running, latch, drive, lock, arrived, jog, hand>>

\* mark_command_aborted: everything but a settled command.
AbortLate(c) ==
    /\ timer[c] = "late"
    /\ ~Registering(RobotOf[c])
    /\ IF reg[c] \in Settled
       THEN timer' = [timer EXCEPT ![c] = "off"] /\ UNCHANGED <<reg, told>>
       ELSE /\ reg' = [reg EXCEPT ![c] = "ABORTED"]
            /\ Report(c, "ABORTED")
            /\ timer' = [timer EXCEPT ![c] = "pop"]
    /\ UNCHANGED <<segs, exe, running, latch, drive, lock, arrived, jog, hand>>

\* After the callbacks the locks are released and the gate of the robot is
\* popped, also when it is a newer one.
PopGate(c) ==
    /\ timer[c] = "pop"
    /\ timer' = [timer EXCEPT ![c] = "off"]
    /\ lock' = Unlocked(c)
    /\ arrived' = [arrived EXCEPT ![RobotOf[c]] = NoCmd]
    /\ UNCHANGED <<reg, segs, exe, running, latch, drive, told, jog, hand>>

-----------------------------------------------------------------------------
(* Cancel.                                                                 *)

CancelTombstone(c) ==
    /\ ~Registering(RobotOf[c])
    /\ reg[c] = "NONE"
    /\ reg' = [reg EXCEPT ![c] = "CANCELED"]
    /\ UNCHANGED <<segs, exe, running, latch, drive, lock, told, arrived, jog, timer, hand>>

\* A settled command, or one whose stop was not confirmed, is answered as is.
BeginCancel(h, c) ==
    /\ hand[h] = NoHand
    /\ ~Registering(RobotOf[c])
    /\ reg[c] \notin Settled \cup {"NONE", "STOP_UNCONFIRMED"}
    /\ reg' = [reg EXCEPT ![c] = "CANCEL_REQUESTED"]
    /\ arrived' = [arrived EXCEPT ![RobotOf[c]] = IF @ = c THEN NoCmd ELSE @]
    /\ hand' = [hand EXCEPT ![h] = [at |-> "stop", cmd |-> c, robot |-> RobotOf[c], n |-> 0]]
    /\ UNCHANGED <<segs, exe, running, latch, drive, lock, told, jog, timer>>

\* stop_active_motion stops whatever the base is doing, for this command or
\* for another.  Without confirmation the E-stop is latched.
StopMotion(h) ==
    /\ hand[h].at = "stop"
    /\ \/ Rest(hand[h].robot) /\ Hand(h, "confirm") /\ UNCHANGED latch
       \/ /\ "nostop" \in NavFaults
          /\ latch' = [latch EXCEPT ![hand[h].robot] = TRUE]
          /\ hand' = [hand EXCEPT ![h].at = "confirm", ![h].n = 1]
          /\ \/ Rest(hand[h].robot)
             \/ UNCHANGED <<drive, jog>>
    /\ UNCHANGED <<reg, segs, exe, running, lock, told, arrived, timer>>

\* Whatever the state is by now, it is overwritten.
FinishCancel(h) ==
    /\ hand[h].at = "confirm"
    /\ ~Registering(hand[h].robot)
    /\ LET c == hand[h].cmd IN
       IF hand[h].n = 1
       THEN reg' = [reg EXCEPT ![c] = "STOP_UNCONFIRMED"] /\ UNCHANGED told
       ELSE reg' = [reg EXCEPT ![c] = "CANCELED"] /\ Report(c, "CANCELED")
    /\ Hand(h, "unlock")
    /\ UNCHANGED <<segs, exe, running, latch, drive, lock, arrived, jog, timer>>

ReleaseCanceled(h) ==
    /\ hand[h].at = "unlock"
    /\ lock' = Unlocked(hand[h].cmd)
    /\ Free(h)
    /\ UNCHANGED <<reg, segs, exe, running, latch, drive, told, arrived, jog, timer>>

-----------------------------------------------------------------------------
(* E-stop and manual control.                                              *)

\* engage_estop: the latch first, then the stop.
EngageEstop(h, r) ==
    /\ hand[h] = NoHand
    /\ latch' = [latch EXCEPT ![r] = TRUE]
    /\ Rest(r)
    /\ hand' = [hand EXCEPT ![h] = [NoHand EXCEPT !.at = "abort", !.robot = r]]
    /\ UNCHANGED <<reg, segs, exe, running, lock, told, arrived, timer>>

\* abort_active_commands_for_estop looks without a lock.  At most one command
\* is in force.
AbortActive(h) ==
    /\ hand[h].at = "abort"
    /\ IF InForceOf(hand[h].robot) = {}
       THEN Free(h)
       ELSE \E c \in InForceOf(hand[h].robot) :
                hand' = [hand EXCEPT ![h].at = "mark", ![h].cmd = c]
    /\ UNCHANGED <<reg, told, segs, exe, running, latch, drive, lock, arrived, jog, timer>>

\* mark_command_aborted: everything but a settled command.
MarkAborted(h) ==
    /\ hand[h].at = "mark"
    /\ ~Registering(hand[h].robot)
    /\ LET c == hand[h].cmd IN
       IF reg[c] \in Settled
       THEN Free(h) /\ UNCHANGED <<reg, told>>
       ELSE reg' = [reg EXCEPT ![c] = "ABORTED"] /\ Report(c, "ABORTED") /\ Hand(h, "unlock")
    /\ UNCHANGED <<segs, exe, running, latch, drive, lock, arrived, jog, timer>>

ClearLatch(r) ==
    /\ latch[r]
    /\ latch' = [latch EXCEPT ![r] = FALSE]
    /\ UNCHANGED <<reg, segs, exe, running, drive, lock, told, arrived, jog, timer, hand>>

\* prepare_manual_control asks the navigator's status, not the registry.
Jog(r) ==
    /\ "jog" \in NavFaults
    /\ ~latch[r]
    /\ drive[r] = NoCmd
    /\ jog' = [jog EXCEPT ![r] = TRUE]
    /\ UNCHANGED <<reg, segs, exe, running, latch, drive, lock, told, arrived, timer, hand>>

\* The jog ends at its timeout or at the E-stop.
EndJog(r) ==
    /\ jog[r]
    /\ jog' = [jog EXCEPT ![r] = FALSE]
    /\ UNCHANGED <<reg, segs, exe, running, latch, drive, lock, told, arrived, timer, hand>>

\* manual/stop stops whatever drives the base, a command's goal included.
StopByHand(r) ==
    /\ "jog" \in NavFaults
    /\ Rest(r)
    /\ UNCHANGED <<reg, segs, exe, running, latch, lock, told, arrived, timer, hand>>

\* A lock whose TTL is over is dropped by the next access to the file.
Expire(s) ==
    /\ lock[s] # NoCmd
    /\ reg[lock[s]] \in InForce \cup {"NONE"} => "slow" \in NavFaults
    /\ lock' = [lock EXCEPT ![s] = NoCmd]
    /\ UNCHANGED <<reg, segs, exe, running, latch, drive, told, arrived, jog, timer, hand>>

-----------------------------------------------------------------------------

Execute(c) ==
    \/ Run(c) \/ NextStep(c) \/ SendGoal(c) \/ Reach(c) \/ ResumeDock(c) \/ FailStep(c)
    \/ EndFailed(c) \/ EndPassed(c) \/ GoOn(c) \/ RecordGate(c)
    \/ ReleaseExecutor(c)

Serve(h) ==
    \/ LockSegment(h) \/ UndoLocks(h) \/ FinishRegister(h)
    \/ StopMotion(h) \/ FinishCancel(h) \/ ReleaseCanceled(h)
    \/ AbortActive(h) \/ MarkAborted(h) \/ RefuseDock(h)
    \/ \E c \in Docks : BeginRegister(h, c)

Time(c) == LateGate(c) \/ AbortLate(c) \/ PopGate(c)

Disturb(r) ==
    \/ \E c \in CmdsOf(r) : Time(c) \/ CancelTombstone(c) \/ (\E h \in Client : BeginCancel(h, c))
    \/ \E h \in Client : EngageEstop(h, r)
    \/ ClearLatch(r) \/ Jog(r) \/ EndJog(r) \/ StopByHand(r)

NavServerNext ==
    \/ \E c \in NavCmd : Execute(c) \/ BreakStep(c)
    \/ \E h \in Client : Serve(h) \/ (\E c \in NavCmd \ Docks : BeginRegister(h, c))
    \/ \E r \in Robot : DropGate(r) \/ (\E h \in Client : TakeGate(h, r))
    \/ \E r \in Disturbed : Disturb(r)
    \/ \E s \in Segment : Expire(s)

\* Threads run.  What nothing holds up reaches its goal, and the docking loops
\* end at their timeouts however often they are stopped by hand.  No fault is
\* fair: under E-stop a step ends by seeing it.
NavServerFairness ==
    /\ \A c \in NavCmd : /\ WF_navServerVars(Execute(c))
                         /\ SF_navServerVars(Reach(c) \/ FailStep(c))
    /\ \A h \in Client : WF_navServerVars(Serve(h))
    /\ \A r \in Robot : WF_navServerVars(EndJog(r))

NavServerSpec ==
    NavServerInit /\ [][NavServerNext]_navServerVars /\ NavServerFairness

-----------------------------------------------------------------------------
(* Properties.                                                             *)

\* Two robots never have commands in force on one traffic segment, whatever
\* the processes register, refuse, cancel and abort at the same time.
\* traffic_manager.acquire_many, release_traffic_locks_for_command.
OneRobotPerSegment ==
    \A c, d \in NavCmd :
        /\ reg[c] \in InForce /\ reg[d] \in InForce
        /\ SegSet(c) \cap SegSet(d) # {}
        => RobotOf[c] = RobotOf[d]

\* The executors of one robot never run two commands at once, although a
\* canceled command still drains when the next is accepted.
\* movement_executor.execute_movement_command.
Executing(c) == exe[c].at \notin {"none", "queued", "over"}
OneExecutor ==
    \A c, d \in NavCmd :
        Executing(c) /\ Executing(d) /\ RobotOf[c] = RobotOf[d] => c = d

\* A command that Main was told to be DONE or FAILED is never reported
\* otherwise, whatever cancel, E-stop and timer do meanwhile.
\* movement_executor._transition_command_state, mark_command_aborted.
ToldOnce ==
    \A c \in NavCmd, e \in {"DONE", "FAILED"} :
        <<c, e>> \in told => \A f \in RegState : <<c, f>> \in told => f = e

\* Every command that is accepted comes to its end and gives the executor up,
\* and every cancel is resolved.  The commands are finitely many and none runs
\* twice, so at last all are settled.
\* movement_executor.execute_movement_command, command_state.cancel_command.
RegistrySettles ==
    <>[](\A c \in NavCmd : /\ reg[c] \notin InForce \cup {"CANCEL_REQUESTED"}
                           /\ exe[c].at \in {"none", "over"})

\* Under E-stop the base comes to rest, also when Nav2 got its goal after
\* the stop.  logistics_navigator._monitor_nav_task.
EstopBringsRest ==
    \A r \in Disturbed : latch[r] ~> (drive[r] = NoCmd /\ ~jog[r]) \/ ~latch[r]

\* The requests, executors and timers of all processes, which take, take over
\* and give back locks one by one and settle one command from several sides,
\* are a registry whose every operation is one step.
\* movement_api._register_movement_command,
\* movement_executor.execute_movement_command, command_state.cancel_command.
Route == [c \in NavCmd |-> IF reg[c] \in InForce THEN SegSet(c) ELSE {}]
Registry == INSTANCE CommandRegistry WITH route <- Route, busy <- running
ImplementsRegistry == Registry!RegistrySpec

\* What INTERFACES.md says of CANCELED, that the robot is known to have
\* stopped: it does not follow a goal of the command.  A cancel between the
\* check of a step and the goal that the step sends at last to Nav2 is lost.
\* logistics_navigator.go_to_pose_goal.
CanceledIsStill == \A r \in Robot : drive[r] # NoCmd => reg[drive[r]] # "CANCELED"
=============================================================================
