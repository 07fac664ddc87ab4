------------------------------ MODULE Docking ------------------------------
(***************************************************************************)
(* The docking steps of one Nav process: how the robot backs out of its    *)
(* parking place, inserts the forks into a slot, lifts or lowers a pallet, *)
(* and backs out again.  NavServer says when a step runs and who may       *)
(* cancel it; here is what the step does to the base and to the lift, and  *)
(* what the process remembers of it.                                       *)
(*                                                                         *)
(* depth is the truth, in millimetres beyond the place where Nav2 leaves   *)
(* the robot in front of the marker; everything else the process knows     *)
(* only from its own bookkeeping (acct, parked, stored) or from sensors.   *)
(* The base moves in bursts: an action admits one, a later one makes it.   *)
(***************************************************************************)
EXTENDS Integers, Sequences, FiniteSets

CONSTANTS
    Insert,      \* fork_insert_distance_m
    Burst,       \* what one burst of velocity moves the base
    Creep,       \* what one pre-insert creep moves it
    Cycles,      \* pre_insert_center_cycles
    Gap,         \* how far a "full" alignment brings the robot at most
    Backoff,     \* normal_realign_backoff_m
    Vain,        \* bound: what is counted in vain before docking_timeout_sec
    StopAt,      \* the depth at which the marker reaches insert_stop_width_px
    TooClose,    \* the depth at which it reaches fork_insert_max_marker_width_px
    Extra,       \* insert_extra_after_vision_m
    Target,      \* the depth of target_distance_m, for the metric insertions
    Grip,        \* the depth from which the forks carry the pallet
    MinReverse,  \* the least reverse, 0.05 m
    ReverseExtra,\* reverse_extra_m
    Fallback,    \* reverse_clearance_fallback_m
    Room,        \* the room behind the place where Nav2 leaves the robot, less
                 \* clearance_margin_m
    NearPark,    \* the least depth that the map pose calls "at parking"
    Slack,       \* a robot this deep stands clear of the dock
    Ways,        \* the insertions in use, see WayKind
    DockFaults   \* what may go wrong, see DockFaultKind

\* "pixel": a fixed distance, stopped by the width of the marker; "metric": to
\* a measured distance, and back to the saved map pose; "camera": to a measured
\* distance, and back as far as was counted.
WayKind == {"pixel", "metric", "camera"}

\* "cancel", "estop": the command is canceled, the robot stopped and released;
\* "stale": scan, TF and pose grow too old while a step is carried out; "early":
\* they may be too old already when it begins; "lost": the marker is not found,
\* or the saved pose is of no use;
\* "dark": the marker is out of the camera's view; "lift": a lift action fails;
\* "nav": Nav2 fails; "front", "rear": something stands before the robot, or
\* behind it; "normal": it came up to the marker aside; "restart": the process
\* restarts between two commands.
DockFaultKind == {"cancel", "estop", "stale", "early", "lost", "dark", "lift", "nav",
                  "front", "rear", "normal", "restart"}

ASSUME DockingAssumption ==
    /\ {Insert, Burst, Creep, Cycles, Gap, Backoff, Vain, StopAt, TooClose, Extra, Target,
        Grip, MinReverse, ReverseExtra, Fallback, Room, NearPark, Slack} \subseteq Nat
    /\ Burst > 0
    /\ Ways \subseteq WayKind
    /\ DockFaults \subseteq DockFaultKind

VARIABLES
    at,       \* the place whose marker the robot faces: "home" or "slot"
    depth,    \* how far in it stands
    pallet,   \* where the pallet is: "slot" or "forks"
    fork,     \* the height of the lift: "low", "up" or "carry"
    parked,   \* runtime.standby_parked: "yes", "no", or "unknown" for None
    stored,   \* runtime.standby_park_reverse_distance_m, -1 for None
    gate,     \* the gate of the last move: "none", "plain", or "aligned" when
              \* the move has aligned the robot (post_align_done)
    job,      \* the command in execution, or how the last one ended
    acct,     \* what the payload counts: _actual_insert_distance_m,
              \* _pre_insert_creep_net_m and _align_forward_net_m; over, which no
              \* payload knows, is what the last counts and the base did not drive
    estop,    \* navigator.safety.estop
    cancel,   \* the command is in a cancel state
    fresh,    \* scan, TF, pose and lift telemetry are fresh
    late,     \* the bursts made since the cancel or the E-stop
    blind,    \* the bursts made since the sensors went stale
    spoilt    \* a command broke off, and the robot has not been clear since

dockVars == <<at, depth, pallet, fork, parked, stored, gate, job, acct, estop,
              cancel, fresh, late, blind, spoilt>>

Site == {"home", "slot"}
Act == {"move", "drive", "leave", "park", "load", "unload", "out"}
StepName == {"leave", "nav", "align", "park", "dock", "out"}
Ended == {"idle", "done", "failed"}

\* What the process waits for or decides next.  In a moving stage left is the
\* way that remains and armed says that the next burst is admitted; n counts
\* the cycles of centering, or the realignment, from is the depth at which the
\* command began, and pre says that the gate was "aligned".
Moving == {"leaving", "advance", "realign", "creep", "insert", "extra", "metric", "reverse"}
Stage == Ended \cup Moving \cup
         {"next", "leave", "nav", "acquire", "align", "prelift", "center",
          "lift", "carry", "backout"}

NoAcct == [ins |-> 0, creep |-> 0, fwd |-> 0, over |-> 0]
NoJob == [act |-> "leave", way |-> "pixel", site |-> "home", steps |-> <<>>,
          stage |-> "idle", left |-> 0, sign |-> 1, armed |-> FALSE, n |-> 0,
          from |-> 0, pre |-> FALSE]

Job == [act : Act, way : WayKind, site : Site, steps : Seq(StepName), stage : Stage,
        left : Nat, sign : {-1, 1}, armed : BOOLEAN, n : Nat, from : Int, pre : BOOLEAN]

\* Nothing is known of where a robot stands when its process starts: here it
\* stands parked.
DockingInit ==
    /\ at = "home" /\ depth = Insert
    /\ pallet = "slot" /\ fork = "low"
    /\ parked = "unknown" /\ stored = -1
    /\ gate = "none"
    /\ job = [NoJob EXCEPT !.act = "park"] /\ acct = NoAcct
    /\ estop = FALSE /\ cancel = FALSE /\ fresh = TRUE
    /\ late = 0 /\ blind = 0 /\ spoilt = FALSE

-----------------------------------------------------------------------------
(* Shared steps.                                                           *)

Least(a, b) == IF a < b THEN a ELSE b
Most(a, b) == IF a > b THEN a ELSE b
Running == job.stage \notin Ended
To(stage) == job' = [job EXCEPT !.stage = stage, !.left = 0, !.armed = FALSE]
Travel(stage, way, sign) ==
    job' = [job EXCEPT !.stage = stage, !.left = way, !.sign = sign, !.armed = FALSE]

\* set_standby_parked: only "yes" keeps the distance that was stored with it.
SetParked(v) ==
    /\ parked' = v
    /\ stored' = IF v = "yes" THEN stored ELSE -1

Clear(d) == d <= Slack

\* mutant: the gate does not look at the command.
AdmittedUnasked == fresh

\* mutant: the gate does not look at the sensors.
AdmittedBlind == ~cancel

\* raise_if_command_canceled and require_docking_motion_freshness; the E-stop is
\* no part of it.
Admitted == ~cancel /\ fresh

\* A command that ends is no longer under cancel.
Finish(how) ==
    /\ job' = [job EXCEPT !.stage = how, !.left = 0, !.armed = FALSE, !.steps = <<>>]
    /\ cancel' = FALSE /\ late' = 0 /\ blind' = 0

\* An error ends the command where the robot stands.
Break ==
    /\ Finish("failed")
    /\ spoilt' = ~Clear(depth)

body == <<at, depth, late, blind, spoilt>>
memory == <<parked, stored, gate>>
cargo == <<pallet, fork>>
world == <<estop, cancel, fresh>>

\* The command breaks off: nothing else moves.
Fail ==
    /\ Break
    /\ UNCHANGED <<at, depth, cargo, memory, acct, estop, fresh>>

\* The process goes on to another stage: nothing moves.
Stay == UNCHANGED <<body, cargo, memory, acct, world>>

\* The base moves by d.
Roll(d) ==
    /\ depth' = depth + d
    /\ late' = IF cancel THEN late + 1 ELSE 0
    /\ blind' = IF fresh THEN 0 ELSE blind + 1
    /\ spoilt' = (spoilt /\ ~Clear(depth + d))
    /\ at' = at

\* mutant: the last burst is not cut short.
StepWhole == Burst

\* One burst of the way that is left.
Step == Least(Burst, job.left)
Stepped == [job EXCEPT !.left = @ - Step, !.armed = FALSE]

\* Whether the camera has the marker.
Sees == IF "dark" \in DockFaults THEN BOOLEAN ELSE {TRUE}

-----------------------------------------------------------------------------
(* Commands, and what goes on between them.                                *)

Command(act, way, site, steps) ==
    /\ ~Running
    /\ fresh \/ "early" \in DockFaults
    /\ job' = [NoJob EXCEPT !.act = act, !.way = way, !.site = site,
                            !.steps = steps, !.stage = "next", !.from = depth,
                            !.pre = (gate = "aligned" /\ act \in {"park", "load", "unload"})]
    /\ acct' = NoAcct
    /\ UNCHANGED <<body, cargo, parked, stored, world>>

\* mutant: the robot is driven off as it stands.
LeaveNever(steps) == steps

\* prepend_leave_dock_if_parked
LeaveFirst(steps) == IF parked = "yes" THEN <<"leave">> \o steps ELSE steps

\* move_to_point, with or without an alignment at its end, as the steps of an
\* order have it sent: the last command ended well and was no park, or it is
\* repeated.
Approach == {<<"nav">>, <<"nav", "align">>}

Move(site) ==
    /\ job.act = "move" \/ (job.stage = "done" /\ job.act # "park")
    /\ \E steps \in Approach : Command("move", "pixel", site, LeaveFirst(steps))
    /\ gate' = gate

\* The same at any other time, by hand or as the safe move of a recovery: after
\* a park, a command that broke off, a restart.
Drive(site) ==
    /\ \E steps \in Approach : Command("drive", "pixel", site, LeaveFirst(steps))
    /\ gate' = gate

\* leave_dock, with the marker and the pose of the parking place: how Main
\* begins every order.
Leave ==
    /\ Command("leave", "pixel", "home", <<"leave">>)
    /\ gate' = gate

\* aruco_align with final=hold, and dock_transfer: both consume the gate.
Park ==
    /\ gate # "none"
    /\ Command("park", "pixel", "home", <<"park">>)
    /\ gate' = "none"

Dock(act, way) ==
    /\ gate # "none"
    /\ pallet = IF act = "load" THEN "slot" ELSE "forks"
    /\ Command(act, way, "slot", <<"dock">>)
    /\ gate' = "none"

\* slot_reverse_out, by which an operator brings back a robot that a broken
\* transfer has left in the slot.
ReverseOut ==
    /\ spoilt /\ at = "slot"
    /\ Command("out", "pixel", "slot", <<"out">>)
    /\ gate' = gate

Cancel ==
    /\ "cancel" \in DockFaults /\ Running /\ ~cancel
    /\ cancel' = TRUE
    /\ UNCHANGED <<body, cargo, memory, job, acct, estop, fresh>>

\* An E-stop is released only after the command that it stopped has ended: one
\* that is released at once is a hazard of its own.
PressEstop ==
    /\ "estop" \in DockFaults /\ ~estop
    /\ estop' = TRUE
    /\ UNCHANGED <<body, cargo, memory, job, acct, cancel, fresh>>

ClearEstop ==
    /\ estop /\ ~Running
    /\ estop' = FALSE
    /\ UNCHANGED <<body, cargo, memory, job, acct, cancel, fresh>>

SensorsStale ==
    /\ "stale" \in DockFaults /\ fresh
    /\ job.stage \notin Ended \cup {"next", "leave"} \/ "early" \in DockFaults
    /\ fresh' = FALSE
    /\ UNCHANGED <<body, cargo, memory, job, acct, estop, cancel>>

SensorsBack ==
    /\ ~fresh
    /\ fresh' = TRUE
    /\ blind' = 0
    /\ UNCHANGED <<at, depth, late, spoilt, cargo, memory, job, acct, estop, cancel>>

Restart ==
    /\ "restart" \in DockFaults /\ ~Running
    /\ SetParked("unknown")
    /\ gate' = "none"
    /\ estop' = FALSE
    /\ UNCHANGED <<body, cargo, job, acct, cancel, fresh>>

-----------------------------------------------------------------------------
(* The executor between two steps, and the drive to a place.               *)

BeginStep ==
    /\ job.stage = "next" /\ job.steps # <<>>
    /\ ~cancel /\ ~estop
    /\ job' = [job EXCEPT !.steps = Tail(@), !.n = 0,
                          !.stage = CASE Head(job.steps) = "leave" -> "leave"
                                      [] Head(job.steps) = "nav" -> "nav"
                                      [] Head(job.steps) = "out" -> "backout"
                                      [] OTHER -> "acquire"]
    /\ acct' = IF Head(job.steps) = "out" THEN [NoAcct EXCEPT !.ins = Insert] ELSE acct
    /\ UNCHANGED <<body, cargo, memory, world>>

BreakBetween ==
    /\ job.stage = "next"
    /\ cancel \/ (estop /\ job.steps # <<>>)
    /\ Fail

EndCommand ==
    /\ job.stage = "next" /\ job.steps = <<>> /\ ~cancel
    /\ Finish("done")
    /\ gate' = IF job.act \notin {"move", "drive"} THEN gate
               ELSE IF job.n = 1 THEN "aligned" ELSE "plain"
    /\ UNCHANGED <<at, depth, spoilt, cargo, parked, stored, acct, estop, fresh>>

NavArrives ==
    /\ job.stage = "nav" /\ ~cancel /\ ~estop
    /\ at' = job.site /\ depth' = 0 /\ spoilt' = FALSE
    /\ SetParked("no")
    /\ To("next")
    /\ UNCHANGED <<late, blind, cargo, gate, acct, world>>

NavFails ==
    /\ job.stage = "nav"
    /\ cancel \/ estop \/ "nav" \in DockFaults
    /\ Fail

-----------------------------------------------------------------------------
(* leave_dock.                                                             *)

\* _fresh_pose_relation_to_parking; a leave that was put before a move carries
\* neither the pose nor the marker.
PoseSays ==
    IF ~fresh \/ job.act # "leave" THEN "unknown"
    ELSE IF at = "home" /\ depth >= NearPark THEN "at_parking" ELSE "away"

MarkerSays(sees) == sees /\ job.act = "leave" /\ at = "home" /\ depth > 0

ReverseRequired(sees) ==
    \/ PoseSays = "at_parking"
    \/ PoseSays = "unknown" /\ (MarkerSays(sees) \/ parked = "yes")

\* resolve_leave_dock_distance_m
LeaveDistance(sees) ==
    IF sees /\ job.act = "leave" /\ at = "home" THEN Most(0, depth)
    ELSE IF stored > 0 THEN stored ELSE Fallback

\* What the laser sees of the room behind: less of it when somebody is there.
RearAllows(way) ==
    way = depth + Room \/ ("rear" \in DockFaults /\ way \in {0, Burst})

\* The reverse is not needed, or the marker clearance is satisfied already, or
\* there is no room for it: DONE, and parked no more.
LeaveNot ==
    /\ job.stage = "leave"
    /\ \E sees \in Sees :
          \/ ~ReverseRequired(sees)
          \/ LeaveDistance(sees) <= 5
          \/ Admitted /\ \E room \in {0, depth + Room} : RearAllows(room) /\ room <= 20
    /\ SetParked("no")
    /\ To("next")
    /\ UNCHANGED <<body, cargo, gate, acct, world>>

LeaveBegins ==
    /\ job.stage = "leave" /\ Admitted
    /\ \E sees \in Sees, room \in {Burst, depth + Room} :
          /\ ReverseRequired(sees) /\ LeaveDistance(sees) > 5
          /\ RearAllows(room) /\ room > 20
          /\ Travel("leaving", Least(room, LeaveDistance(sees)), -1)
    /\ Stay

LeaveRefused ==
    /\ job.stage = "leave" /\ ~Admitted
    /\ \E sees \in Sees : ReverseRequired(sees) /\ LeaveDistance(sees) > 5
    /\ Fail

-----------------------------------------------------------------------------
(* The marker: found, and the robot turned or brought up to it.            *)

AfterAlign ==
    IF job.act \in {"move", "drive"} THEN "next" ELSE IF job.act = "park" THEN "center" ELSE "prelift"

\* acquire_dock_marker; nothing is aligned after an aligned gate, nor before a
\* metric insertion.
AcquireMarker ==
    /\ job.stage = "acquire" /\ at = job.site
    /\ To(IF job.pre \/ job.way = "metric" THEN AfterAlign ELSE "align")
    /\ Stay

AcquireFails ==
    /\ job.stage = "acquire"
    /\ cancel \/ estop \/ ~fresh \/ at # job.site \/ "lost" \in DockFaults
    /\ Fail

\* center_only and full_center: the robot only turns.
AlignTurns ==
    /\ job.stage = "align" /\ Admitted /\ ~estop
    /\ job' = [job EXCEPT !.stage = AfterAlign,
                          !.n = IF job.act \in {"move", "drive"} THEN 1 ELSE 0]
    /\ Stay

\* full: it is brought up to the marker by execute_precision_docking, in the end
\* without seeing it; Gap is the farthest that this takes it.
AlignAdvances ==
    /\ job.stage = "align" /\ Admitted /\ ~estop
    /\ job.way = "pixel" /\ job.act \in {"park", "load", "unload"} /\ depth < Gap
    /\ Travel("advance", Gap - depth, 1)
    /\ Stay

AlignFails ==
    /\ job.stage = "align"
    /\ ~Admitted \/ estop \/ "lost" \in DockFaults
    /\ Fail

\* It is near enough, in the middle of the picture or just out of it; the loop
\* begins by looking at the E-stop.
AdvanceEnds ==
    /\ job.stage = "advance" /\ ~job.armed /\ ~estop
    /\ acct.fwd > 0
    /\ job' = [job EXCEPT !.stage = AfterAlign, !.left = 0, !.n = 0]
    /\ Stay

\* It is near enough and stands aside of the normal: once it is backed a bit,
\* to come up again.
RealignBegins ==
    /\ "normal" \in DockFaults /\ job.n = 0
    /\ job.left = 0 /\ ~job.armed /\ ~estop
    /\ job.stage = "advance" \/ (job.stage = "metric" /\ job.way = "metric" /\ acct.fwd = 0)
    /\ job' = [job EXCEPT !.stage = "realign", !.left = Backoff, !.sign = -1, !.n = 1]
    /\ Stay

RealignEnds ==
    /\ job.stage = "realign" /\ job.left = 0 /\ ~job.armed /\ ~estop
    /\ IF job.way = "pixel" THEN Travel("advance", Most(0, Gap - depth), 1) ELSE To("metric")
    /\ Stay

-----------------------------------------------------------------------------
(* Moving in bursts.  _publish_docking_velocity, and the stop condition of  *)
(* publish_velocity_for_distance, admit every burst: the insertion by width *)
(* looks only for a cancel and an E-stop.                                   *)

Gated == Moving \ {"insert", "extra"}

\* The loop of execute_precision_docking.
Approaches == {"advance", "realign", "metric"}

\* The ways on which the marker, or the saved pose, is looked at all the time.
Watched == Approaches \cup (IF job.way = "metric" THEN {"reverse"} ELSE {})

MayArm ==
    IF job.stage \in Gated
    THEN Admitted /\ (estop => job.stage \notin Approaches)
    ELSE ~cancel /\ ~estop

Arm ==
    /\ job.stage \in Moving /\ job.left > 0 /\ ~job.armed
    /\ MayArm
    /\ job' = [job EXCEPT !.armed = TRUE]
    /\ Stay

\* mutant: a loop that may not move under an E-stop waits for its release.
MotionWaits ==
    /\ job.stage \in Moving /\ job.left > 0 /\ ~job.armed
    /\ ~Admitted
    /\ Fail

MotionRefused ==
    /\ job.stage \in Moving /\ ~job.armed
    /\ job.left > 0 \/ job.stage \in {"advance", "realign"}
    /\ ~MayArm \/ (job.stage \in Watched /\ "lost" \in DockFaults)
    /\ Fail

\* The marker is wide enough: the insertion of the armed burst is not made.
WidthStops(sees) == job.stage = "insert" /\ sees /\ depth >= StopAt

\* What the payload counts of a burst of d: nothing of a realignment.
Counted(d) ==
    CASE job.stage \in {"insert", "extra"} -> [acct EXCEPT !.ins = @ + d]
      [] job.stage \in {"advance", "metric"} -> [acct EXCEPT !.fwd = @ + d]
      [] job.stage = "creep" -> [acct EXCEPT !.creep = @ + job.sign * d]
      [] job.stage = "realign" -> [acct EXCEPT !.over = @ + d]
      [] OTHER -> acct

\* The same of a burst that is not driven.
CountedInVain(d) ==
    CASE job.stage \in {"advance", "metric"} -> [acct EXCEPT !.fwd = @ + d, !.over = @ + d]
      [] job.stage = "creep" -> [acct EXCEPT !.creep = @ + job.sign * d]
      [] OTHER -> acct

Move1 ==
    /\ job.stage \in Moving /\ job.armed /\ ~estop
    /\ \E sees \in Sees : ~WidthStops(sees)
    /\ Roll(job.sign * Step)
    /\ acct' = Counted(Step)
    /\ job' = Stepped
    /\ UNCHANGED <<cargo, memory, world>>

\* publish_velocity refuses to move under an E-stop, or forward when the laser
\* sees somebody there.  The approach and the creep do not look at its answer,
\* and count what was not driven.
BurstIgnored ==
    /\ job.stage \in Approaches \cup {"creep"} /\ job.armed
    /\ \/ estop
       \/ "front" \in DockFaults /\ job.stage \in {"advance", "metric"} /\ acct.over < Vain
    /\ acct' = CountedInVain(Step)
    /\ job' = [job EXCEPT !.armed = FALSE, !.left = IF job.stage = "creep" THEN 0 ELSE @]
    /\ UNCHANGED <<body, cargo, memory, world>>

BurstRefused ==
    /\ job.stage \in {"leaving", "insert", "extra", "reverse"} /\ job.armed /\ estop
    /\ IF job.act = "out" THEN SetParked("no") ELSE UNCHANGED <<parked, stored>>
    /\ Break
    /\ UNCHANGED <<at, depth, cargo, gate, acct, estop, fresh>>

-----------------------------------------------------------------------------
(* What follows when the way is done.                                      *)

Arrived(stage) == job.stage = stage /\ job.left = 0 /\ ~job.armed

LeaveEnds ==
    /\ Arrived("leaving")
    /\ SetParked("no")
    /\ To("next")
    /\ UNCHANGED <<body, cargo, gate, acct, world>>

\* execute_pre_insert_lift: the pallet on the forks stays at its height, the
\* forks that fetch one are homed first.
LiftIsPrepared ==
    /\ job.stage = "prelift"
    /\ IF job.act = "load" THEN Admitted /\ fork' = "low" ELSE fork' = fork
    /\ To(IF job.way = "pixel" THEN "center" ELSE "metric")
    /\ UNCHANGED <<body, pallet, memory, acct, world>>

LiftIsNotPrepared ==
    /\ job.stage = "prelift" /\ job.act = "load"
    /\ ~Admitted \/ "lift" \in DockFaults
    /\ Fail

\* ensure_marker_centered_for_insert: a cycle finds the marker centered, or
\* turns, or creeps; an error of turning is swallowed.  After an aligned gate a
\* transfer does without.
Centered ==
    /\ job.stage = "center"
    /\ Travel("insert", Insert, 1)
    /\ Stay

CenterTurns ==
    /\ job.stage = "center" /\ job.n < Cycles
    /\ ~(job.pre /\ job.act # "park")
    /\ job' = [job EXCEPT !.n = @ + 1]
    /\ Stay

CenterCreeps(sign) ==
    /\ job.stage = "center" /\ job.n < Cycles
    /\ ~(job.pre /\ job.act # "park")
    /\ job' = [job EXCEPT !.stage = "creep", !.left = Creep, !.sign = sign, !.n = @ + 1]
    /\ Stay

CreepEnds ==
    /\ Arrived("creep")
    /\ To("center")
    /\ Stay

CenterFails ==
    /\ job.stage = "center" /\ job.n = Cycles
    /\ ~(job.pre /\ job.act # "park")
    /\ Fail

\* The insertion is over: an order to park is done with it.
Inserted(stage, sees) ==
    /\ job.stage = stage
    /\ \/ job.left = 0 /\ ~job.armed
       \/ job.armed /\ WidthStops(sees) /\ (depth >= TooClose \/ estop \/ job.site = "home")

InsertEnds ==
    /\ \E sees \in Sees : Inserted("insert", sees) \/ Inserted("extra", sees)
    /\ IF job.act = "park"
       THEN /\ parked' = "yes" /\ stored' = acct.ins
            /\ To("next")
       ELSE /\ To("lift")
            /\ UNCHANGED <<parked, stored>>
    /\ UNCHANGED <<body, cargo, gate, acct, world>>

\* insert_extra_after_vision_m is commissioned for the slots only, and left out
\* under an E-stop.
InsertGoesOn ==
    /\ job.armed /\ \E sees \in Sees : WidthStops(sees)
    /\ depth < TooClose /\ ~estop /\ job.site = "slot"
    /\ Travel("extra", Extra, 1)
    /\ Stay

\* execute_metric_precision_insert, execute_camera_distance_insert: straight to
\* the target distance, if it is measured and not overshot already.
MetricBegins ==
    /\ job.stage = "metric" /\ job.left = 0 /\ acct.fwd = 0
    /\ depth < Target
    /\ Travel("metric", Target - depth, 1)
    /\ Stay

MetricFails ==
    /\ job.stage = "metric" /\ job.left = 0 /\ acct.fwd = 0
    /\ depth >= Target \/ "lost" \in DockFaults
    /\ Fail

MetricEnds ==
    /\ Arrived("metric") /\ acct.fwd > 0
    /\ acct' = [acct EXCEPT !.ins = depth - job.from]
    /\ To("lift")
    /\ UNCHANGED <<body, cargo, memory, world>>

\* execute_lift_action: the pallet comes along when the forks are under it.  A
\* failed action may have got to its end, or nowhere.
Lifted ==
    /\ fork' = IF job.act = "load" THEN "up" ELSE "low"
    /\ pallet' = IF depth < Grip THEN pallet
                 ELSE IF job.act = "load" THEN "forks" ELSE "slot"

LiftMoves ==
    /\ job.stage = "lift" /\ Admitted
    /\ Lifted
    /\ To(IF job.act = "load" THEN "carry" ELSE "backout")
    /\ UNCHANGED <<body, memory, acct, world>>

\* mutant: an error of the lift is logged only.
LiftErrorIgnored ==
    /\ job.stage = "lift" /\ "lift" \in DockFaults
    /\ To("backout")
    /\ UNCHANGED <<body, cargo, memory, acct, world>>

LiftFails ==
    /\ job.stage = "lift"
    /\ \/ "lift" \in DockFaults /\ Admitted /\ Lifted
       \/ (~Admitted \/ "lift" \in DockFaults) /\ UNCHANGED cargo
    /\ Break
    /\ UNCHANGED <<at, depth, memory, acct, estop, fresh>>

\* execute_carry_after_load
CarryMoves ==
    /\ job.stage = "carry" /\ Admitted
    /\ fork' = "carry"
    /\ To("backout")
    /\ UNCHANGED <<body, pallet, memory, acct, world>>

CarryFails ==
    /\ job.stage = "carry"
    /\ ~Admitted \/ "lift" \in DockFaults
    /\ Fail

\* mutant: what the alignment drove forward is left out.
ReverseInsertOnly == Most(MinReverse, acct.ins) + Most(0, acct.creep) + ReverseExtra

\* resolve_dock_reverse_distance_m
ReverseBy == Most(MinReverse, acct.ins) + Most(0, acct.creep) + Most(0, acct.fwd)
             + ReverseExtra

\* execute_reverse_to_map_pose: the way to the pose that the move before the
\* transfer had ended in, if that is behind the robot.
WayToPose == depth - job.from

\* execute_dock_reverse
BackOut ==
    /\ job.stage = "backout" /\ Admitted
    /\ job.way = "metric" => WayToPose >= 0
    /\ Travel("reverse", IF job.way = "metric" THEN WayToPose ELSE ReverseBy, -1)
    /\ Stay

BackOutFails ==
    /\ job.stage = "backout"
    /\ ~Admitted \/ (job.way = "metric" /\ ("lost" \in DockFaults \/ WayToPose < 0))
    /\ Fail

ReverseEnds ==
    /\ Arrived("reverse")
    /\ SetParked("no")
    /\ To("next")
    /\ UNCHANGED <<body, cargo, gate, acct, world>>

-----------------------------------------------------------------------------
ActuatorStep ==
    \/ BeginStep \/ BreakBetween \/ EndCommand
    \/ NavArrives \/ NavFails
    \/ LeaveNot \/ LeaveBegins \/ LeaveRefused \/ LeaveEnds
    \/ AcquireMarker \/ AcquireFails
    \/ AlignTurns \/ AlignAdvances \/ AlignFails
    \/ AdvanceEnds \/ RealignBegins \/ RealignEnds
    \/ Arm \/ MotionRefused \/ Move1 \/ BurstIgnored \/ BurstRefused
    \/ LiftIsPrepared \/ LiftIsNotPrepared
    \/ Centered \/ CenterTurns \/ \E sign \in {-1, 1} : CenterCreeps(sign)
    \/ CreepEnds \/ CenterFails
    \/ InsertEnds \/ InsertGoesOn
    \/ MetricBegins \/ MetricFails \/ MetricEnds
    \/ LiftMoves \/ LiftFails \/ CarryMoves \/ CarryFails
    \/ BackOut \/ BackOutFails \/ ReverseEnds

Request ==
    \/ \E site \in Site : Move(site) \/ Drive(site)
    \/ Leave \/ Park \/ ReverseOut
    \/ \E act \in {"load", "unload"}, way \in Ways : Dock(act, way)

Upset == Cancel \/ PressEstop \/ ClearEstop \/ SensorsStale \/ SensorsBack \/ Restart

DockingNext == ActuatorStep \/ Request \/ Upset

\* Every wait of a command is bounded: the thread that carries it out goes on.
DockingSpec == DockingInit /\ [][DockingNext]_dockVars /\ WF_dockVars(ActuatorStep)

-----------------------------------------------------------------------------
(* Properties.                                                             *)

DockTypeOK ==
    /\ at \in Site /\ depth \in Int
    /\ pallet \in {"slot", "forks"} /\ fork \in {"low", "up", "carry"}
    /\ parked \in {"yes", "no", "unknown"} /\ stored \in Nat \cup {-1}
    /\ gate \in {"none", "plain", "aligned"}
    /\ job \in Job
    /\ acct \in [ins : Int, creep : Int, fwd : Nat, over : Nat]
    /\ estop \in BOOLEAN /\ cancel \in BOOLEAN /\ fresh \in BOOLEAN
    /\ spoilt \in BOOLEAN /\ late \in Nat /\ blind \in Nat

\* What the bookkeeping of a transfer takes for granted of the settings: the
\* shortest insertion, after an alignment and all creeps, carries the pallet and
\* is no shorter than the least reverse.
Drift == Cycles * Creep
InsertionFits ==
    /\ Insert > 0 /\ Insert >= MinReverse /\ StopAt >= MinReverse + Gap + Drift
    /\ Insert >= Grip + Drift + Backoff /\ StopAt >= Grip /\ Target >= Grip
    /\ NearPark > 0

\* And that of a leave: a parked robot is told by its pose; what a stored
\* distance leaves out, the alignment and the creeps, is no more than the slack;
\* the fallback brings the robot out.  0.005 m and 0.02 m are the way and the
\* room that a leave takes for none.
LeaveFits ==
    /\ Insert >= NearPark + Drift + Backoff /\ StopAt >= NearPark
    /\ Slack >= Gap + Drift /\ Fallback + Slack >= Insert + Gap + Drift
    /\ MinReverse > 5 /\ NearPark > 5 /\ Fallback > 5 /\ Room > 20

\* A transfer that reports DONE has come out of the slot, whatever way its
\* approach took: back to the saved pose (docking.py:2200), or by what it has
\* counted (2039 resolve_dock_reverse_distance_m).  Then it is behind the place
\* where it began by no more than the margin, the creeps it does not subtract,
\* and over: the bursts that the laser refused and the ways back to realign, both
\* of which the count leaves as they are (1293-1300).
BacksOutToStart ==
    job.stage = "done" /\ job.act \in {"load", "unload"} =>
        /\ depth <= job.from
        /\ depth >= job.from - (IF job.way = "metric" THEN 0
                                ELSE ReverseExtra + Drift + acct.over)

\* Where Nav2 may take over all the same: a command broke off in a slot, or too
\* near to the way out of the parking place to be told from outside; or, for a
\* move that no order has prepared by a leave, a command broke off anywhere, or
\* the process has restarted and no leave has followed.
StuckInside ==
    \/ spoilt /\ (at = "slot" \/ depth < NearPark)
    \/ job.act = "drive" /\ (spoilt \/ parked = "unknown")

\* But for that, Nav2 takes over a robot only outside a dock: the place it parks
\* in, its memory lost by a restart or the way out broken off, is known to the
\* leave of an order from the pose, the marker or the stored distance
\* (docking.py:2510 execute_leave_dock_step), and to any other move as long as
\* the process remembers it (robot_commands.py:823).
DriveFromOutside ==
    [][job.stage = "nav" /\ at' = job.site /\ job'.stage = "next"
         => Clear(depth) \/ StuckInside]_dockVars

\* A cancel lets at most the admitted burst go on (docking.py:156
\* _publish_docking_velocity, 1868).
CanceledBaseStops == late <= 1

\* When scan, TF or localization are too old at most the admitted burst goes on
\* (docking.py:101 require_docking_motion_freshness); the insertion by the width
\* of the marker is left out.
BlindBaseStops ==
    [][depth' # depth /\ at' = at /\ job.stage \in Gated => blind' <= 1]_dockVars

\* What a transfer reports done is done, and the pallet is at the height at
\* which it is driven about (docking.py:2750 execute_dock_transfer_step).
ReportedCargo ==
    job.stage = "done" =>
        /\ job.act = "load" => pallet = "forks" /\ fork = "carry"
        /\ job.act = "unload" => pallet = "slot" /\ fork = "low"

\* Every command ends (movement_executor.py:246 runs its steps to the end).
CommandEnds == []<>~Running
=============================================================================
