--------------------------- MODULE DockingProofs ---------------------------
(***************************************************************************)
(* Theorems about the docking steps, for any distances, ways of insertion  *)
(* and faults.                                                             *)
(***************************************************************************)
EXTENDS Docking, TLAPS

\* A command that is no drive has one step, and the rest of its steps is empty
\* once that has begun.
OneStep == job.act \notin {"move", "drive"} =>
    \/ job.steps = <<>>
    \/ job.stage = "next" /\ Tail(job.steps) = <<>>

\* What is stored with a robot that parks is what the insertion has counted.
ParkCounts ==
    /\ job.act = "park" => acct.ins \in Nat /\ job.way = "pixel"
    /\ job.stage \in {"prelift", "metric"} => job.act # "park"

Shape == OneStep /\ ParkCounts

\* Where a burst is driven only with fresh sensors: everywhere but from the
\* insertion by width to the way back.
Seeing ==
    /\ job.stage \notin {"insert", "extra", "lift", "carry", "backout"}
    /\ job.stage = "next" => job.steps # <<>>

\* After a cancel, or once the sensors are stale, the admitted burst is the last.
LastBurst ==
    /\ late <= 1
    /\ job.armed => job.stage \in Moving
    /\ ~cancel => late = 0
    /\ cancel /\ job.armed => late = 0
    /\ fresh => blind = 0
    /\ Seeing => blind <= 1 /\ (job.armed => blind = 0)

DockInv == DockTypeOK /\ Shape /\ LastBurst

LEMMA DistancesTyped ==
    /\ Insert \in Nat /\ Burst \in Nat /\ Burst > 0 /\ Creep \in Nat /\ Cycles \in Nat
    /\ Gap \in Nat /\ Backoff \in Nat /\ Vain \in Nat /\ Target \in Nat /\ Extra \in Nat /\ MinReverse \in Nat
    /\ ReverseExtra \in Nat /\ Fallback \in Nat /\ Room \in Nat
    /\ Ways \subseteq WayKind
BY DockingAssumption

LEMMA DockInitInv == DockingInit => DockInv
<1> SUFFICES ASSUME DockingInit
             PROVE  DockInv
  OBVIOUS
<1>1. job = [act |-> "park", way |-> "pixel", site |-> "home", steps |-> <<>>,
             stage |-> "idle", left |-> 0, sign |-> 1, armed |-> FALSE, n |-> 0,
             from |-> 0, pre |-> FALSE]
  BY DEF DockingInit, NoJob
<1>2. job \in Job
  BY <1>1 DEF Job, Act, WayKind, Site, StepName, Stage, Ended
<1>3. acct = [ins |-> 0, creep |-> 0, fwd |-> 0, over |-> 0] /\ acct \in [ins : Int, creep : Int, fwd : Nat, over : Nat]
  BY DEF DockingInit, NoAcct
<1>4. /\ at = "home" /\ depth = Insert /\ pallet = "slot" /\ fork = "low"
      /\ parked = "unknown" /\ stored = -1 /\ gate = "none"
      /\ estop = FALSE /\ cancel = FALSE /\ fresh = TRUE
      /\ late = 0 /\ blind = 0 /\ spoilt = FALSE
  BY DEF DockingInit
<1>5. DockTypeOK
  <2>1. at \in Site /\ depth \in Int
    BY <1>4, DistancesTyped DEF Site
  <2>2. stored \in Nat \cup {-1}
    BY <1>4
  <2>3. late \in Nat /\ blind \in Nat
    BY <1>4
  <2>4. /\ pallet \in {"slot", "forks"} /\ fork \in {"low", "up", "carry"}
        /\ parked \in {"yes", "no", "unknown"} /\ gate \in {"none", "plain", "aligned"}
        /\ estop \in BOOLEAN /\ cancel \in BOOLEAN /\ fresh \in BOOLEAN /\ spoilt \in BOOLEAN
    BY <1>4, Zenon
  <2> QED
    BY <1>2, <1>3, <2>1, <2>2, <2>3, <2>4, Zenon DEF DockTypeOK
<1>6. Shape
  BY <1>1, <1>3 DEF Shape, OneStep, ParkCounts, Ended
<1>7. LastBurst
  BY <1>1, <1>4 DEF LastBurst, Seeing
<1> QED
  BY <1>5, <1>6, <1>7 DEF DockInv

-----------------------------------------------------------------------------
(* What the shared steps do to the job.                                    *)

\* The command in execution remains the same.
Kept == job'.act = job.act /\ job'.way = job.way /\ job'.from = job.from

LEMMA ToEffect ==
    ASSUME job \in Job, NEW s \in Stage, To(s)
    PROVE  /\ job' \in Job /\ Kept /\ job'.steps = job.steps
           /\ job'.stage = s /\ job'.left = 0 /\ job'.armed = FALSE
BY DEF To, Job, Kept

LEMMA TravelEffect ==
    ASSUME job \in Job, NEW s \in Stage, NEW d \in Nat, NEW g \in {-1, 1}, Travel(s, d, g)
    PROVE  /\ job' \in Job /\ Kept /\ job'.steps = job.steps
           /\ job'.stage = s /\ job'.sign = g /\ job'.armed = FALSE
BY DEF Travel, Job, Kept

LEMMA StepTyped == ASSUME job \in Job PROVE Step \in Nat /\ job.left - Step \in Nat
BY DistancesTyped DEF Step, Least, Job

Flags ==
    /\ pallet \in {"slot", "forks"} /\ fork \in {"low", "up", "carry"}
    /\ parked \in {"yes", "no", "unknown"} /\ gate \in {"none", "plain", "aligned"}
    /\ estop \in BOOLEAN /\ cancel \in BOOLEAN /\ fresh \in BOOLEAN /\ spoilt \in BOOLEAN

Counts == acct \in [ins : Int, creep : Int, fwd : Nat, over : Nat] /\ stored \in Nat \cup {-1}
Base == at \in Site /\ depth \in Int

LEMMA Typed == DockTypeOK <=> /\ Flags /\ Counts /\ Base /\ job \in Job
                              /\ late \in Nat /\ blind \in Nat
BY Zenon DEF DockTypeOK, Flags, Counts, Base

LEMMA TypedNext == DockTypeOK' <=> /\ Flags' /\ Counts' /\ Base' /\ job' \in Job
                                   /\ late' \in Nat /\ blind' \in Nat
BY Zenon DEF DockTypeOK, Flags, Counts, Base

\* What holds of every action that neither moves the base nor begins or ends a
\* command: cargo, memory and counts keep their types.
Quiet ==
    /\ UNCHANGED <<at, depth, late, blind, cancel, fresh>>
    /\ Flags' /\ Counts'
    /\ job.act = "park" => acct'.ins \in Nat

LEMMA StayQuiet == ASSUME DockInv, Stay PROVE Quiet
<1>1. Flags' /\ Counts'
  BY Typed, Zenon DEF DockInv, Stay, body, cargo, memory, world, Flags, Counts
<1>2. job.act = "park" => acct'.ins \in Nat
  BY DEF DockInv, Stay, Shape, ParkCounts
<1> QED
  BY <1>1, <1>2 DEF Quiet, Stay, body, world

\* The order in which a command goes through its stages.
Onward ==
    /\ job.stage \notin Ended \cup {"next"}
    /\ job'.stage \notin Ended
    /\ job'.stage \in {"prelift", "metric"} => job.act # "park"
    /\ \/ fresh
       \/ job'.stage \in {"insert", "extra", "lift", "carry", "backout"}
       \/ job.stage \notin {"insert", "extra", "lift", "carry", "backout"}
       \/ job'.stage = "next" /\ job.act \notin {"move", "drive"}

LEMMA QuietStep ==
    ASSUME DockInv, Quiet, job' \in Job, Kept, job'.steps = job.steps, job'.armed = FALSE, Onward
    PROVE  DockInv'
<1>1. DockTypeOK'
  <2>1. late' \in Nat /\ blind' \in Nat /\ Base'
    BY Typed DEF DockInv, Quiet, Base
  <2> QED
    BY <2>1, TypedNext DEF Quiet
<1>2. OneStep' /\ (job.act \notin {"move", "drive"} => job.steps = <<>>)
  BY DEF DockInv, Shape, OneStep, Onward, Kept
<1>4. ParkCounts'
  BY DEF DockInv, Shape, ParkCounts, Onward, Kept, Quiet
<1>5. LastBurst'
  BY <1>2 DEF DockInv, LastBurst, Seeing, Onward, Quiet, Ended
<1> QED
  BY <1>1, <1>2, <1>4, <1>5 DEF DockInv, Shape

\* A command that ends.
LEMMA FinishStep ==
    ASSUME DockInv, NEW how \in Ended, Finish(how), UNCHANGED <<at, depth>>, Flags', Counts',
           acct' = acct
    PROVE  DockInv'
<1>1. /\ job' \in Job /\ Kept /\ job'.stage = how /\ job'.steps = <<>> /\ job'.armed = FALSE
      /\ job'.left = 0
  <2>1. <<>> \in Seq(StepName)
    OBVIOUS
  <2> QED
    BY <2>1, Typed DEF DockInv, Finish, Job, Kept, Stage
<1>2. cancel' = FALSE /\ late' = 0 /\ blind' = 0
  BY DEF Finish
<1>3. DockTypeOK'
  <2>1. late' \in Nat /\ blind' \in Nat /\ Base'
    BY <1>2, Typed DEF DockInv, Base
  <2> QED
    BY <1>1, <2>1, TypedNext
<1>4. Shape'
  BY <1>1 DEF DockInv, Shape, OneStep, ParkCounts, Kept, Ended
<1>5. LastBurst'
  BY <1>1, <1>2 DEF LastBurst, Seeing
<1> QED
  BY <1>3, <1>4, <1>5 DEF DockInv

LEMMA FailStep == ASSUME DockInv, Fail PROVE DockInv'
<1>1. Finish("failed") /\ UNCHANGED <<at, depth>> /\ acct' = acct
  BY DEF Fail, Break
<1>2. Flags' /\ Counts'
  <2>1. spoilt' \in BOOLEAN /\ cancel' \in BOOLEAN
    BY Zenon DEF Fail, Break, Finish
  <2> QED
    BY <2>1, Typed, Zenon DEF DockInv, Fail, cargo, memory, Flags, Counts
<1> QED
  BY <1>1, <1>2, FinishStep DEF Ended

-----------------------------------------------------------------------------
(* The actions, by what they do to the base.                               *)

LEMMA StagesKnown ==
    /\ {"next", "leave", "nav", "acquire", "align", "prelift", "center", "lift", "carry",
        "backout", "leaving", "advance", "realign", "creep", "insert", "extra", "metric", "reverse",
        "idle", "done", "failed"} = Stage
    /\ AfterAlign \in Stage
BY DEF Stage, Ended, Moving, AfterAlign

LEMMA ParkedTyped == ASSUME DockInv, NEW v \in {"yes", "no", "unknown"}, SetParked(v)
                     PROVE  parked' \in {"yes", "no", "unknown"} /\ stored' \in Nat \cup {-1}
BY Typed DEF DockInv, SetParked, Counts

\* An action that writes no more than memory, and goes on.
LEMMA ParkedQuiet ==
    ASSUME DockInv, SetParked("no"), UNCHANGED <<body, cargo, gate, acct, world>>
    PROVE  Quiet
<1>1. parked' \in {"yes", "no", "unknown"} /\ stored' \in Nat \cup {-1}
  BY ParkedTyped
<1>2. Flags' /\ Counts'
  BY <1>1, Typed, Zenon DEF DockInv, body, cargo, world, Flags, Counts
<1>3. job.act = "park" => acct'.ins \in Nat
  BY DEF DockInv, Shape, ParkCounts
<1> QED
  BY <1>2, <1>3 DEF Quiet, body, world

\* The process goes on to another stage, and nothing else changes.
LEMMA GoOnSteps ==
    ASSUME DockInv, \/ AcquireMarker \/ CreepEnds
    PROVE  DockInv'
<1>0. job \in Job
  BY Typed DEF DockInv
<1>1. CASE AcquireMarker
  <2>1. \A s \in Stage : To(s) => /\ job' \in Job /\ Kept /\ job'.steps = job.steps
                                  /\ job'.stage = s /\ job'.left = 0 /\ job'.armed = FALSE
    BY <1>0, ToEffect
  <2>2. PICK s \in {AfterAlign, "align"} : To(s) /\ (job.way = "metric" => s = AfterAlign)
    BY <1>1, Zenon DEF AcquireMarker
  <2>3. /\ job' \in Job /\ Kept /\ job'.steps = job.steps
        /\ job'.stage = s /\ job'.left = 0 /\ job'.armed = FALSE
    BY <2>1, <2>2, StagesKnown
  <2>4. Onward
    BY <1>1, <2>2, <2>3 DEF AcquireMarker, Onward, AfterAlign, Ended
  <2> QED
    BY <1>1, <2>3, <2>4, StayQuiet, QuietStep DEF AcquireMarker
<1>2. CASE CreepEnds
  <2>1. job.stage = "creep" /\ To("center") /\ Stay
    BY <1>2 DEF CreepEnds, Arrived
  <2>2. /\ job' \in Job /\ Kept /\ job'.steps = job.steps
        /\ job'.stage = "center" /\ job'.left = 0 /\ job'.armed = FALSE
    BY <1>0, <2>1, StagesKnown, ToEffect
  <2>3. Onward
    <3>1. job.stage \notin Ended \cup {"next"} /\ job'.stage \notin Ended
      BY <2>1, <2>2 DEF Ended
    <3>2. job'.stage \in {"prelift", "metric"} => job.act # "park"
      BY <2>2
    <3>3. job.stage \notin {"insert", "extra", "lift", "carry", "backout"}
      BY <2>1
    <3> QED
      BY <3>1, <3>2, <3>3 DEF Onward
  <2> QED
    BY <2>1, <2>2, <2>3, StayQuiet, QuietStep
<1> QED
  BY <1>1, <1>2

\* The approach ends, or goes back to realign and comes up again.
LEMMA ApproachSteps ==
    ASSUME DockInv, AdvanceEnds \/ RealignBegins \/ RealignEnds
    PROVE  DockInv'
<1>0. job \in Job /\ depth \in Int
  BY Typed DEF DockInv, Base
<1>1. CASE AdvanceEnds
  <2>1. /\ job' \in Job /\ Kept /\ job'.steps = job.steps
        /\ job'.stage = AfterAlign /\ job'.armed = FALSE
    BY <1>0, <1>1, StagesKnown DEF AdvanceEnds, Job, Kept
  <2>2. Onward
    BY <1>1, <2>1 DEF AdvanceEnds, AfterAlign, Onward, Ended
  <2> QED
    BY <1>1, <2>1, <2>2, StayQuiet, QuietStep DEF AdvanceEnds
<1>2. CASE RealignBegins
  <2>1. /\ job' \in Job /\ Kept /\ job'.steps = job.steps
        /\ job'.stage = "realign" /\ job'.armed = FALSE
    BY <1>0, <1>2, StagesKnown, DistancesTyped DEF RealignBegins, Job, Kept
  <2>2. Onward
    BY <1>2, <2>1 DEF RealignBegins, Onward, Ended
  <2> QED
    BY <1>2, <2>1, <2>2, StayQuiet, QuietStep DEF RealignBegins
<1>3. CASE RealignEnds
  <2>1. CASE job.way = "pixel"
    <3>1. Most(0, Gap - depth) \in Nat /\ Travel("advance", Most(0, Gap - depth), 1)
      BY <1>0, <1>3, <2>1, DistancesTyped DEF RealignEnds, Most
    <3>2. /\ job' \in Job /\ Kept /\ job'.steps = job.steps
          /\ job'.stage = "advance" /\ job'.armed = FALSE
      BY <1>0, <3>1, StagesKnown, TravelEffect
    <3>3. Onward
      BY <1>3, <3>2 DEF RealignEnds, Onward, Ended
    <3> QED
      BY <1>3, <3>2, <3>3, StayQuiet, QuietStep DEF RealignEnds
  <2>2. CASE job.way # "pixel"
    <3>1. /\ job' \in Job /\ Kept /\ job'.steps = job.steps
          /\ job'.stage = "metric" /\ job'.armed = FALSE
      BY <1>0, <1>3, <2>2, StagesKnown, ToEffect DEF RealignEnds
    <3>2. Onward
      BY <1>3, <2>2, <3>1 DEF RealignEnds, Onward, Ended, DockInv, Shape, ParkCounts
    <3> QED
      BY <1>3, <3>1, <3>2, StayQuiet, QuietStep DEF RealignEnds
  <2> QED
    BY <2>1, <2>2
<1> QED
  BY <1>1, <1>2, <1>3

\* The process sets out on a way.
LEMMA TravelSteps ==
    ASSUME DockInv, \/ LeaveBegins \/ AlignAdvances \/ Centered \/ InsertGoesOn \/ MetricBegins
                    \/ BackOut
    PROVE  DockInv'
<1>0. job \in Job /\ depth \in Int
  BY Typed DEF DockInv, Base
<1>1. CASE LeaveBegins
  <2>1. PICK sees \in Sees, room \in {Burst, depth + Room} :
           /\ job.stage = "leave" /\ Admitted /\ LeaveDistance(sees) > 5 /\ room > 20 /\ Stay
           /\ Travel("leaving", Least(room, LeaveDistance(sees)), -1)
    BY <1>1 DEF LeaveBegins
  <2>2. LeaveDistance(sees) \in Int
    BY <1>0, Typed, DistancesTyped DEF DockInv, Counts, LeaveDistance, Most
  <2>3. Least(room, LeaveDistance(sees)) \in Nat
    BY <1>0, <2>1, <2>2, DistancesTyped DEF Least
  <2>4. /\ job' \in Job /\ Kept /\ job'.steps = job.steps
        /\ job'.stage = "leaving" /\ job'.sign = -1 /\ job'.armed = FALSE
    BY <1>0, <2>1, <2>3, StagesKnown, TravelEffect
  <2>5. Onward
    BY <2>1, <2>4 DEF Onward, Ended
  <2> QED
    BY <2>1, <2>4, <2>5, StayQuiet, QuietStep
<1>2. CASE AlignAdvances
  <2>1. Gap - depth \in Nat /\ Travel("advance", Gap - depth, 1)
    BY <1>0, <1>2, DistancesTyped DEF AlignAdvances
  <2>2. /\ job' \in Job /\ Kept /\ job'.steps = job.steps
        /\ job'.stage = "advance" /\ job'.sign = 1 /\ job'.armed = FALSE
    BY <1>0, <2>1, StagesKnown, TravelEffect
  <2>3. Onward
    BY <1>2, <2>2 DEF AlignAdvances, Onward, Ended
  <2> QED
    BY <1>2, <2>2, <2>3, StayQuiet, QuietStep DEF AlignAdvances
<1>3. CASE Centered
  <2>1. /\ job' \in Job /\ Kept /\ job'.steps = job.steps
        /\ job'.stage = "insert" /\ job'.sign = 1 /\ job'.armed = FALSE
    BY <1>0, <1>3, DistancesTyped, StagesKnown, TravelEffect DEF Centered
  <2>2. Onward
    BY <1>3, <2>1 DEF Centered, Onward, Ended
  <2> QED
    BY <1>3, <2>1, <2>2, StayQuiet, QuietStep DEF Centered
<1>4. CASE InsertGoesOn
  <2>1. job.stage = "insert"
    BY <1>4 DEF InsertGoesOn, WidthStops
  <2>2. /\ job' \in Job /\ Kept /\ job'.steps = job.steps
        /\ job'.stage = "extra" /\ job'.sign = 1 /\ job'.armed = FALSE
    BY <1>0, <1>4, DistancesTyped, StagesKnown, TravelEffect DEF InsertGoesOn
  <2>3. Onward
    BY <2>1, <2>2 DEF Onward, Ended
  <2> QED
    BY <1>4, <2>2, <2>3, StayQuiet, QuietStep DEF InsertGoesOn
<1>5. CASE MetricBegins
  <2>1. Target - depth \in Nat /\ Travel("metric", Target - depth, 1)
    BY <1>0, <1>5, DistancesTyped DEF MetricBegins
  <2>2. /\ job' \in Job /\ Kept /\ job'.steps = job.steps
        /\ job'.stage = "metric" /\ job'.sign = 1 /\ job'.armed = FALSE
    BY <1>0, <2>1, StagesKnown, TravelEffect
  <2>3. Onward
    BY <1>5, <2>2 DEF MetricBegins, Onward, Ended, DockInv, Shape, ParkCounts
  <2> QED
    BY <1>5, <2>2, <2>3, StayQuiet, QuietStep DEF MetricBegins
<1>6. CASE BackOut
  <2>1. ReverseBy \in Nat
    BY Typed, DistancesTyped DEF DockInv, Counts, ReverseBy, Most
  <2>2. job.way = "metric" => WayToPose \in Nat
    BY <1>0, <1>6 DEF BackOut, WayToPose, Job
  <2>3. PICK d \in Nat : Travel("reverse", d, -1)
    BY <1>6, <2>1, <2>2 DEF BackOut
  <2>4. /\ job' \in Job /\ Kept /\ job'.steps = job.steps
        /\ job'.stage = "reverse" /\ job'.sign = -1 /\ job'.armed = FALSE
    BY <1>0, <2>3, StagesKnown, TravelEffect
  <2>5. Onward
    BY <1>6, <2>4 DEF BackOut, Admitted, Onward, Ended
  <2> QED
    BY <1>6, <2>4, <2>5, StayQuiet, QuietStep DEF BackOut
<1> QED
  BY <1>1, <1>2, <1>3, <1>4, <1>5, <1>6

\* An error ends the command.
LEMMA FailSteps ==
    ASSUME DockInv, \/ BreakBetween \/ NavFails \/ LeaveRefused \/ AcquireFails \/ AlignFails
                    \/ MotionRefused \/ LiftIsNotPrepared \/ CenterFails \/ MetricFails
                    \/ CarryFails \/ BackOutFails
    PROVE  DockInv'
<1>1. Fail
  BY DEF BreakBetween, NavFails, LeaveRefused, AcquireFails, AlignFails, MotionRefused,
     LiftIsNotPrepared, CenterFails, MetricFails, CarryFails, BackOutFails
<1> QED
  BY <1>1, FailStep

\* The command ends otherwise.
LEMMA EndSteps ==
    ASSUME DockInv, EndCommand \/ BurstRefused \/ LiftFails
    PROVE  DockInv'
<1>1. CASE EndCommand
  <2>1. gate' \in {"none", "plain", "aligned"} /\ cancel' = FALSE
    BY <1>1, Typed DEF DockInv, EndCommand, Finish, Flags
  <2>2. Flags' /\ Counts'
    BY <1>1, <2>1, Typed, Zenon DEF DockInv, EndCommand, cargo, Flags, Counts
  <2> QED
    BY <1>1, <2>2, FinishStep DEF EndCommand, Ended
<1>2. CASE BurstRefused
  <2>1. parked' \in {"yes", "no", "unknown"} /\ stored' \in Nat \cup {-1}
    <3>1. CASE SetParked("no")
      BY <3>1, ParkedTyped
    <3>2. CASE UNCHANGED <<parked, stored>>
      BY <3>2, Typed DEF DockInv, Flags, Counts
    <3> QED
      BY <1>2, <3>1, <3>2 DEF BurstRefused
  <2>2. spoilt' \in BOOLEAN /\ cancel' = FALSE /\ Finish("failed")
    BY <1>2, Zenon DEF BurstRefused, Break, Finish
  <2>3. Flags' /\ Counts'
    BY <1>2, <2>1, <2>2, Typed, Zenon DEF DockInv, BurstRefused, cargo, Flags, Counts
  <2> QED
    BY <1>2, <2>2, <2>3, FinishStep DEF BurstRefused, Ended
<1>3. CASE LiftFails
  <2>1. spoilt' \in BOOLEAN /\ cancel' = FALSE /\ Finish("failed")
    BY <1>3, Zenon DEF LiftFails, Break, Finish
  <2>2. pallet' \in {"slot", "forks"} /\ fork' \in {"low", "up", "carry"}
    BY <1>3, Typed DEF DockInv, LiftFails, Lifted, cargo, Flags
  <2>3. Flags' /\ Counts'
    BY <1>3, <2>1, <2>2, Typed, Zenon DEF DockInv, LiftFails, memory, Flags, Counts
  <2> QED
    BY <1>3, <2>1, <2>3, FinishStep DEF LiftFails, Ended
<1> QED
  BY <1>1, <1>2, <1>3

\* The robot is clear of its place.
LEMMA ClearSteps ==
    ASSUME DockInv, LeaveNot \/ LeaveEnds \/ ReverseEnds
    PROVE  DockInv'
<1>0. job \in Job
  BY Typed DEF DockInv
<1>1. /\ job.stage \in {"leave", "leaving", "reverse"} /\ To("next") /\ SetParked("no")
      /\ UNCHANGED <<body, cargo, gate, acct, world>>
  BY DEF LeaveNot, LeaveEnds, ReverseEnds, Arrived
<1>2. /\ job' \in Job /\ Kept /\ job'.steps = job.steps
      /\ job'.stage = "next" /\ job'.left = 0 /\ job'.armed = FALSE
  BY <1>0, <1>1, StagesKnown, ToEffect
<1>3. Onward
  BY <1>1, <1>2 DEF Onward, Ended
<1> QED
  BY <1>1, <1>2, <1>3, ParkedQuiet, QuietStep

\* The robot turns, or creeps, before it inserts.
LEMMA TurnSteps ==
    ASSUME DockInv, AlignTurns \/ CenterTurns \/ \E sign \in {-1, 1} : CenterCreeps(sign)
    PROVE  DockInv'
<1>0. job \in Job /\ (job.stage \in {"align", "center"} => ~job.armed)
  BY Typed DEF DockInv, LastBurst, Moving
<1>1. CASE AlignTurns
  <2>1. /\ job' \in Job /\ Kept /\ job'.steps = job.steps
        /\ job'.stage = AfterAlign /\ job'.armed = FALSE
    BY <1>0, <1>1, StagesKnown DEF AlignTurns, Job, Kept
  <2>2. Onward
    BY <1>1, <2>1 DEF AlignTurns, AfterAlign, Onward, Ended
  <2> QED
    BY <1>1, <2>1, <2>2, StayQuiet, QuietStep DEF AlignTurns
<1>2. CASE CenterTurns
  <2>1. /\ job' \in Job /\ Kept /\ job'.steps = job.steps
        /\ job'.stage = "center" /\ job'.armed = FALSE
    BY <1>0, <1>2 DEF CenterTurns, Job, Kept
  <2>2. Onward
    BY <1>2, <2>1 DEF CenterTurns, Onward, Ended
  <2> QED
    BY <1>2, <2>1, <2>2, StayQuiet, QuietStep DEF CenterTurns
<1>3. ASSUME NEW sign \in {-1, 1}, CenterCreeps(sign)
      PROVE  DockInv'
  <2>1. /\ job' \in Job /\ Kept /\ job'.steps = job.steps
        /\ job'.stage = "creep" /\ job'.armed = FALSE
    <3>1. job' = [job EXCEPT !.stage = "creep", !.left = Creep, !.sign = sign, !.n = @ + 1]
      BY <1>3 DEF CenterCreeps
    <3>2. "creep" \in Stage /\ Creep \in Nat /\ job.n + 1 \in Nat /\ ~job.armed
      <4>1. job.n + 1 \in Nat
        BY <1>0 DEF Job
      <4>2. "creep" \in Stage /\ Creep \in Nat
        BY DistancesTyped DEF Stage, Moving
      <4> QED
        BY <1>0, <1>3, <4>1, <4>2 DEF CenterCreeps
    <3>3. job' \in Job
      BY <1>0, <3>1, <3>2 DEF Job
    <3> QED
      BY <1>0, <3>1, <3>2, <3>3 DEF Job, Kept
  <2>2. Onward
    BY <1>3, <2>1 DEF CenterCreeps, Onward, Ended
  <2> QED
    BY <1>3, <2>1, <2>2, StayQuiet, QuietStep DEF CenterCreeps
<1> QED
  BY <1>1, <1>2, <1>3

\* The insertion ends, by the width of the marker or at its target.
LEMMA InsertedSteps ==
    ASSUME DockInv, InsertEnds \/ MetricEnds
    PROVE  DockInv'
<1>0. job \in Job
  BY Typed DEF DockInv
<1>1. CASE InsertEnds
  <2>1. job.stage \in {"insert", "extra"}
    BY <1>1 DEF InsertEnds, Inserted
  <2>2. PICK s \in {"next", "lift"} : To(s) /\ (s = "next" => job.act = "park")
    BY <1>1 DEF InsertEnds
  <2>3. /\ job' \in Job /\ Kept /\ job'.steps = job.steps
        /\ job'.stage = s /\ job'.left = 0 /\ job'.armed = FALSE
    BY <1>0, <2>2, StagesKnown, ToEffect
  <2>4. parked' \in {"yes", "no", "unknown"} /\ stored' \in Nat \cup {-1}
    BY <1>1, Typed DEF InsertEnds, DockInv, Flags, Counts, Shape, ParkCounts
  <2>5. Flags' /\ Counts'
    BY <1>1, <2>4, Typed, Zenon DEF DockInv, InsertEnds, body, cargo, world, Flags, Counts
  <2>6. Quiet
    BY <1>1, <2>5 DEF DockInv, Shape, ParkCounts, InsertEnds, body, world, Quiet
  <2>7. Onward
    BY <2>1, <2>2, <2>3 DEF Onward, Ended
  <2> QED
    BY <2>3, <2>6, <2>7, QuietStep
<1>2. CASE MetricEnds
  <2>1. job.stage = "metric" /\ To("lift")
    BY <1>2 DEF MetricEnds, Arrived
  <2>2. /\ job' \in Job /\ Kept /\ job'.steps = job.steps
        /\ job'.stage = "lift" /\ job'.left = 0 /\ job'.armed = FALSE
    BY <1>0, <2>1, StagesKnown, ToEffect
  <2>3. acct' \in [ins : Int, creep : Int, fwd : Nat, over : Nat]
    <3>1. /\ acct' = [acct EXCEPT !.ins = depth - job.from] /\ depth - job.from \in Int
          /\ acct \in [ins : Int, creep : Int, fwd : Nat, over : Nat]
      BY <1>0, <1>2, Typed DEF MetricEnds, DockInv, Base, Counts, Job
    <3> QED
      BY <3>1
  <2>4. Flags' /\ Counts'
    BY <1>2, <2>3, Typed, Zenon DEF DockInv, MetricEnds, body, cargo, memory, world, Flags, Counts
  <2>5. job.act # "park"
    BY <2>1 DEF DockInv, Shape, ParkCounts
  <2>6. Quiet
    BY <1>2, <2>4, <2>5 DEF MetricEnds, body, world, Quiet
  <2>7. Onward
    BY <2>1, <2>2 DEF Onward, Ended
  <2> QED
    BY <2>2, <2>6, <2>7, QuietStep
<1> QED
  BY <1>1, <1>2

\* The forks move.
LEMMA LiftSteps ==
    ASSUME DockInv, LiftIsPrepared \/ LiftMoves \/ CarryMoves
    PROVE  DockInv'
<1>0. job \in Job
  BY Typed DEF DockInv
<1>1. pallet' \in {"slot", "forks"} /\ fork' \in {"low", "up", "carry"}
  BY Typed DEF DockInv, LiftIsPrepared, LiftMoves, CarryMoves, Lifted, Flags
<1>2. UNCHANGED <<body, memory, acct, world>>
  BY DEF LiftIsPrepared, LiftMoves, CarryMoves
<1>3. Flags' /\ Counts'
  BY <1>1, <1>2, Typed, Zenon DEF DockInv, body, memory, world, Flags, Counts
<1>4. Quiet
  BY <1>2, <1>3 DEF DockInv, Shape, ParkCounts, body, world, Quiet
<1>5. PICK s \in {"center", "metric", "carry", "backout"} :
         /\ To(s) /\ job.stage \in {"prelift", "lift", "carry"}
         /\ s \in {"center", "metric"} => job.stage = "prelift"
         /\ s = "center" => job.way = "pixel"
  BY DEF LiftIsPrepared, LiftMoves, CarryMoves
<1>6. /\ job' \in Job /\ Kept /\ job'.steps = job.steps
      /\ job'.stage = s /\ job'.left = 0 /\ job'.armed = FALSE
  BY <1>0, <1>5, StagesKnown, ToEffect
<1>7. job.stage = "prelift" => job.act # "park"
  BY DEF DockInv, Shape, ParkCounts
<1>8. Onward
  BY <1>5, <1>6, <1>7 DEF Onward, Ended
<1> QED
  BY <1>4, <1>6, <1>8, QuietStep

-----------------------------------------------------------------------------
(* Bursts.                                                                 *)

LEMMA ArmStep == ASSUME DockInv, Arm PROVE DockInv'
<1>1. /\ job' \in Job /\ Kept /\ job'.steps = job.steps /\ job'.stage = job.stage
      /\ job'.left = job.left /\ job'.sign = job.sign
  BY Typed DEF DockInv, Arm, Job, Kept
<1>2. /\ job.stage \in Moving /\ ~cancel /\ (job.stage \in Gated => fresh)
      /\ UNCHANGED <<at, depth, acct, late, blind, cancel, fresh>>
  BY DEF Arm, MayArm, Admitted, Stay, body, world
<1>3. DockTypeOK'
  <2>1. Flags' /\ Counts'
    BY Typed, Zenon DEF DockInv, Arm, Stay, body, cargo, memory, world, Flags, Counts
  <2>2. Base' /\ late' \in Nat /\ blind' \in Nat
    BY <1>2, Typed DEF DockInv, Base
  <2> QED
    BY <1>1, <2>1, <2>2, TypedNext
<1>4. Shape'
  BY <1>1, <1>2 DEF DockInv, Shape, OneStep, ParkCounts, Kept
<1>5. LastBurst'
  BY <1>1, <1>2 DEF DockInv, LastBurst, Seeing, Gated, Moving
<1> QED
  BY <1>3, <1>4, <1>5 DEF DockInv

LEMMA CountedTyped ==
    ASSUME DockInv
    PROVE  /\ Counted(Step) \in [ins : Int, creep : Int, fwd : Nat, over : Nat]
           /\ CountedInVain(Step) \in [ins : Int, creep : Int, fwd : Nat, over : Nat]
           /\ job.act = "park" => Counted(Step).ins \in Nat /\ CountedInVain(Step).ins \in Nat
<1>1. /\ Step \in Nat /\ acct \in [ins : Int, creep : Int, fwd : Nat, over : Nat] /\ job.sign \in {-1, 1}
      /\ job.act = "park" => acct.ins \in Nat
  BY Typed, StepTyped DEF DockInv, Counts, Shape, ParkCounts, Job
<1>2. job.sign * Step \in Int
  BY <1>1
<1>3. CASE job.stage \in {"insert", "extra"}
  <2>1. Counted(Step) = [acct EXCEPT !.ins = @ + Step] /\ CountedInVain(Step) = acct
    BY <1>3 DEF Counted, CountedInVain
  <2> QED
    BY <1>1, <2>1
<1>4. CASE job.stage \in {"advance", "metric"}
  <2>1. /\ Counted(Step) = [acct EXCEPT !.fwd = @ + Step]
        /\ CountedInVain(Step) = [acct EXCEPT !.fwd = acct.fwd + Step, !.over = acct.over + Step]
    BY <1>4 DEF Counted, CountedInVain
  <2>2. acct.fwd + Step \in Nat /\ acct.over + Step \in Nat
    BY <1>1
  <2>3. /\ Counted(Step) \in [ins : Int, creep : Int, fwd : Nat, over : Nat]
        /\ Counted(Step).ins = acct.ins
    BY <1>1, <2>1
  <2>4. /\ CountedInVain(Step) \in [ins : Int, creep : Int, fwd : Nat, over : Nat]
        /\ CountedInVain(Step).ins = acct.ins
    BY <1>1, <2>1, <2>2
  <2> QED
    BY <1>1, <2>3, <2>4
<1>5. CASE job.stage = "creep"
  <2>1. /\ Counted(Step) = [acct EXCEPT !.creep = acct.creep + job.sign * Step]
        /\ CountedInVain(Step) = Counted(Step)
    BY <1>5 DEF Counted, CountedInVain
  <2>2. acct.creep + job.sign * Step \in Int
    BY <1>1, <1>2
  <2>3. /\ Counted(Step) \in [ins : Int, creep : Int, fwd : Nat, over : Nat]
        /\ Counted(Step).ins = acct.ins
    BY <1>1, <2>1, <2>2
  <2> QED
    BY <1>1, <2>1, <2>3
<1>6. CASE job.stage = "realign"
  <2>1. Counted(Step) = [acct EXCEPT !.over = @ + Step] /\ CountedInVain(Step) = acct
    BY <1>6 DEF Counted, CountedInVain
  <2> QED
    BY <1>1, <2>1
<1>7. CASE job.stage \notin {"insert", "extra", "advance", "metric", "creep", "realign"}
  <2>1. Counted(Step) = acct /\ CountedInVain(Step) = acct
    BY <1>7 DEF Counted, CountedInVain
  <2> QED
    BY <1>1, <2>1
<1> QED
  BY <1>3, <1>4, <1>5, <1>6, <1>7

\* The base moves: once after a cancel, and once without sensors unless it
\* inserts by the width of the marker.
LEMMA MoveStep ==
    ASSUME DockInv, Move1
    PROVE  DockInv' /\ (job.stage \in Gated => blind' <= 1)
<1>1. /\ job \in Job /\ Step \in Nat /\ job.left - Step \in Nat
      /\ late \in Nat /\ blind \in Nat /\ depth \in Int
  BY Typed, StepTyped DEF DockInv, Base
<1>2. /\ job' \in Job /\ Kept /\ job'.steps = job.steps /\ job'.stage = job.stage
      /\ job'.left = job.left - Step /\ job'.sign = job.sign /\ job'.armed = FALSE
  <2>1. job' = [job EXCEPT !.left = job.left - Step, !.armed = FALSE]
    BY DEF Move1, Stepped
  <2> QED
    BY <1>1, <2>1 DEF Job, Kept
<1>3. /\ job.stage \in Moving /\ job.armed /\ acct' = Counted(Step)
      /\ depth' = depth + job.sign * Step /\ at' = at
      /\ late' = IF cancel THEN late + 1 ELSE 0
      /\ blind' = IF fresh THEN 0 ELSE blind + 1
      /\ cancel' = cancel /\ fresh' = fresh
  BY DEF Move1, Roll, world
<1>4. job.sign * Step \in Int
  BY <1>1 DEF Job
<1>5. late' \in Nat /\ blind' \in Nat
  <2>1. CASE cancel
    BY <1>1, <1>3, <2>1
  <2>2. CASE ~cancel
    BY <1>1, <1>3, <2>2
  <2>3. CASE fresh
    BY <1>1, <1>3, <2>3
  <2>4. CASE ~fresh
    BY <1>1, <1>3, <2>4
  <2>5. late' \in Nat
    BY <2>1, <2>2
  <2>6. blind' \in Nat
    BY <2>3, <2>4
  <2> QED
    BY <2>5, <2>6
<1>6. DockTypeOK'
  <2>1. spoilt' \in BOOLEAN
    BY Zenon DEF Move1, Roll
  <2>2. Flags'
    BY <2>1, Typed, Zenon DEF DockInv, Move1, cargo, memory, world, Flags
  <2>3. Counts'
    BY <1>3, Typed, CountedTyped DEF DockInv, Move1, memory, Counts
  <2>4. Base'
    BY <1>1, <1>3, <1>4, Typed DEF DockInv, Base
  <2> QED
    BY <1>2, <1>5, <2>2, <2>3, <2>4, TypedNext
<1>7. Shape'
  <2>1. OneStep'
    BY <1>2 DEF DockInv, Shape, OneStep, Kept
  <2>2. ParkCounts'
    BY <1>2, <1>3, CountedTyped DEF DockInv, Shape, ParkCounts, Kept
  <2> QED
    BY <2>1, <2>2 DEF Shape
<1>8. LastBurst' /\ (job.stage \in Gated => blind' <= 1)
  <2>1. CASE cancel
    BY <1>1, <1>2, <1>3, <2>1 DEF DockInv, LastBurst, Seeing, Gated, Moving
  <2>2. CASE ~cancel
    BY <1>1, <1>2, <1>3, <2>2 DEF DockInv, LastBurst, Seeing, Gated, Moving
  <2> QED
    BY <2>1, <2>2
<1> QED
  BY <1>6, <1>7, <1>8 DEF DockInv

LEMMA IgnoredStep == ASSUME DockInv, BurstIgnored PROVE DockInv'
<1>0. job \in Job /\ job.stage \in {"advance", "realign", "metric", "creep"}
  BY Typed DEF DockInv, BurstIgnored, Approaches
<1>1. /\ job' \in Job /\ Kept /\ job'.steps = job.steps /\ job'.stage = job.stage
      /\ job'.armed = FALSE
  <2>1. job' = [job EXCEPT !.armed = FALSE, !.left = IF job.stage = "creep" THEN 0 ELSE job.left]
    BY DEF BurstIgnored
  <2> QED
    BY <1>0, <2>1 DEF Job, Kept
<1>2. Counts' /\ (job.act = "park" => acct'.ins \in Nat)
  BY Typed, CountedTyped DEF DockInv, BurstIgnored, memory, Counts
<1>3. Flags'
  BY Typed, Zenon DEF DockInv, BurstIgnored, body, cargo, memory, world, Flags
<1>4. Quiet
  BY <1>2, <1>3 DEF BurstIgnored, body, world, Quiet
<1>5. job.stage = "metric" => job.act # "park"
  BY DEF DockInv, Shape, ParkCounts
<1>6. DockTypeOK'
  <2>1. late' \in Nat /\ blind' \in Nat /\ Base'
    BY <1>4, Typed DEF DockInv, Quiet, Base
  <2> QED
    BY <1>1, <1>2, <1>3, <2>1, TypedNext
<1>7. Shape'
  BY <1>0, <1>1, <1>4, <1>5 DEF DockInv, Shape, OneStep, ParkCounts,
     Kept, Quiet
<1>8. LastBurst'
  BY <1>0, <1>1, <1>4 DEF DockInv, LastBurst, Seeing, Quiet
<1> QED
  BY <1>6, <1>7, <1>8 DEF DockInv

-----------------------------------------------------------------------------
(* Commands, their steps, and what upsets them.                            *)

LEMMA CommandStep ==
    ASSUME DockInv, NEW act \in Act, NEW way \in WayKind, NEW site \in Site,
           NEW steps \in Seq(StepName), Command(act, way, site, steps),
           gate' \in {"none", "plain", "aligned"},
           act \notin {"move", "drive"} => Tail(steps) = <<>>,
           act = "park" => way = "pixel"
    PROVE  DockInv'
<1>1. /\ job' = [act |-> act, way |-> way, site |-> site, steps |-> steps, stage |-> "next",
                 left |-> 0, sign |-> 1, armed |-> FALSE, n |-> 0, from |-> depth,
                 pre |-> (gate = "aligned" /\ act \in {"park", "load", "unload"})]
      /\ job.stage \in Ended
  BY DEF Command, NoJob, Running
<1>2. acct' = [ins |-> 0, creep |-> 0, fwd |-> 0, over |-> 0]
  BY DEF Command, NoAcct
<1>3. UNCHANGED <<at, depth, late, blind, spoilt, pallet, fork, parked, stored, estop, cancel, fresh>>
  BY DEF Command, body, cargo, world
<1>4. job' \in Job
  <2>1. (gate = "aligned" /\ act \in {"park", "load", "unload"}) \in BOOLEAN
    BY Zenon
  <2>2. "next" \in Stage /\ depth \in Int
    BY Typed DEF DockInv, Base, Stage
  <2> QED
    BY <1>1, <2>1, <2>2 DEF Job
<1>5. DockTypeOK'
  <2>1. Flags'
    BY <1>3, Typed, Zenon DEF DockInv, Flags
  <2>2. Counts' /\ Base' /\ late' \in Nat /\ blind' \in Nat
    BY <1>2, <1>3, Typed DEF DockInv, Counts, Base
  <2> QED
    BY <1>4, <2>1, <2>2, TypedNext
<1>6. depth' = depth /\ depth \in Int
  BY <1>3, Typed DEF DockInv, Base
<1>7. Shape'
  <2>1. /\ job'.act = act /\ job'.way = way /\ job'.steps = steps /\ job'.stage = "next"
        /\ job'.left = 0 /\ job'.from = depth
    BY <1>1
  <2> QED
    BY <1>2, <1>6, <2>1 DEF Shape, OneStep, ParkCounts
<1>8. LastBurst'
  <2>1. job'.stage = "next" /\ job'.armed = FALSE
    BY <1>1
  <2> QED
    BY <1>1, <1>3, <2>1 DEF DockInv, LastBurst, Seeing, Ended
<1> QED
  BY <1>5, <1>7, <1>8 DEF DockInv

LEMMA RequestStep == ASSUME DockInv, Request PROVE DockInv'
<1>0. gate \in {"none", "plain", "aligned"}
  BY Typed DEF DockInv, Flags
<1>1. ASSUME NEW site \in Site, Move(site) \/ Drive(site)
      PROVE  DockInv'
  <2>1. PICK act \in {"move", "drive"}, steps \in Approach :
           Command(act, "pixel", site, LeaveFirst(steps)) /\ gate' = gate
    BY <1>1 DEF Move, Drive
  <2>2. steps \in Seq(StepName) /\ <<"leave">> \in Seq(StepName)
    <3>1. <<"nav">> \in Seq(StepName) /\ <<"leave">> \in Seq(StepName)
      BY DEF StepName
    <3>2. <<"nav", "align">> \in Seq(StepName)
      BY DEF StepName
    <3> QED
      BY <3>1, <3>2 DEF Approach
  <2>3. LeaveFirst(steps) \in Seq(StepName)
    BY <2>2 DEF LeaveFirst
  <2> QED
    BY <1>0, <2>1, <2>3, CommandStep DEF Act, WayKind
<1>2. CASE Leave
  <2>1. <<"leave">> \in Seq(StepName) /\ Tail(<<"leave">>) = <<>>
    BY DEF StepName
  <2> QED
    BY <1>0, <1>2, <2>1, CommandStep DEF Leave, Act, WayKind, Site
<1>3. CASE Park
  <2>1. <<"park">> \in Seq(StepName) /\ Tail(<<"park">>) = <<>>
    BY DEF StepName
  <2> QED
    BY <1>3, <2>1, CommandStep DEF Park, Act, WayKind, Site
<1>4. CASE ReverseOut
  <2>1. <<"out">> \in Seq(StepName) /\ Tail(<<"out">>) = <<>>
    BY DEF StepName
  <2> QED
    BY <1>0, <1>4, <2>1, CommandStep DEF ReverseOut, Act, WayKind, Site
<1>5. ASSUME NEW act \in {"load", "unload"}, NEW way \in Ways, Dock(act, way)
      PROVE  DockInv'
  <2>1. <<"dock">> \in Seq(StepName) /\ Tail(<<"dock">>) = <<>>
    BY DEF StepName
  <2>2. act \in Act /\ way \in WayKind
    BY DistancesTyped DEF Act
  <2> QED
    BY <1>5, <2>1, <2>2, CommandStep DEF Dock, Site
<1> QED
  BY <1>1, <1>2, <1>3, <1>4, <1>5 DEF Request

\* The step that a command begins; only a drive has another behind it.
LEMMA BeginStepKeeps == ASSUME DockInv, BeginStep PROVE DockInv'
<1>0. job \in Job /\ job.stage = "next" /\ job.steps # <<>> /\ job.steps \in Seq(StepName)
  BY Typed DEF DockInv, BeginStep, Job
<1>1. PICK s \in {"leave", "nav", "backout", "acquire"} :
         /\ job' = [job EXCEPT !.steps = Tail(@), !.n = 0, !.stage = s]
         /\ s = "backout" <=> Head(job.steps) = "out"
         /\ Head(job.steps) = "dock" => s = "acquire"
  <2> DEFINE s == CASE Head(job.steps) = "leave" -> "leave"
                    [] Head(job.steps) = "nav" -> "nav"
                    [] Head(job.steps) = "out" -> "backout"
                    [] OTHER -> "acquire"
  <2>1. job' = [job EXCEPT !.steps = Tail(@), !.n = 0, !.stage = s]
    BY DEF BeginStep
  <2>2. /\ s \in {"leave", "nav", "backout", "acquire"}
        /\ s = "backout" <=> Head(job.steps) = "out"
        /\ Head(job.steps) = "dock" => s = "acquire"
    OBVIOUS
  <2> HIDE DEF s
  <2> QED
    BY <2>1, <2>2
<1>2. /\ job' \in Job /\ Kept /\ job'.steps = Tail(job.steps) /\ job'.stage = s
      /\ job'.left = job.left /\ job'.sign = job.sign /\ job'.armed = job.armed
  <2>1. Tail(job.steps) \in Seq(StepName) /\ s \in Stage
    BY <1>0, StagesKnown
  <2> QED
    BY <1>0, <1>1, <2>1 DEF Job, Kept
<1>3. UNCHANGED <<at, depth, late, blind, cancel, fresh>>
  BY DEF BeginStep, body, world
<1>4. /\ acct' \in [ins : Int, creep : Int, fwd : Nat, over : Nat]
      /\ job.act = "park" => acct'.ins \in Nat
  <2>1. CASE Head(job.steps) = "out"
    <3>1. acct' = [ins |-> Insert, creep |-> 0, fwd |-> 0, over |-> 0]
      BY <2>1 DEF BeginStep, NoAcct
    <3> QED
      BY <3>1, DistancesTyped
  <2>2. CASE Head(job.steps) # "out"
    <3>1. acct' = acct
      BY <2>2 DEF BeginStep
    <3> QED
      BY <3>1, Typed DEF DockInv, Counts, Shape, ParkCounts
  <2> QED
    BY <2>1, <2>2
<1>5. DockTypeOK'
  <2>1. Flags'
    BY Typed, Zenon DEF DockInv, BeginStep, body, cargo, memory, world, Flags
  <2>2. Counts'
    BY <1>4, Typed DEF DockInv, BeginStep, memory, Counts
  <2>3. Base' /\ late' \in Nat /\ blind' \in Nat
    BY <1>3, Typed DEF DockInv, Base
  <2> QED
    BY <1>2, <2>1, <2>2, <2>3, TypedNext
<1>6. Shape'
  <2>1. OneStep'
    BY <1>0, <1>2 DEF DockInv, Shape, OneStep, Kept
  <2>2. ParkCounts'
    BY <1>1, <1>2, <1>4 DEF DockInv, Shape, ParkCounts, Kept
  <2> QED
    BY <2>1, <2>2 DEF Shape
<1>7. LastBurst'
  <2>1. ~job.armed
    BY <1>0 DEF DockInv, LastBurst, Moving
  <2> QED
    BY <1>0, <1>1, <1>2, <1>3, <2>1 DEF DockInv, LastBurst, Seeing
<1> QED
  BY <1>5, <1>6, <1>7 DEF DockInv

LEMMA NavArrivesKeeps == ASSUME DockInv, NavArrives PROVE DockInv'
<1>0. job \in Job /\ job.stage = "nav" /\ To("next") /\ SetParked("no")
  BY Typed DEF DockInv, NavArrives
<1>1. /\ job' \in Job /\ Kept /\ job'.steps = job.steps
      /\ job'.stage = "next" /\ job'.left = 0 /\ job'.armed = FALSE
  BY <1>0, StagesKnown, ToEffect
<1>2. /\ depth' = 0 /\ at' = job.site /\ spoilt' = FALSE
      /\ UNCHANGED <<late, blind, acct, cancel, fresh>>
  BY DEF NavArrives, world
<1>3. DockTypeOK'
  <2>1. parked' \in {"yes", "no", "unknown"} /\ stored' \in Nat \cup {-1}
    BY <1>0, ParkedTyped
  <2>2. Flags'
    BY <1>2, <2>1, Typed, Zenon DEF DockInv, NavArrives, cargo, world, Flags
  <2>3. Counts' /\ Base' /\ late' \in Nat /\ blind' \in Nat
    BY <1>0, <1>2, <2>1, Typed DEF DockInv, Counts, Base, Job
  <2> QED
    BY <1>1, <2>2, <2>3, TypedNext
<1>5. Shape'
  BY <1>0, <1>1, <1>2 DEF DockInv, Shape, OneStep, ParkCounts, Kept
<1>6. LastBurst'
  BY <1>0, <1>1, <1>2 DEF DockInv, LastBurst, Seeing
<1> QED
  BY <1>3, <1>5, <1>6 DEF DockInv

LEMMA UpsetStep == ASSUME DockInv, Upset \/ UNCHANGED dockVars PROVE DockInv'
<1>1. /\ job' = job /\ acct' = acct /\ at' = at /\ depth' = depth
  BY DEF Upset, Cancel, PressEstop, ClearEstop, SensorsStale, SensorsBack, Restart, body, dockVars
<1>2. Flags' /\ Counts'
  <2>1. CASE Cancel
    BY <2>1, Typed, Zenon DEF DockInv, Cancel, body, cargo, memory, Flags, Counts
  <2>2. CASE PressEstop
    BY <2>2, Typed, Zenon DEF DockInv, PressEstop, body, cargo, memory, Flags, Counts
  <2>3. CASE ClearEstop
    BY <2>3, Typed, Zenon DEF DockInv, ClearEstop, body, cargo, memory, Flags, Counts
  <2>4. CASE SensorsStale
    BY <2>4, Typed, Zenon DEF DockInv, SensorsStale, body, cargo, memory, Flags, Counts
  <2>5. CASE SensorsBack
    BY <2>5, Typed, Zenon DEF DockInv, SensorsBack, cargo, memory, Flags, Counts
  <2>6. CASE Restart
    <3>1. parked' \in {"yes", "no", "unknown"} /\ stored' \in Nat \cup {-1}
      BY <2>6, ParkedTyped DEF Restart
    <3>2. estop' \in BOOLEAN /\ gate' \in {"none", "plain", "aligned"}
      BY <2>6, Zenon DEF Restart
    <3> QED
      BY <2>6, <3>1, <3>2, Typed, Zenon DEF DockInv, Restart, body, cargo, Flags, Counts
  <2>7. CASE UNCHANGED dockVars
    BY <2>7, Typed, Zenon DEF DockInv, dockVars, Flags, Counts
  <2> QED
    BY <2>1, <2>2, <2>3, <2>4, <2>5, <2>6, <2>7 DEF Upset
<1>3. late' \in Nat /\ blind' \in Nat /\ late' = late /\ (blind' = blind \/ blind' = 0)
  BY Typed DEF DockInv, Upset, Cancel, PressEstop, ClearEstop, SensorsStale, SensorsBack, Restart,
     body, dockVars
<1>4. DockTypeOK'
  BY <1>1, <1>2, <1>3, Typed, TypedNext DEF DockInv, Base
<1>5. Shape'
  BY <1>1 DEF DockInv, Shape, OneStep, ParkCounts
<1>6. /\ cancel' = cancel \/ ~cancel
      /\ fresh' = fresh \/ (fresh /\ blind' = blind) \/ blind' = 0
  BY DEF Upset, Cancel, PressEstop, ClearEstop, SensorsStale, SensorsBack, Restart,
     body, world, dockVars
<1>7. LastBurst'
  BY <1>1, <1>3, <1>6 DEF DockInv, LastBurst, Seeing
<1> QED
  BY <1>4, <1>5, <1>7 DEF DockInv

-----------------------------------------------------------------------------
(* The theorems.                                                           *)

LEMMA DockStep == ASSUME DockInv, [DockingNext]_dockVars PROVE DockInv'
<1>1. CASE ActuatorStep
  BY <1>1, BeginStepKeeps, NavArrivesKeeps, FailSteps, EndSteps, ClearSteps, TurnSteps, GoOnSteps,
     ApproachSteps, TravelSteps, InsertedSteps, LiftSteps, ArmStep, MoveStep, IgnoredStep DEF ActuatorStep
<1>2. CASE Request
  BY <1>2, RequestStep
<1>3. CASE Upset \/ UNCHANGED dockVars
  BY <1>3, UpsetStep
<1> QED
  BY <1>1, <1>2, <1>3 DEF DockingNext

LEMMA DockInvariant == DockingSpec => []DockInv
BY DockInitInv, DockStep, PTL DEF DockingSpec

\* Every variable keeps its type, whatever goes wrong; in particular no way that
\* is driven and no distance that a leave will take from the memory is negative.
THEOREM DockTypeCorrect == DockingSpec => []DockTypeOK
<1>1. DockInv => DockTypeOK
  BY DEF DockInv
<1> QED
  BY <1>1, DockInvariant, PTL

\* However a cancel meets the bursts of a command, whatever the distances and
\* the way of insertion, at most the burst that was admitted before it is driven
\* after it (_publish_docking_velocity, raise_if_command_canceled).
THEOREM CancelStopsBase == DockingSpec => []CanceledBaseStops
<1>1. DockInv => CanceledBaseStops
  BY DEF DockInv, LastBurst, CanceledBaseStops
<1> QED
  BY <1>1, DockInvariant, PTL

\* Once scan, TF or pose are too old, at most the burst that was admitted before
\* is driven, in every motion but the insertion by the width of the marker
\* (require_docking_motion_freshness).
THEOREM StaleStopsBase == DockingSpec => BlindBaseStops
<1>1. ASSUME DockInv, [DockingNext]_dockVars,
             depth' # depth, at' = at, job.stage \in Gated
      PROVE  blind' <= 1
  <2>1. CASE Move1
    BY <1>1, <2>1, MoveStep
  <2>2. CASE ~Move1
    BY <1>1, <2>2 DEF DockingNext, ActuatorStep, Request, Upset, Gated, Moving,
       BeginStep, BreakBetween, EndCommand, NavArrives, NavFails, Fail, Break,
       LeaveNot, LeaveBegins, LeaveRefused, LeaveEnds, AcquireMarker, AcquireFails,
       AlignTurns, AlignAdvances, AlignFails, AdvanceEnds, RealignBegins, RealignEnds, Arm, MotionRefused,
       BurstIgnored, BurstRefused, LiftIsPrepared, LiftIsNotPrepared, Centered, CenterTurns,
       CenterCreeps, CreepEnds, CenterFails, InsertEnds, InsertGoesOn, MetricBegins, MetricFails,
       MetricEnds, LiftMoves, LiftFails, CarryMoves, CarryFails, BackOut, BackOutFails, ReverseEnds,
       Move, Drive, Leave, Park, ReverseOut, Dock, Command, Cancel, PressEstop, ClearEstop,
       SensorsStale, SensorsBack, Restart, Stay, body, dockVars
  <2> QED
    BY <2>1, <2>2
<1>2. DockInv /\ [DockingNext]_dockVars
        => [depth' # depth /\ at' = at /\ job.stage \in Gated => blind' <= 1]_dockVars
  BY <1>1
<1> QED
  BY <1>2, DockInvariant, PTL DEF DockingSpec, BlindBaseStops
=============================================================================
