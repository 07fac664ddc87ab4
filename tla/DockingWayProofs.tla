-------------------------- MODULE DockingWayProofs --------------------------
(***************************************************************************)
(* What the bookkeeping of the docking steps is worth: a transfer that     *)
(* reports DONE has moved the pallet and is back where it began, and Nav2  *)
(* takes over a robot outside of its dock, for any distances that fit each *)
(* other.                                                                  *)
(***************************************************************************)
EXTENDS DockingProofs

\* The distances fit, and no insertion is measured by the camera, which counts
\* the way in twice.
Fit == InsertionFits /\ "camera" \notin Ways

Drives == {"move", "drive"}
Transfers == {"load", "unload"}
Inserts == Transfers \cup {"park"}

\* The creeps of n cycles.
Sway(n) == n * Creep

\* Where Nav2 leaves a robot.
Outside == depth = 0 /\ parked = "no" /\ ~spoilt

LeaveHead == job.steps # <<>> /\ Head(job.steps) = "leave"

\* A drive goes through its steps in their order, and stands outside once Nav2
\* is done with it.
DriveForm == job.act \in Drives =>
    /\ job.stage \in Ended \cup {"next", "leave", "leaving", "nav", "acquire", "align"}
    /\ job.stage \in {"leave", "leaving"} => job.steps \in Approach
    /\ job.stage = "nav" => job.steps \in {<<>>, <<"align">>}
    /\ job.stage \in {"acquire", "align"} => job.steps = <<>> /\ Outside
    /\ job.stage = "next" =>
          \/ job.steps \in Approach
          \/ LeaveHead /\ Tail(job.steps) \in Approach
          \/ job.steps \in {<<>>, <<"align">>} /\ Outside

LeaveForm == job.act = "leave" =>
    /\ job.stage \in Ended \cup {"next", "leave", "leaving"}
    /\ job.stage = "next" => job.steps \in {<<>>, <<"leave">>}

\* While a gate is kept the robot stays where Nav2 has left it.
GateOutside == gate # "none" =>
    /\ Outside
    /\ \/ ~Running
       \/ job.act \in Drives \cup {"leave"} /\ job.stage # "leaving"

GateForm == DriveForm /\ LeaveForm /\ GateOutside

\* Where the approach has brought the robot: what it counted, less what of that
\* was not driven and what it was backed to realign.
Ahead == acct.fwd - acct.over
Near == Ahead <= Gap /\ Ahead >= -Backoff

\* The way that the base has made is the one that was counted, but for that.
Exact == depth = acct.ins + acct.creep + Ahead

\* A burst was counted and not made: with the E-stop pressed, and for as long as
\* it is, no other burst is admitted.
Halted == estop /\ job.left > 0 /\ ~job.armed

Crept ==
    /\ job.n <= Cycles
    /\ acct.creep <= Sway(job.n) /\ -acct.creep <= Sway(job.n)

AtStart == depth = 0 /\ acct = NoAcct /\ job.n = 0

\* What a park and a transfer have in common with the place they are sent to.
InsertOrder == job.act \in Inserts =>
    /\ job.from = 0
    /\ job.way \in {"pixel", "metric"}
    /\ job.act = "park" =>
          /\ job.way = "pixel"
          /\ job.stage \notin {"prelift", "metric", "lift", "carry", "backout", "reverse"}
    /\ job.stage \in Ended \cup
          {"next", "acquire", "align", "advance", "realign", "prelift", "center", "creep",
           "insert", "extra", "metric", "lift", "carry", "backout", "reverse"}
    /\ job.stage \in {"advance", "center", "creep", "insert", "extra"} => job.way = "pixel"
    /\ job.stage = "metric" => job.way = "metric"
    /\ job.stage = "next" => job.steps \in {<<>>, <<"dock">>, <<"park">>}
    /\ job.armed => job.left > 0

\* What is counted on the way in.
InsertCounts == job.act \in Inserts =>
    /\ (job.stage = "next" /\ job.steps # <<>>) \/ job.stage \in {"acquire", "align"} => AtStart
    /\ job.stage = "advance" =>
          /\ acct.ins = 0 /\ acct.creep = 0 /\ job.sign = 1 /\ Exact /\ Near
          /\ Ahead + job.left <= Gap
          /\ job.n = 0 => Ahead >= 0
    /\ job.stage = "realign" =>
          /\ job.sign = -1 /\ job.n = 1
          /\ job.way = "pixel" =>
                acct.ins = 0 /\ acct.creep = 0 /\ Exact /\ Near /\ Ahead - job.left >= -Backoff
          /\ job.way = "metric" => acct.fwd = 0
    /\ job.stage = "prelift" =>
          /\ acct.ins = 0 /\ acct.creep = 0 /\ job.n = 0 /\ Exact /\ Near
          /\ job.way = "metric" => acct.fwd = 0
    /\ job.stage = "center" =>
          acct.ins = 0 /\ Crept /\ Near /\ (Exact \/ estop)
    /\ job.stage = "creep" =>
          /\ acct.ins = 0 /\ Near /\ (Exact \/ estop) /\ job.n <= Cycles
          /\ acct.creep + job.left <= Sway(job.n) /\ job.left - acct.creep <= Sway(job.n)
    /\ job.stage = "insert" =>
          /\ acct.ins + job.left = Insert /\ Crept /\ Near /\ job.sign = 1
          /\ Exact \/ Halted
    /\ job.stage = "metric" =>
          \/ job.left = 0 /\ acct.fwd = 0
          \/ job.sign = 1 /\ depth + job.left = Target

\* What is counted once the forks are under the pallet.
CarryCounts == job.act \in Inserts =>
    /\ job.stage = "extra" => job.sign = 1
    /\ job.stage \in {"extra", "lift", "carry", "backout"} =>
          /\ depth >= Grip
          /\ job.way = "pixel" =>
                Crept /\ Near /\ Exact /\ acct.ins >= MinReverse
    /\ job.stage = "reverse" => job.sign = -1

InsertForm == InsertOrder /\ InsertCounts /\ CarryCounts

\* The pallet is where the transfer was to bring it.
Delivered ==
    /\ job.act = "load" => pallet = "forks" /\ fork = "carry"
    /\ job.act = "unload" => pallet = "slot" /\ fork = "low"

\* The rest of the way back ends where the transfer began, or behind.
Behind == IF job.way = "metric" THEN 0 ELSE ReverseExtra + Drift + acct.over
WayBack == depth <= job.left /\ depth - job.left >= -Behind

TransferForm == job.act \in Transfers =>
    /\ job.stage = "carry" => job.act = "load" /\ pallet = "forks"
    /\ job.stage = "backout" => Delivered
    /\ job.stage = "reverse" => Delivered /\ WayBack
    /\ job.stage = "done" \/ (job.stage = "next" /\ job.steps = <<>>) =>
          Delivered /\ WayBack /\ job.left = 0

Form == GateForm /\ InsertForm /\ TransferForm
WayInv == DockInv /\ Form

-----------------------------------------------------------------------------
(* Lemmas about the distances and about the job.                           *)

LEMMA SwayGrows ==
    /\ Sway(0) = 0 /\ Drift \in Nat
    /\ \A n \in Nat : /\ Sway(n) \in Nat /\ Sway(n + 1) = Sway(n) + Creep
                      /\ n <= Cycles => Sway(n) <= Drift
<1>1. Creep \in Nat /\ Cycles \in Nat
  BY DistancesTyped
<1>2. \A n \in Nat : n * Creep \in Nat /\ (n + 1) * Creep = n * Creep + Creep
  BY <1>1
<1>3. \A n \in Nat : n <= Cycles => n * Creep <= Cycles * Creep
  BY <1>1
<1>4. 0 * Creep = 0 /\ Cycles * Creep \in Nat
  BY <1>1
<1> QED
  BY <1>2, <1>3, <1>4 DEF Sway, Drift

LEMMA Numbers ==
    ASSUME DockInv
    PROVE  /\ job.left \in Nat /\ job.n \in Nat /\ job.from \in Int /\ depth \in Int
           /\ acct.ins \in Int /\ acct.creep \in Int /\ acct.fwd \in Nat /\ acct.over \in Nat
           /\ Ahead \in Int
           /\ job.sign \in {-1, 1} /\ job.armed \in BOOLEAN /\ job \in Job
BY Typed DEF DockInv, Job, Base, Counts, Ahead

LEMMA Settings ==
    /\ {Insert, Burst, Creep, Cycles, Gap, Backoff, StopAt, TooClose, Extra, Target, Grip, MinReverse,
        ReverseExtra, Fallback, Room, NearPark, Slack} \subseteq Nat
BY DockingAssumption

\* The command and what it is for remain the same.
SameOrder ==
    /\ job'.act = job.act /\ job'.way = job.way /\ job'.from = job.from
    /\ job'.site = job.site /\ job'.steps = job.steps

LEMMA ToFields ==
    ASSUME job \in Job, NEW s, To(s)
    PROVE  /\ SameOrder /\ job'.n = job.n /\ job'.sign = job.sign
           /\ job'.stage = s /\ job'.left = 0 /\ job'.armed = FALSE
BY DEF To, Job, SameOrder

LEMMA TravelFields ==
    ASSUME job \in Job, NEW s, NEW d, NEW g, Travel(s, d, g)
    PROVE  /\ SameOrder /\ job'.n = job.n /\ job'.sign = g
           /\ job'.stage = s /\ job'.left = d /\ job'.armed = FALSE
BY DEF Travel, Job, SameOrder

\* A stage that neither a drive nor a leave goes through: no gate is kept.
AtWork == job.stage \notin Ended \cup {"next", "leave", "leaving", "nav", "acquire", "align"}

LEMMA GateAtWork ==
    ASSUME WayInv, AtWork, job'.act = job.act, gate' = gate
    PROVE  GateForm'
BY DEF WayInv, Form, GateForm, DriveForm, LeaveForm, GateOutside, AtWork, Running, Drives

\* No transfer and no park is on the way out of a parking place, or with Nav2.
LEMMA InsertsElsewhere ==
    ASSUME WayInv, job.stage \in {"leave", "leaving", "nav"}, job'.act = job.act
    PROVE  InsertForm' /\ TransferForm'
BY DEF WayInv, Form, InsertForm, InsertOrder, InsertCounts, CarryCounts, TransferForm, Inserts,
   Transfers, Ended

LEMMA WayInitInv == Fit /\ DockingInit => WayInv
<1> SUFFICES ASSUME Fit, DockingInit
             PROVE  WayInv
  OBVIOUS
<1>1. /\ job.act = "park" /\ job.stage = "idle" /\ job.way = "pixel" /\ job.from = 0
      /\ job.armed = FALSE /\ job.steps = <<>> /\ gate = "none"
  BY DEF DockingInit, NoJob
<1>2. GateForm
  BY <1>1 DEF GateForm, DriveForm, LeaveForm, GateOutside, Drives
<1>3. InsertForm /\ TransferForm
  BY <1>1 DEF InsertForm, InsertOrder, InsertCounts, CarryCounts, TransferForm, Transfers, Ended
<1> QED
  BY <1>2, <1>3, DockInitInv DEF WayInv, Form

-----------------------------------------------------------------------------
(* Commands, and what ends them.                                           *)

\* A command that breaks off.
LEMMA BrokenForm ==
    ASSUME WayInv, Break, gate' = gate, depth' = depth, parked' = parked \/ parked' = "no"
    PROVE  Form'
<1>1. /\ job'.act = job.act /\ job'.way = job.way /\ job'.from = job.from
      /\ job'.stage = "failed" /\ job'.armed = FALSE
  BY Numbers DEF WayInv, Break, Finish, Job
<1>2. spoilt' = ~Clear(depth)
  BY DEF Break
<1>3. GateForm'
  <2>1. Clear(0)
    BY Settings DEF Clear
  <2> QED
    BY <1>1, <1>2, <2>1 DEF WayInv, Form, GateForm, DriveForm, LeaveForm, GateOutside, Outside,
       Running, Ended
<1>4. InsertForm' /\ TransferForm'
  BY <1>1 DEF WayInv, Form, InsertForm, InsertOrder, InsertCounts, CarryCounts, TransferForm, Ended
<1> QED
  BY <1>3, <1>4 DEF Form

LEMMA FailForm ==
    ASSUME WayInv, \/ BreakBetween \/ NavFails \/ LeaveRefused \/ AcquireFails \/ AlignFails
                   \/ MotionRefused \/ LiftIsNotPrepared \/ CenterFails \/ MetricFails
                   \/ CarryFails \/ BackOutFails \/ BurstRefused \/ LiftFails
    PROVE  Form'
<1>1. Break /\ gate' = gate /\ depth' = depth /\ (parked' = parked \/ parked' = "no")
  BY DEF BreakBetween, NavFails, LeaveRefused, AcquireFails, AlignFails, MotionRefused,
     LiftIsNotPrepared, CenterFails, MetricFails, CarryFails, BackOutFails, BurstRefused, LiftFails,
     Fail, memory, SetParked
<1> QED
  BY <1>1, BrokenForm

LEMMA UpsetForm == ASSUME WayInv, Upset \/ UNCHANGED dockVars PROVE Form'
<1>1. /\ job' = job /\ acct' = acct /\ depth' = depth /\ spoilt' = spoilt
      /\ pallet' = pallet /\ fork' = fork
      /\ (gate' = gate /\ parked' = parked) \/ (gate' = "none" /\ ~Running)
      /\ estop' = estop \/ estop' \/ ~Running
  BY DEF Upset, Cancel, PressEstop, ClearEstop, SensorsStale, SensorsBack, Restart, body, cargo,
     memory, dockVars
<1>2. GateForm'
  BY <1>1 DEF WayInv, Form, GateForm, DriveForm, LeaveForm, GateOutside, Outside, Running, LeaveHead,
     Ended
<1>3. InsertOrder' /\ CarryCounts' /\ TransferForm'
  BY <1>1 DEF WayInv, Form, InsertForm, InsertOrder, CarryCounts, TransferForm, Delivered, WayBack,
     Behind, Crept, Exact, Near, Ahead
<1>4. InsertCounts'
  BY <1>1 DEF WayInv, Form, InsertForm, InsertCounts, AtStart, Halted, Crept, Exact, Near, Ahead, Running,
     Ended
<1> QED
  BY <1>2, <1>3, <1>4 DEF Form, InsertForm

LEMMA Leading ==
    ASSUME NEW s \in Approach
    PROVE  /\ <<"leave">> \o s # <<>> /\ Head(<<"leave">> \o s) = "leave"
           /\ Tail(<<"leave">> \o s) = s
           /\ s # <<>> /\ s \notin {<<>>, <<"align">>} /\ Head(s) = "nav"
           /\ Tail(s) \in {<<>>, <<"align">>}
<1>1. /\ <<"leave">> \o s # <<>> /\ Head(<<"leave">> \o s) = "leave"
      /\ Tail(<<"leave">> \o s) = s
  BY DEF Approach
<1>2. CASE s = <<"nav">>
  <2>1. Head(s) = "nav" /\ Tail(s) = <<>> /\ s # <<>> /\ s # <<"align">>
    BY <1>2
  <2> QED
    BY <1>1, <2>1
<1>3. CASE s = <<"nav", "align">>
  <2>1. Head(s) = "nav" /\ Tail(s) = <<"align">> /\ s # <<>> /\ s # <<"align">>
    BY <1>3
  <2> QED
    BY <1>1, <2>1
<1> QED
  BY <1>2, <1>3 DEF Approach

\* A command begins: a park or a transfer only where Nav2 has left the robot.
LEMMA CommandFields ==
    ASSUME NEW act, NEW way, NEW site, NEW steps, Command(act, way, site, steps)
    PROVE  /\ job'.act = act /\ job'.way = way /\ job'.site = site /\ job'.steps = steps
           /\ job'.stage = "next" /\ job'.left = 0 /\ job'.armed = FALSE /\ job'.n = 0
           /\ job'.from = depth
           /\ acct' = NoAcct
           /\ UNCHANGED <<at, depth, spoilt, pallet, fork, parked, stored, estop, fresh>>
           /\ ~Running
BY DEF Command, NoJob, body, cargo, world

LEMMA RequestForm == ASSUME Fit, WayInv, Request PROVE Form'
<1>1. ASSUME NEW site \in Site, Move(site) \/ Drive(site)
      PROVE  Form'
  <2>1. PICK act \in Drives, steps \in Approach :
           Command(act, "pixel", site, LeaveFirst(steps)) /\ gate' = gate
    BY <1>1 DEF Move, Drive, Drives
  <2>2. /\ job'.act = act /\ job'.steps = LeaveFirst(steps) /\ job'.stage = "next"
        /\ UNCHANGED <<depth, spoilt, parked>>
    BY <2>1, CommandFields
  <2>3. \/ job'.steps \in Approach
        \/ job'.steps # <<>> /\ Head(job'.steps) = "leave" /\ Tail(job'.steps) \in Approach
    BY <2>2, Leading DEF LeaveFirst
  <2>4. GateForm'
    BY <2>1, <2>2, <2>3 DEF WayInv, Form, GateForm, DriveForm, LeaveForm, LeaveHead, GateOutside,
       Outside, Drives, Ended
  <2>5. act \notin Inserts
    BY DEF Drives, Inserts, Transfers
  <2>6. InsertForm' /\ TransferForm'
    BY <2>2, <2>5 DEF InsertForm, InsertOrder, InsertCounts, CarryCounts, TransferForm, Inserts
  <2> QED
    BY <2>4, <2>6 DEF Form
<1>2. CASE Leave \/ ReverseOut
  <2>1. /\ job'.stage = "next" /\ UNCHANGED <<depth, spoilt, parked>> /\ gate' = gate
        /\ \/ job'.act = "leave" /\ job'.steps = <<"leave">>
           \/ job'.act = "out" /\ spoilt
    BY <1>2, CommandFields DEF Leave, ReverseOut
  <2>2. GateForm'
    BY <2>1 DEF WayInv, Form, GateForm, DriveForm, LeaveForm, GateOutside, Outside, Drives, Ended
  <2>3. InsertForm' /\ TransferForm'
    BY <2>1 DEF InsertForm, InsertOrder, InsertCounts, CarryCounts, TransferForm, Inserts, Transfers
  <2> QED
    BY <2>2, <2>3 DEF Form
<1>3. ASSUME Park \/ \E act \in Transfers, way \in Ways : Dock(act, way)
      PROVE  Form'
  <2>1. /\ gate # "none" /\ gate' = "none"
        /\ job'.stage = "next" /\ job'.left = 0 /\ job'.armed = FALSE /\ job'.n = 0
        /\ job'.from = depth /\ depth' = depth
        /\ acct' = NoAcct
        /\ \/ job'.act = "park" /\ job'.way = "pixel" /\ job'.steps = <<"park">>
           \/ job'.act \in Transfers /\ job'.way \in Ways /\ job'.steps = <<"dock">>
    BY <1>3, CommandFields DEF Park, Dock
  <2>2. depth = 0
    BY <2>1 DEF WayInv, Form, GateForm, GateOutside, Outside
  <2>3. job'.way \in {"pixel", "metric"}
    BY <2>1, DistancesTyped DEF Fit, WayKind
  <2>4. GateForm'
    BY <2>1 DEF GateForm, DriveForm, LeaveForm, GateOutside, Drives, Transfers
  <2>5. InsertForm'
    BY <2>1, <2>2, <2>3 DEF InsertForm, InsertOrder, InsertCounts, CarryCounts, AtStart, Transfers
  <2>6. TransferForm'
    <3>1. <<"dock">> # <<>> /\ <<"park">> # <<>>
      OBVIOUS
    <3> QED
      BY <2>1, <3>1 DEF TransferForm, Transfers
  <2> QED
    BY <2>4, <2>5, <2>6 DEF Form
<1> QED
  BY <1>1, <1>2, <1>3 DEF Request, Transfers

LEMMA BeginStepForm == ASSUME WayInv, BeginStep PROVE Form'
<1>0. job.stage = "next" /\ job.steps # <<>>
  BY DEF BeginStep
<1>1. /\ job'.act = job.act /\ job'.way = job.way /\ job'.from = job.from
      /\ job'.steps = Tail(job.steps) /\ job'.n = 0 /\ job'.left = job.left
      /\ job'.armed = job.armed
      /\ Head(job.steps) = "leave" => job'.stage = "leave"
      /\ Head(job.steps) = "nav" => job'.stage = "nav"
      /\ Head(job.steps) \in {"align", "dock", "park"} => job'.stage = "acquire"
  BY Numbers DEF WayInv, BeginStep, Job
<1>2. UNCHANGED <<depth, spoilt, parked, gate>>
  BY DEF BeginStep, body, memory
<1>3. Head(job.steps) # "out" => acct' = acct
  BY DEF BeginStep
<1>4. GateForm'
  <2>1. ASSUME job.act \in Drives
        PROVE  GateForm'
    <3>1. CASE job.steps \in Approach
      BY <1>0, <1>1, <1>2, <2>1, <3>1, Leading DEF WayInv, Form, GateForm, DriveForm, LeaveForm,
         GateOutside, Outside, Drives, Ended, Running
    <3>2. CASE LeaveHead /\ Tail(job.steps) \in Approach
      BY <1>0, <1>1, <1>2, <2>1, <3>2 DEF WayInv, Form, GateForm, DriveForm, LeaveForm,
         GateOutside, Outside, Drives, LeaveHead, Ended, Running
    <3>3. CASE job.steps \in {<<>>, <<"align">>} /\ Outside
      <4>1. job.steps = <<"align">>
        BY <1>0, <3>3
      <4>2. Head(job.steps) = "align" /\ Tail(job.steps) = <<>>
        BY <4>1
      <4> QED
        BY <1>0, <1>1, <1>2, <2>1, <3>3, <4>2 DEF WayInv, Form, GateForm, DriveForm, LeaveForm,
           GateOutside, Outside, Drives, Ended, Running
    <3> QED
      BY <1>0, <2>1, <3>1, <3>2, <3>3 DEF WayInv, Form, GateForm, DriveForm
  <2>2. ASSUME job.act = "leave"
        PROVE  GateForm'
    <3>1. Head(job.steps) = "leave"
      BY <1>0, <2>2 DEF WayInv, Form, GateForm, LeaveForm
    <3> QED
      BY <1>0, <1>1, <1>2, <2>2, <3>1 DEF WayInv, Form, GateForm, DriveForm, LeaveForm,
         GateOutside, Outside, Drives, Ended, Running
  <2>3. ASSUME job.act \notin Drives \cup {"leave"}
        PROVE  GateForm'
    BY <1>0, <1>1, <1>2, <2>3 DEF WayInv, Form, GateForm, DriveForm, LeaveForm, GateOutside,
       Ended, Running
  <2> QED
    BY <2>1, <2>2, <2>3
<1>5. InsertForm' /\ TransferForm'
  <2> SUFFICES ASSUME job.act \in Inserts
               PROVE  InsertForm' /\ TransferForm'
    BY <1>1 DEF InsertForm, InsertOrder, InsertCounts, CarryCounts, TransferForm, Inserts
  <2>1. Head(job.steps) \in {"dock", "park"} /\ AtStart
    BY <1>0 DEF WayInv, Form, InsertForm, InsertOrder, InsertCounts
  <2>2. job'.stage = "acquire" /\ acct' = acct
    BY <1>1, <1>3, <2>1
  <2>3. InsertOrder'
    BY <1>1, <2>2 DEF WayInv, Form, InsertForm, InsertOrder
  <2>4. InsertCounts' /\ CarryCounts' /\ TransferForm'
    BY <1>1, <1>2, <2>1, <2>2 DEF InsertCounts, CarryCounts, TransferForm, AtStart
  <2> QED
    BY <2>3, <2>4 DEF InsertForm
<1> QED
  BY <1>4, <1>5 DEF Form

LEMMA EndCommandForm == ASSUME WayInv, EndCommand PROVE Form'
<1>1. /\ job.stage = "next" /\ job.steps = <<>>
      /\ job'.act = job.act /\ job'.way = job.way /\ job'.from = job.from
      /\ job'.steps = <<>> /\ job'.stage = "done" /\ job'.left = 0 /\ job'.armed = FALSE
  BY Numbers DEF WayInv, EndCommand, Finish, Job
<1>2. /\ UNCHANGED <<depth, spoilt, parked, pallet, fork, acct>>
      /\ gate' = gate \/ job.act \in Drives
  BY DEF EndCommand, cargo, Drives
<1>3. GateForm'
  <2>1. job.act \in Drives => Outside
    BY <1>1, Leading DEF WayInv, Form, GateForm, DriveForm, LeaveHead
  <2> QED
    BY <1>1, <1>2, <2>1 DEF WayInv, Form, GateForm, DriveForm, LeaveForm, GateOutside, Outside,
       Ended, Running
<1>4. InsertForm'
  BY <1>1 DEF WayInv, Form, InsertForm, InsertOrder, InsertCounts, CarryCounts, Ended
<1>5. TransferForm'
  <2> SUFFICES ASSUME job.act \in Transfers
               PROVE  TransferForm'
    BY <1>1 DEF TransferForm
  <2>1. Delivered /\ WayBack /\ job.left = 0
    BY <1>1 DEF WayInv, Form, TransferForm
  <2> QED
    BY <1>1, <1>2, <2>1 DEF TransferForm, Delivered, WayBack, Behind
<1> QED
  BY <1>3, <1>4, <1>5 DEF Form

-----------------------------------------------------------------------------
(* Out of the parking place, and with Nav2.                                *)

LEMMA NavArrivesForm == ASSUME WayInv, NavArrives PROVE Form'
<1>1. /\ job.stage = "nav" /\ job'.act = job.act /\ job'.steps = job.steps
      /\ job'.stage = "next" /\ depth' = 0 /\ spoilt' = FALSE /\ parked' = "no" /\ gate' = gate
  BY Numbers, ToFields DEF WayInv, NavArrives, SetParked, SameOrder
<1>2. GateForm'
  BY <1>1 DEF WayInv, Form, GateForm, DriveForm, LeaveForm, GateOutside, Outside, Drives, Ended,
     Running
<1> QED
  BY <1>1, <1>2, InsertsElsewhere DEF Form

LEMMA LeaveForms == ASSUME WayInv, LeaveNot \/ LeaveEnds PROVE Form'
<1>1. /\ job.stage \in {"leave", "leaving"} /\ job'.act = job.act /\ job'.steps = job.steps
      /\ job'.stage = "next" /\ parked' = "no" /\ UNCHANGED <<depth, spoilt, gate>>
  BY Numbers, ToFields DEF WayInv, LeaveNot, LeaveEnds, Arrived, SetParked, SameOrder, body
<1>2. job.act = "leave" => job.steps = <<>>
  BY <1>1 DEF WayInv, DockInv, Shape, OneStep
<1>3. GateForm'
  BY <1>1, <1>2 DEF WayInv, Form, GateForm, DriveForm, LeaveForm, GateOutside, Outside, Drives,
     Ended, Running
<1> QED
  BY <1>1, <1>3, InsertsElsewhere DEF Form

\* A robot that Nav2 has left outside has no way to leave.
LEMMA NothingToLeave ==
    ASSUME Fit, Outside, NEW sees \in BOOLEAN
    PROVE  ~ReverseRequired(sees)
<1>1. ~(depth >= NearPark) /\ ~(depth > 0) /\ parked # "yes"
  BY Settings DEF Outside, Fit, InsertionFits
<1> QED
  BY <1>1 DEF ReverseRequired, PoseSays, MarkerSays

LEMMA LeaveBeginsForm == ASSUME Fit, WayInv, LeaveBegins PROVE Form'
<1>0. PICK sees \in Sees : ReverseRequired(sees) /\ \E d : Travel("leaving", d, -1)
  BY DEF LeaveBegins
<1>1. PICK d : Travel("leaving", d, -1)
  BY <1>0
<1>2. /\ job.stage = "leave" /\ job'.act = job.act /\ job'.steps = job.steps
      /\ job'.stage = "leaving" /\ UNCHANGED <<depth, spoilt, gate, parked>>
  BY <1>1, Numbers, TravelFields DEF WayInv, LeaveBegins, SameOrder, Stay, body, memory
<1>3. sees \in BOOLEAN
  BY <1>0 DEF Sees
<1>4. gate = "none"
  BY <1>0, <1>3, NothingToLeave DEF WayInv, Form, GateForm, GateOutside
<1>5. GateForm'
  BY <1>2, <1>4 DEF WayInv, Form, GateForm, DriveForm, LeaveForm, GateOutside, Drives, Ended
<1> QED
  BY <1>2, <1>5, InsertsElsewhere DEF Form

-----------------------------------------------------------------------------
(* In front of the marker.                                                 *)

\* Steps that touch neither the base nor what is remembered of it.
Still == UNCHANGED <<depth, spoilt, parked, gate, acct, pallet, fork, estop>>

LEMMA StayStill == Stay => Still
BY DEF Stay, Still, body, cargo, memory, world

LEMMA AcquiredForm ==
    ASSUME WayInv, Still, SameOrder, job.stage \in {"acquire", "align"},
           \/ job'.stage = AfterAlign /\ (job.act \in Inserts => job'.n = 0)
           \/ job.stage = "acquire" /\ job'.stage = "align" /\ job'.n = job.n
              /\ job.way # "metric",
           job'.armed = FALSE
    PROVE  Form'
<1>1. UNCHANGED <<depth, spoilt, parked, gate, acct>>
  BY DEF Still
<1>2. GateForm'
  BY <1>1 DEF WayInv, Form, GateForm, DriveForm, LeaveForm, GateOutside, Outside, Drives, Ended,
     Running, AfterAlign, SameOrder
<1>3. InsertForm' /\ TransferForm'
  <2> SUFFICES ASSUME job.act \in Inserts
               PROVE  InsertForm' /\ TransferForm'
    BY DEF InsertForm, InsertOrder, InsertCounts, CarryCounts, TransferForm, Inserts, SameOrder
  <2>1. AtStart
    BY DEF WayInv, Form, InsertForm, InsertCounts
  <2>2. \/ job'.stage = "center" /\ job.act = "park" /\ job'.n = 0
        \/ job'.stage = "prelift" /\ job.act # "park" /\ job'.n = 0
        \/ job'.stage = "align" /\ job.way # "metric" /\ job'.n = job.n
    BY DEF AfterAlign, Inserts, Transfers, Drives
  <2>3. InsertOrder'
    BY <2>2 DEF WayInv, Form, InsertForm, InsertOrder, SameOrder
  <2>4. /\ acct.ins = 0 /\ acct.creep = 0 /\ acct.fwd = 0 /\ Exact /\ Near /\ 0 <= Cycles
        /\ (Exact /\ Near)'
    BY <1>1, <2>1, Settings DEF AtStart, NoAcct, Exact, Near, Ahead
  <2>5. InsertCounts'
    <3>1. CASE job'.stage = "center"
      <4>1. job'.n = 0 /\ Sway(0) = 0 /\ acct' = acct /\ depth' = depth
        BY <1>1, <2>2, <3>1, SwayGrows
      <4>2. Crept'
        BY <2>4, <4>1 DEF Crept
      <4> QED
        BY <2>4, <3>1, <4>1, <4>2 DEF InsertCounts
    <3>2. CASE job'.stage # "center"
      BY <1>1, <2>1, <2>2, <2>4, <3>2 DEF InsertCounts, SameOrder, AtStart
    <3> QED
      BY <3>1, <3>2
  <2>6. CarryCounts' /\ TransferForm'
    BY <2>2 DEF CarryCounts, TransferForm
  <2> QED
    BY <2>3, <2>5, <2>6 DEF InsertForm
<1> QED
  BY <1>2, <1>3 DEF Form

LEMMA AcquireForms == ASSUME WayInv, AcquireMarker \/ AlignTurns PROVE Form'
<1>0. Still /\ job.armed = FALSE
  BY Numbers, StayStill DEF WayInv, DockInv, LastBurst, AcquireMarker, AlignTurns, Moving
<1>1. CASE AcquireMarker
  <2>1. PICK s : /\ To(s)
                 /\ s = AfterAlign \/ (s = "align" /\ job.way # "metric")
    BY <1>1 DEF AcquireMarker
  <2>2. /\ SameOrder /\ job'.n = job.n /\ job'.stage = s /\ job'.armed = FALSE
        /\ job.stage = "acquire"
    BY <1>1, <2>1, Numbers, ToFields DEF WayInv, AcquireMarker
  <2>3. job.act \in Inserts => job.n = 0
    BY <2>2 DEF WayInv, Form, InsertForm, InsertCounts, AtStart
  <2> QED
    BY <1>0, <2>1, <2>2, <2>3, AcquiredForm
<1>2. CASE AlignTurns
  <2>1. /\ SameOrder /\ job'.n = (IF job.act \in Drives THEN 1 ELSE 0)
        /\ job'.stage = AfterAlign /\ job'.armed = job.armed /\ job.stage = "align"
    BY <1>2, Numbers DEF WayInv, AlignTurns, Job, SameOrder, Drives
  <2>2. job.act \in Inserts => job'.n = 0
    BY <2>1 DEF Inserts, Transfers, Drives
  <2> QED
    BY <1>0, <2>1, <2>2, AcquiredForm
<1> QED
  BY <1>1, <1>2

\* From here on the command is a park or a transfer, or it is none of those that
\* the invariant is about.
LEMMA WorkForm ==
    ASSUME WayInv, AtWork, job'.act = job.act, gate' = gate,
           job.act \in Inserts => InsertForm' /\ TransferForm'
    PROVE  Form'
<1>1. GateForm'
  BY GateAtWork
<1>2. job.act \notin Inserts => InsertForm' /\ TransferForm'
  BY DEF InsertForm, InsertOrder, InsertCounts, CarryCounts, TransferForm, Inserts
<1> QED
  BY <1>1, <1>2 DEF Form

\* The facts of a park or a transfer that is at work.
LEMMA WorkFacts ==
    ASSUME WayInv, job.act \in Inserts
    PROVE  InsertOrder /\ InsertCounts /\ CarryCounts /\ TransferForm
BY DEF WayInv, Form, InsertForm

LEMMA AdvanceForms == ASSUME Fit, WayInv, AlignAdvances \/ AdvanceEnds PROVE Form'
<1>1. CASE AlignAdvances
  <2>1. /\ SameOrder /\ job'.n = job.n /\ job'.sign = 1 /\ job'.stage = "advance"
        /\ job'.left = Gap - depth /\ job'.armed = FALSE
        /\ job.stage = "align" /\ job.act \in Inserts /\ job.way = "pixel" /\ Still
    BY <1>1, Numbers, TravelFields, StayStill DEF WayInv, AlignAdvances, Inserts, Transfers
  <2>2. AtStart
    BY <2>1, WorkFacts DEF InsertCounts
  <2>3. gate = "none"
    BY <2>1 DEF WayInv, Form, GateForm, GateOutside, Inserts, Transfers, Drives, Running, Ended
  <2>4. GateForm'
    BY <2>1, <2>3 DEF GateForm, DriveForm, LeaveForm, GateOutside, Inserts, Transfers, Drives,
       SameOrder, Still
  <2>5. InsertOrder'
    BY <2>1, WorkFacts DEF InsertOrder, SameOrder
  <2>6. /\ acct'.ins = 0 /\ acct'.creep = 0 /\ job'.n = 0 /\ (Exact /\ Near)'
        /\ Ahead' = 0 /\ Ahead' + job'.left <= Gap
    BY <2>1, <2>2, Settings DEF AtStart, NoAcct, Exact, Near, Ahead, Still
  <2>7. InsertCounts' /\ CarryCounts' /\ TransferForm'
    BY <2>1, <2>6 DEF InsertCounts, CarryCounts, TransferForm
  <2> QED
    BY <2>4, <2>5, <2>7 DEF Form, InsertForm
<1>2. CASE AdvanceEnds
  <2>1. /\ SameOrder /\ job'.n = 0 /\ job'.stage = AfterAlign /\ job'.left = 0
        /\ job'.armed = FALSE /\ job.stage = "advance" /\ Still
    BY <1>2, Numbers, StayStill DEF WayInv, AdvanceEnds, Job, SameOrder
  <2>2. ASSUME job.act \in Inserts
        PROVE  InsertForm' /\ TransferForm'
    <3>1. /\ acct.ins = 0 /\ acct.creep = 0 /\ Exact /\ Near /\ job.way = "pixel"
      BY <2>1, <2>2, WorkFacts DEF InsertCounts, InsertOrder
    <3>2. acct' = acct /\ depth' = depth
      BY <2>1 DEF Still
    <3>3. \/ job'.stage = "center" /\ job.act = "park"
          \/ job'.stage = "prelift" /\ job.act # "park"
      BY <2>1, <2>2 DEF AfterAlign, Inserts, Transfers
    <3>4. InsertOrder'
      BY <2>1, <2>2, <3>1, <3>3, WorkFacts DEF InsertOrder, SameOrder
    <3>5. (Crept /\ Exact /\ Near)'
      BY <2>1, <3>1, <3>2, SwayGrows, Settings DEF Crept, Exact, Near, Ahead
    <3>6. InsertCounts'
      BY <2>1, <3>1, <3>2, <3>3, <3>5 DEF InsertCounts, SameOrder
    <3>7. CarryCounts' /\ TransferForm'
      BY <3>3 DEF CarryCounts, TransferForm
    <3> QED
      BY <3>4, <3>6, <3>7 DEF InsertForm
  <2> QED
    BY <2>1, <2>2, WorkForm DEF AtWork, SameOrder, Still, Ended
<1> QED
  BY <1>1, <1>2

\* Back to realign, and up again.
LEMMA RealignForms == ASSUME WayInv, RealignBegins \/ RealignEnds PROVE Form'
<1>0. depth \in Int /\ Ahead \in Int /\ job \in Job /\ job.left \in Nat
      /\ Gap \in Nat /\ Backoff \in Nat
  BY Numbers, Settings DEF WayInv
<1>1. CASE RealignBegins
  <2>1. /\ SameOrder /\ job'.n = 1 /\ job'.sign = -1 /\ job'.stage = "realign"
        /\ job'.left = Backoff /\ job'.armed = FALSE /\ Still
        /\ job.n = 0 /\ job.left = 0
        /\ \/ job.stage = "advance"
           \/ job.stage = "metric" /\ job.way = "metric" /\ acct.fwd = 0
    BY <1>0, <1>1, StayStill DEF RealignBegins, Job, SameOrder
  <2>2. ASSUME job.act \in Inserts
        PROVE  InsertForm' /\ TransferForm'
    <3>1. job.stage = "advance" => /\ acct.ins = 0 /\ acct.creep = 0 /\ Exact /\ Near
                                   /\ Ahead >= 0 /\ job.way = "pixel"
      BY <2>1, <2>2, WorkFacts DEF InsertCounts, InsertOrder
    <3>2. UNCHANGED <<acct, depth, Ahead>> /\ (Exact => Exact') /\ (Near => Near')
      BY <2>1 DEF Still, Exact, Near, Ahead
    <3>3. job.stage = "advance" => Ahead - Backoff >= -Backoff
      BY <1>0, <3>1
    <3>4. InsertOrder'
      BY <2>1, <2>2, WorkFacts DEF InsertOrder, SameOrder
    <3>5. InsertCounts'
      BY <2>1, <3>1, <3>2, <3>3 DEF InsertCounts, SameOrder
    <3>6. CarryCounts' /\ TransferForm'
      BY <2>1 DEF CarryCounts, TransferForm
    <3> QED
      BY <3>4, <3>5, <3>6 DEF InsertForm
  <2> QED
    BY <2>1, <2>2, WorkForm DEF AtWork, SameOrder, Still, Ended
<1>2. CASE RealignEnds
  <2>1. /\ SameOrder /\ job'.n = job.n /\ job'.armed = FALSE /\ Still /\ job.stage = "realign"
        /\ \/ job.way = "pixel" /\ job'.stage = "advance" /\ job'.sign = 1
              /\ job'.left = Most(0, Gap - depth)
           \/ job.way # "pixel" /\ job'.stage = "metric" /\ job'.left = 0
    BY <1>0, <1>2, ToFields, TravelFields, StayStill DEF RealignEnds
  <2>2. ASSUME job.act \in Inserts
        PROVE  InsertForm' /\ TransferForm'
    <3>1. /\ job.n = 1 /\ job.way \in {"pixel", "metric"}
          /\ job.way = "pixel" => acct.ins = 0 /\ acct.creep = 0 /\ Exact /\ Near
          /\ job.way = "metric" => acct.fwd = 0 /\ job.act # "park"
      BY <2>1, <2>2, WorkFacts DEF InsertCounts, InsertOrder
    <3>2. UNCHANGED <<acct, depth, Ahead>> /\ (Exact => Exact') /\ (Near => Near')
      BY <2>1 DEF Still, Exact, Near, Ahead
    <3>3. job.way = "pixel" => Ahead + job'.left <= Gap
      <4>1. job.way = "pixel" => depth = Ahead /\ Ahead <= Gap
        BY <1>0, <3>1 DEF Exact, Near
      <4> QED
        BY <1>0, <2>1, <4>1 DEF Most
    <3>4. InsertOrder'
      BY <2>1, <2>2, <3>1, WorkFacts DEF InsertOrder, SameOrder
    <3>5. InsertCounts'
      BY <2>1, <3>1, <3>2, <3>3 DEF InsertCounts, SameOrder
    <3>6. CarryCounts' /\ TransferForm'
      BY <2>1 DEF CarryCounts, TransferForm
    <3> QED
      BY <3>4, <3>5, <3>6 DEF InsertForm
  <2> QED
    BY <2>1, <2>2, WorkForm DEF AtWork, SameOrder, Still, Ended
<1> QED
  BY <1>1, <1>2

LEMMA PreparedForm == ASSUME WayInv, LiftIsPrepared PROVE Form'
<1>1. /\ SameOrder /\ job'.n = job.n /\ job'.left = 0 /\ job'.armed = FALSE
      /\ job'.stage = (IF job.way = "pixel" THEN "center" ELSE "metric")
      /\ job.stage = "prelift" /\ gate' = gate /\ acct' = acct /\ depth' = depth /\ estop' = estop
  BY Numbers, ToFields DEF WayInv, LiftIsPrepared, body, memory, world
<1>2. ASSUME job.act \in Inserts
      PROVE  InsertForm' /\ TransferForm'
  <2>1. /\ acct.ins = 0 /\ acct.creep = 0 /\ job.n = 0 /\ Exact /\ Near
        /\ job.way = "metric" => acct.fwd = 0
    BY <1>1, <1>2, WorkFacts DEF InsertCounts
  <2>2. job.way \in {"pixel", "metric"} /\ job.act # "park"
    BY <1>1, <1>2, WorkFacts DEF InsertOrder
  <2>3. InsertOrder'
    BY <1>1, <1>2, <2>2, WorkFacts DEF InsertOrder, SameOrder
  <2>4. (Crept /\ Exact /\ Near)'
    BY <1>1, <2>1, SwayGrows, Settings DEF Crept, Exact, Near, Ahead
  <2>5. InsertCounts'
    BY <1>1, <2>1, <2>2, <2>4 DEF InsertCounts, SameOrder
  <2>6. CarryCounts' /\ TransferForm'
    BY <1>1 DEF CarryCounts, TransferForm
  <2> QED
    BY <2>3, <2>5, <2>6 DEF InsertForm
<1> QED
  BY <1>1, <1>2, WorkForm DEF AtWork, SameOrder, Ended

-----------------------------------------------------------------------------
(* Centering, and the insertion.                                           *)

LEMMA CenterForms ==
    ASSUME Fit, WayInv, \/ Centered \/ CenterTurns \/ CreepEnds
                        \/ \E sign \in {-1, 1} : CenterCreeps(sign)
    PROVE  Form'
<1>1. Still /\ SameOrder /\ job'.armed = FALSE /\ job.stage \in {"center", "creep"}
      /\ \/ /\ job.stage = "center" /\ job'.stage = "insert" /\ job'.n = job.n
            /\ job'.left = Insert /\ job'.sign = 1
         \/ /\ job.stage = "center" /\ job'.stage = "center" /\ job'.n = job.n + 1
            /\ job.n < Cycles
         \/ /\ job.stage = "center" /\ job'.stage = "creep" /\ job'.n = job.n + 1
            /\ job.n < Cycles /\ job'.left = Creep
         \/ /\ job.stage = "creep" /\ job'.stage = "center" /\ job'.n = job.n /\ job.left = 0
  <2>0. job.stage = "center" => job.armed = FALSE
    BY Numbers DEF WayInv, DockInv, LastBurst, Moving
  <2>1. CASE Centered
    BY <2>1, Numbers, TravelFields, StayStill DEF WayInv, Centered
  <2>2. CASE CenterTurns
    BY <2>0, <2>2, Numbers, StayStill DEF WayInv, CenterTurns, Job, SameOrder
  <2>3. CASE \E sign \in {-1, 1} : CenterCreeps(sign)
    BY <2>0, <2>3, Numbers, StayStill DEF WayInv, CenterCreeps, Job, SameOrder
  <2>4. CASE CreepEnds
    BY <2>4, Numbers, ToFields, StayStill DEF WayInv, CreepEnds, Arrived
  <2> QED
    BY <2>1, <2>2, <2>3, <2>4
<1>2. ASSUME job.act \in Inserts
      PROVE  InsertForm' /\ TransferForm'
  <2>1. /\ acct.ins = 0 /\ Near /\ (Exact \/ estop) /\ job.n <= Cycles
        /\ job.stage = "center" => Crept
        /\ job.stage = "creep" => /\ acct.creep + job.left <= Sway(job.n)
                                  /\ job.left - acct.creep <= Sway(job.n)
        /\ job.way = "pixel"
    BY <1>1, <1>2, WorkFacts DEF InsertCounts, InsertOrder, Crept
  <2>2. acct' = acct /\ depth' = depth /\ estop' = estop
    BY <1>1 DEF Still
  <2>3. Sway(job.n) \in Nat /\ Sway(job.n + 1) = Sway(job.n) + Creep
    BY Numbers, SwayGrows DEF WayInv
  <2>4. InsertOrder'
    BY <1>1, <1>2, <2>1, WorkFacts DEF InsertOrder, SameOrder
  <2>5. (Exact \/ estop)' /\ Near'
    BY <2>1, <2>2 DEF Exact, Near, Ahead
  <2>6. job'.stage # "creep" => Crept'
    BY <1>1, <2>1, <2>2, <2>3, Numbers, Settings DEF WayInv, Crept
  <2>7. job'.stage = "creep" =>
           /\ job'.n <= Cycles
           /\ acct.creep + job'.left <= Sway(job'.n) /\ job'.left - acct.creep <= Sway(job'.n)
    BY <1>1, <2>1, <2>3, Numbers, Settings DEF WayInv, Crept
  <2>8. job'.stage = "insert" => /\ acct.ins + job'.left = Insert /\ job'.left > 0 /\ job'.sign = 1
    BY <1>1, <2>1, Settings DEF Fit, InsertionFits
  <2>9. InsertCounts'
    BY <1>1, <2>1, <2>2, <2>5, <2>6, <2>7, <2>8 DEF InsertCounts, SameOrder, Halted
  <2>10. CarryCounts' /\ TransferForm'
    BY <1>1 DEF CarryCounts, TransferForm
  <2> QED
    BY <2>4, <2>9, <2>10 DEF InsertForm
<1> QED
  BY <1>1, <1>2, WorkForm DEF AtWork, SameOrder, Still, Ended

\* An insertion that its length or the marker ends is long enough to be carried
\* on from, and to be backed out of by what was counted.
LongEnough ==
    /\ depth >= Grip
    /\ Crept /\ Near /\ Exact /\ acct.ins >= MinReverse

LEMMA InsertionLong ==
    ASSUME Fit, WayInv, job.act \in Inserts, job.stage = "insert",
           \/ job.left = 0
           \/ job.armed /\ depth >= StopAt
    PROVE  LongEnough
<1>1. /\ acct.ins + job.left = Insert /\ Crept /\ Near /\ Exact
  BY WorkFacts DEF InsertCounts, Halted
<1>2. acct.creep <= Drift /\ -acct.creep <= Drift
  <2>1. Sway(job.n) <= Drift /\ Sway(job.n) \in Nat /\ Drift \in Nat
    BY <1>1, Numbers, SwayGrows DEF WayInv, Crept
  <2> QED
    BY <1>1, <2>1, Numbers DEF WayInv, Crept
<1>3. depth >= Grip /\ acct.ins >= MinReverse
  <2>1. CASE job.left = 0
    BY <1>1, <1>2, <2>1, Numbers, Settings, SwayGrows DEF WayInv, Fit, InsertionFits, Exact, Near
  <2>2. CASE depth >= StopAt
    <3>1. acct.ins = depth - acct.creep - Ahead /\ Ahead <= Gap
      BY <1>1, Numbers DEF WayInv, Exact, Near
    <3>2. StopAt >= Grip /\ StopAt >= MinReverse + Gap + Drift
      BY DEF Fit, InsertionFits
    <3>3. StopAt \in Nat /\ Grip \in Nat /\ MinReverse \in Nat /\ Gap \in Nat /\ Drift \in Nat
      BY Settings, SwayGrows
    <3> QED
      BY <1>1, <1>2, <2>2, <3>1, <3>2, <3>3, Numbers DEF WayInv
  <2> QED
    BY <2>1, <2>2
<1> QED
  BY <1>1, <1>3 DEF LongEnough

\* On to a stage with the forks under the pallet, and nothing moved.
LEMMA OnwardForm ==
    ASSUME WayInv, job.act \in Inserts, SameOrder, LongEnough, job'.n = job.n, job'.armed = FALSE,
           UNCHANGED <<acct, depth>>, job.way = "pixel",
           job'.stage = "lift" \/ (job'.stage = "extra" /\ job'.sign = 1), job.act # "park" \/ job'.stage = "extra"
    PROVE  InsertForm' /\ TransferForm'
<1>1. InsertOrder'
  BY WorkFacts DEF InsertOrder, SameOrder
<1>2. CarryCounts'
  BY DEF CarryCounts, SameOrder, LongEnough, Crept, Exact, Near, Ahead
<1>3. InsertCounts' /\ TransferForm'
  BY DEF InsertCounts, TransferForm
<1> QED
  BY <1>1, <1>2, <1>3 DEF InsertForm

LEMMA InsertEndsForm == ASSUME Fit, WayInv, InsertEnds \/ InsertGoesOn PROVE Form'
<1>1. CASE InsertGoesOn
  <2>1. /\ SameOrder /\ job'.n = job.n /\ job'.sign = 1 /\ job'.stage = "extra"
        /\ job'.armed = FALSE /\ Still
        /\ job.stage = "insert" /\ job.armed /\ depth >= StopAt
    BY <1>1, Numbers, TravelFields, StayStill DEF WayInv, InsertGoesOn, WidthStops
  <2>2. ASSUME job.act \in Inserts
        PROVE  InsertForm' /\ TransferForm'
    <3>1. LongEnough /\ job.way = "pixel"
      BY <2>1, <2>2, InsertionLong, WorkFacts DEF InsertOrder
    <3> QED
      BY <2>1, <2>2, <3>1, OnwardForm DEF Still
  <2> QED
    BY <2>1, <2>2, WorkForm DEF AtWork, SameOrder, Still, Ended
<1>2. CASE InsertEnds
  <2>1. /\ SameOrder /\ job'.n = job.n /\ job'.left = 0 /\ job'.armed = FALSE
        /\ job'.stage = (IF job.act = "park" THEN "next" ELSE "lift")
        /\ acct' = acct /\ depth' = depth /\ gate' = gate
    BY <1>2, Numbers, ToFields DEF WayInv, InsertEnds, body
  <2>2. \/ job.stage = "insert" /\ (job.left = 0 \/ (job.armed /\ depth >= StopAt))
        \/ job.stage = "extra"
    BY <1>2 DEF InsertEnds, Inserted, WidthStops
  <2>3. ASSUME job.act \in Inserts
        PROVE  InsertForm' /\ TransferForm'
    <3>1. job.way = "pixel"
      BY <2>2, <2>3, WorkFacts DEF InsertOrder
    <3>2. LongEnough
      <4>1. CASE job.stage = "insert"
        BY <2>2, <2>3, <4>1, InsertionLong
      <4>2. CASE job.stage = "extra"
        BY <2>3, <3>1, <4>2, WorkFacts DEF CarryCounts, LongEnough
      <4> QED
        BY <2>2, <4>1, <4>2
    <3>3. CASE job.act = "park"
      <4>1. job.steps = <<>>
        BY <2>2, <3>3 DEF WayInv, DockInv, Shape, OneStep
      <4>2. InsertOrder'
        BY <2>1, <2>3, <3>3, <4>1, WorkFacts DEF InsertOrder, SameOrder
      <4>3. InsertCounts' /\ CarryCounts' /\ TransferForm'
        BY <2>1, <3>3, <4>1 DEF InsertCounts, CarryCounts, TransferForm, SameOrder, Transfers
      <4> QED
        BY <4>2, <4>3 DEF InsertForm
    <3>4. CASE job.act # "park"
      BY <2>1, <2>3, <3>1, <3>2, <3>4, OnwardForm
    <3> QED
      BY <3>3, <3>4
  <2> QED
    BY <2>1, <2>2, <2>3, WorkForm DEF AtWork, SameOrder, Ended
<1> QED
  BY <1>1, <1>2

LEMMA MetricForms == ASSUME Fit, WayInv, MetricBegins \/ MetricEnds PROVE Form'
<1>1. CASE MetricBegins
  <2>1. /\ SameOrder /\ job'.sign = 1 /\ job'.stage = "metric" /\ job'.left = Target - depth
        /\ job'.armed = FALSE /\ Still /\ job.stage = "metric"
    BY <1>1, Numbers, TravelFields, StayStill DEF WayInv, MetricBegins
  <2>2. ASSUME job.act \in Inserts
        PROVE  InsertForm' /\ TransferForm'
    <3>1. depth' + job'.left = Target
      BY <2>1, Numbers, Settings DEF WayInv, Still
    <3>2. InsertOrder'
      BY <2>1, <2>2, WorkFacts DEF InsertOrder, SameOrder
    <3>3. InsertCounts' /\ CarryCounts' /\ TransferForm'
      BY <2>1, <3>1 DEF InsertCounts, CarryCounts, TransferForm
    <3> QED
      BY <3>2, <3>3 DEF InsertForm
  <2> QED
    BY <2>1, <2>2, WorkForm DEF AtWork, SameOrder, Still, Ended
<1>2. CASE MetricEnds
  <2>1. /\ SameOrder /\ job'.stage = "lift" /\ job'.left = 0
        /\ job'.armed = FALSE /\ job.stage = "metric" /\ job.left = 0 /\ acct.fwd > 0
        /\ depth' = depth /\ gate' = gate
    BY <1>2, Numbers, ToFields DEF WayInv, MetricEnds, Arrived, body, memory
  <2>2. ASSUME job.act \in Inserts
        PROVE  InsertForm' /\ TransferForm'
    <3>1. depth + job.left = Target /\ job.way = "metric" /\ job.act # "park"
      BY <2>1, <2>2, WorkFacts DEF InsertCounts, InsertOrder
    <3>2. depth >= Grip
      BY <2>1, <3>1, Numbers, Settings DEF WayInv, Fit, InsertionFits
    <3>3. InsertOrder'
      BY <2>1, <2>2, <3>1, WorkFacts DEF InsertOrder, SameOrder
    <3>4. InsertCounts' /\ CarryCounts' /\ TransferForm'
      BY <2>1, <3>1, <3>2 DEF InsertCounts, CarryCounts, TransferForm, SameOrder
    <3> QED
      BY <3>3, <3>4 DEF InsertForm
  <2> QED
    BY <2>1, <2>2, WorkForm DEF AtWork, SameOrder, Ended
<1> QED
  BY <1>1, <1>2

-----------------------------------------------------------------------------
(* The pallet, and the way back.                                           *)

LEMMA LiftForms == ASSUME WayInv, LiftMoves \/ CarryMoves PROVE Form'
<1>1. /\ SameOrder /\ job'.n = job.n /\ job'.left = 0 /\ job'.armed = FALSE
      /\ UNCHANGED <<acct, depth, gate>>
      /\ \/ /\ job.stage = "lift" /\ Lifted
            /\ job'.stage = (IF job.act = "load" THEN "carry" ELSE "backout")
         \/ /\ job.stage = "carry" /\ job'.stage = "backout"
            /\ fork' = "carry" /\ pallet' = pallet
  BY Numbers, ToFields DEF WayInv, LiftMoves, CarryMoves, body, memory
<1>2. ASSUME job.act \in Inserts
      PROVE  InsertForm' /\ TransferForm'
  <2>1. /\ depth >= Grip /\ job.act # "park"
        /\ job.way = "pixel" => LongEnough
    BY <1>1, <1>2, WorkFacts DEF CarryCounts, InsertOrder, LongEnough
  <2>2. InsertOrder'
    BY <1>1, <1>2, <2>1, WorkFacts DEF InsertOrder, SameOrder
  <2>3. CarryCounts'
    BY <1>1, <2>1 DEF CarryCounts, SameOrder, LongEnough, Crept, Exact, Near, Ahead
  <2>4. InsertCounts'
    BY <1>1 DEF InsertCounts
  <2>5. ~(depth < Grip)
    BY <2>1, Numbers, Settings DEF WayInv
  <2>6. job.stage = "carry" => job.act = "load" /\ pallet = "forks"
    BY <1>2, <2>1, WorkFacts DEF TransferForm, Inserts
  <2>7. TransferForm'
    BY <1>1, <1>2, <2>1, <2>5, <2>6 DEF TransferForm, SameOrder, Lifted, Delivered, Inserts, Transfers
  <2> QED
    BY <2>2, <2>3, <2>4, <2>7 DEF InsertForm
<1> QED
  BY <1>1, <1>2, WorkForm DEF AtWork, SameOrder, Ended

\* By what it has counted, or by the pose, the robot gets back to where the
\* transfer began; if it was counted, no farther behind than the margin, the
\* creeps and what was counted in vain.
LEMMA WayBackFits ==
    ASSUME WayInv, job.act \in Inserts, job.stage = "backout", NEW way,
           way = IF job.way = "metric" THEN WayToPose ELSE ReverseBy
    PROVE  depth <= way /\ depth - way >= -Behind
<1>0. /\ job.from = 0 /\ job.way \in {"pixel", "metric"}
      /\ job.way = "pixel" => Crept /\ Exact /\ acct.ins >= MinReverse
  BY WorkFacts DEF InsertOrder, CarryCounts
<1>1. CASE job.way = "metric"
  <2>1. way = depth /\ depth \in Int /\ Behind = 0
    BY <1>0, <1>1, Numbers DEF WayInv, WayToPose, Behind
  <2> QED
    BY <2>1
<1>2. CASE job.way = "pixel"
  <2>1. /\ acct.creep <= Drift /\ -acct.creep <= Drift /\ Drift \in Nat
    <3>1. Sway(job.n) <= Drift /\ Sway(job.n) \in Nat /\ Drift \in Nat
      BY <1>0, <1>2, Numbers, SwayGrows DEF WayInv, Crept
    <3> QED
      BY <1>0, <1>2, <3>1, Numbers DEF WayInv, Crept
  <2>2. Most(MinReverse, acct.ins) = acct.ins /\ Most(0, acct.fwd) = acct.fwd
    BY <1>0, <1>2, Numbers, Settings DEF WayInv, Most
  <2>3. way = acct.ins + Most(0, acct.creep) + acct.fwd + ReverseExtra
    BY <1>2, <2>2 DEF ReverseBy
  <2>4. /\ depth = acct.ins + acct.creep + acct.fwd - acct.over
        /\ Behind = ReverseExtra + Drift + acct.over
    BY <1>0, <1>2, Numbers DEF WayInv, Exact, Ahead, Behind
  <2>5. CASE acct.creep > 0
    <3>1. way = acct.ins + acct.creep + acct.fwd + ReverseExtra
      BY <2>3, <2>5, Numbers DEF WayInv, Most
    <3> QED
      BY <2>1, <2>4, <3>1, Numbers, Settings DEF WayInv
  <2>6. CASE ~(acct.creep > 0)
    <3>1. way = acct.ins + acct.fwd + ReverseExtra
      BY <2>3, <2>6, Numbers, Settings DEF WayInv, Most
    <3> QED
      BY <2>1, <2>4, <2>6, <3>1, Numbers, Settings DEF WayInv
  <2> QED
    BY <2>5, <2>6
<1> QED
  BY <1>0, <1>1, <1>2

LEMMA BackForms == ASSUME WayInv, BackOut \/ ReverseEnds PROVE Form'
<1>1. CASE BackOut
  <2>1. /\ SameOrder /\ job'.sign = -1 /\ job'.stage = "reverse" /\ job'.armed = FALSE
        /\ job'.left = (IF job.way = "metric" THEN WayToPose ELSE ReverseBy)
        /\ Still /\ job.stage = "backout"
    BY <1>1, Numbers, TravelFields, StayStill DEF WayInv, BackOut
  <2>2. ASSUME job.act \in Inserts
        PROVE  InsertForm' /\ TransferForm'
    <3>1. (WayBack)'
      BY <2>1, <2>2, WayBackFits DEF WayBack, Behind, Still, SameOrder
    <3>2. job.act # "park" /\ Delivered
      BY <2>1, <2>2, WorkFacts DEF InsertOrder, TransferForm, Inserts
    <3>3. InsertOrder'
      BY <2>1, <2>2, <3>2, WorkFacts DEF InsertOrder, SameOrder
    <3>4. InsertCounts' /\ CarryCounts'
      BY <2>1 DEF InsertCounts, CarryCounts
    <3>5. TransferForm'
      BY <2>1, <3>1, <3>2 DEF TransferForm, Delivered, Still, SameOrder
    <3> QED
      BY <3>3, <3>4, <3>5 DEF InsertForm
  <2> QED
    BY <2>1, <2>2, WorkForm DEF AtWork, SameOrder, Still, Ended
<1>2. CASE ReverseEnds
  <2>1. /\ SameOrder /\ job'.stage = "next" /\ job'.left = 0 /\ job'.armed = FALSE
        /\ job.stage = "reverse" /\ job.left = 0
        /\ UNCHANGED <<depth, gate, pallet, fork, acct>>
    BY <1>2, Numbers, ToFields DEF WayInv, ReverseEnds, Arrived, body, cargo
  <2>2. ASSUME job.act \in Inserts
        PROVE  InsertForm' /\ TransferForm'
    <3>1. job.act # "park" /\ Delivered /\ WayBack
      BY <2>1, <2>2, WorkFacts DEF InsertOrder, TransferForm, Inserts
    <3>2. job.steps = <<>>
      BY <2>1, <2>2 DEF WayInv, DockInv, Shape, OneStep, Inserts, Transfers
    <3>3. InsertOrder'
      BY <2>1, <2>2, <3>1, <3>2, WorkFacts DEF InsertOrder, SameOrder
    <3>4. InsertCounts' /\ CarryCounts'
      BY <2>1, <3>2 DEF InsertCounts, CarryCounts, SameOrder
    <3>5. TransferForm'
      BY <2>1, <3>1, <3>2 DEF TransferForm, Delivered, WayBack, Behind, SameOrder
    <3> QED
      BY <3>3, <3>4, <3>5 DEF InsertForm
  <2> QED
    BY <2>1, <2>2, WorkForm DEF AtWork, SameOrder, Ended
<1> QED
  BY <1>1, <1>2

-----------------------------------------------------------------------------
(* Bursts.                                                                 *)

LEMMA ArmForm == ASSUME WayInv, Arm PROVE Form'
<1>1. /\ SameOrder /\ job'.n = job.n /\ job'.left = job.left /\ job'.sign = job.sign
      /\ job'.stage = job.stage /\ job.stage \in Moving /\ job.left > 0 /\ Still
      /\ job.stage = "insert" => ~estop
  BY Numbers, StayStill DEF WayInv, Arm, MayArm, Gated, Moving, Job, SameOrder
<1>2. GateForm'
  BY <1>1 DEF WayInv, Form, GateForm, DriveForm, LeaveForm, GateOutside, Outside, Running, Ended,
     Moving, Drives, SameOrder, Still, LeaveHead
<1>3. InsertForm'
  <2>1. InsertOrder'
    BY <1>1 DEF WayInv, Form, InsertForm, InsertOrder, SameOrder
  <2>2. InsertCounts'
    BY <1>1 DEF WayInv, Form, InsertForm, InsertCounts, Moving, SameOrder, Still, AtStart, Halted,
       Exact, Near, Ahead, Crept
  <2>3. CarryCounts'
    BY <1>1 DEF WayInv, Form, InsertForm, CarryCounts, SameOrder, Still, Exact, Near, Ahead, Crept
  <2> QED
    BY <2>1, <2>2, <2>3 DEF InsertForm
<1>4. TransferForm'
  BY <1>1 DEF WayInv, Form, TransferForm, SameOrder, Still, Delivered, WayBack, Behind, Moving
<1> QED
  BY <1>2, <1>3, <1>4 DEF Form

\* A burst is no longer than the way that is left.
LEMMA BurstFits ==
    ASSUME DockInv
    PROVE  Step \in Nat /\ job.left - Step \in Nat
BY Numbers, StepTyped

\* What a burst does to the counts, in whatever way it is counted.
LEMMA CountedFields ==
    ASSUME DockInv, acct' = Counted(Step)
    PROVE  /\ acct'.ins = (IF job.stage \in {"insert", "extra"} THEN acct.ins + Step ELSE acct.ins)
           /\ acct'.fwd = (IF job.stage \in {"advance", "metric"} THEN acct.fwd + Step ELSE acct.fwd)
           /\ acct'.creep = (IF job.stage = "creep" THEN acct.creep + job.sign * Step
                             ELSE acct.creep)
           /\ acct'.over = (IF job.stage = "realign" THEN acct.over + Step ELSE acct.over)
<1>1. acct \in [ins : Int, creep : Int, fwd : Nat, over : Nat]
  BY Typed DEF DockInv, Counts
<1>2. CASE job.stage \in {"insert", "extra"}
  <2>1. acct' = [acct EXCEPT !.ins = acct.ins + Step]
    BY <1>2 DEF Counted
  <2> QED
    BY <1>1, <1>2, <2>1
<1>3. CASE job.stage \in {"advance", "metric"}
  <2>1. acct' = [acct EXCEPT !.fwd = acct.fwd + Step]
    BY <1>3 DEF Counted
  <2> QED
    BY <1>1, <1>3, <2>1
<1>4. CASE job.stage = "creep"
  <2>1. acct' = [acct EXCEPT !.creep = acct.creep + job.sign * Step]
    BY <1>4 DEF Counted
  <2> QED
    BY <1>1, <1>4, <2>1
<1>5. CASE job.stage = "realign"
  <2>1. acct' = [acct EXCEPT !.over = acct.over + Step]
    BY <1>5 DEF Counted
  <2> QED
    BY <1>1, <1>5, <2>1
<1>6. CASE job.stage \notin {"insert", "extra", "advance", "metric", "creep", "realign"}
  <2>1. acct' = acct
    BY <1>6 DEF Counted
  <2> QED
    BY <1>6, <2>1
<1> QED
  BY <1>2, <1>3, <1>4, <1>5, <1>6

LEMMA VainFields ==
    ASSUME DockInv, acct' = CountedInVain(Step)
    PROVE  /\ acct'.ins = acct.ins
           /\ acct'.creep = (IF job.stage = "creep" THEN acct.creep + job.sign * Step
                             ELSE acct.creep)
           /\ acct'.fwd = (IF job.stage \in {"advance", "metric"} THEN acct.fwd + Step ELSE acct.fwd)
           /\ Ahead' = Ahead
<1>1. acct \in [ins : Int, creep : Int, fwd : Nat, over : Nat] /\ Step \in Nat
  BY Typed, BurstFits DEF DockInv, Counts
<1>2. CASE job.stage \in {"advance", "metric"}
  <2>1. acct' = [acct EXCEPT !.fwd = acct.fwd + Step, !.over = acct.over + Step]
    BY <1>2 DEF CountedInVain
  <2>2. /\ acct'.ins = acct.ins /\ acct'.creep = acct.creep
        /\ acct'.fwd = acct.fwd + Step /\ acct'.over = acct.over + Step
    BY <1>1, <2>1
  <2> QED
    BY <1>1, <1>2, <2>2 DEF Ahead
<1>3. CASE job.stage = "creep"
  <2>1. acct' = [acct EXCEPT !.creep = acct.creep + job.sign * Step]
    BY <1>3 DEF CountedInVain
  <2> QED
    BY <1>1, <1>3, <2>1 DEF Ahead
<1>4. CASE job.stage \notin {"advance", "metric", "creep"}
  <2>1. acct' = acct
    BY <1>4 DEF CountedInVain
  <2> QED
    BY <1>4, <2>1 DEF Ahead
<1> QED
  BY <1>2, <1>3, <1>4

LEMMA Move1Form == ASSUME WayInv, Move1 PROVE Form'
<1>0. /\ Step \in Nat /\ job.left \in Nat /\ job.left - Step \in Nat /\ depth \in Int
      /\ acct.ins \in Int /\ acct.creep \in Int /\ acct.fwd \in Nat /\ acct.over \in Nat
      /\ Ahead \in Int /\ job.sign \in {-1, 1} /\ job \in Job
  BY Numbers, BurstFits DEF WayInv
<1>1. /\ SameOrder /\ job'.n = job.n /\ job'.left = job.left - Step /\ job'.sign = job.sign
      /\ job'.stage = job.stage /\ job'.armed = FALSE
  <2>1. job' = [job EXCEPT !.left = job.left - Step, !.armed = FALSE]
    BY DEF Move1, Stepped
  <2> QED
    BY <1>0, <2>1 DEF Job, SameOrder
<1>2. /\ job.stage \in Moving /\ job.armed /\ ~estop
      /\ depth' = depth + job.sign * Step
      /\ UNCHANGED <<gate, parked, pallet, fork, estop>>
      /\ acct' = Counted(Step)
  BY DEF Move1, Roll, cargo, memory, world
<1>3. /\ acct'.ins = (IF job.stage \in {"insert", "extra"} THEN acct.ins + Step ELSE acct.ins)
      /\ acct'.fwd = (IF job.stage \in {"advance", "metric"} THEN acct.fwd + Step ELSE acct.fwd)
      /\ acct'.creep = (IF job.stage = "creep" THEN acct.creep + job.sign * Step ELSE acct.creep)
      /\ acct'.over = (IF job.stage = "realign" THEN acct.over + Step ELSE acct.over)
  BY <1>2, CountedFields DEF WayInv
<1>4. /\ job.sign = 1 => depth' = depth + Step
      /\ job.sign = -1 => depth' = depth - Step
      /\ job.sign = 1 => job.sign * Step = Step
      /\ job.sign = -1 => job.sign * Step = -Step
      /\ Ahead' = (IF job.stage \in {"advance", "metric"} THEN Ahead + Step
                   ELSE IF job.stage = "realign" THEN Ahead - Step ELSE Ahead)
  BY <1>0, <1>2, <1>3 DEF Ahead
<1>5. CASE job.stage = "leaving"
  <2>1. gate = "none"
    BY <1>5 DEF WayInv, Form, GateForm, GateOutside, Running, Ended
  <2>2. GateForm'
    BY <1>1, <1>2, <1>5, <2>1 DEF WayInv, Form, GateForm, DriveForm, LeaveForm, GateOutside, Drives,
       Ended, SameOrder
  <2> QED
    BY <1>1, <1>5, <2>2, InsertsElsewhere DEF Form, SameOrder
<1>6. ASSUME job.stage # "leaving", job.act \in Inserts
      PROVE  InsertForm' /\ TransferForm'
  <2>1. InsertOrder'
    BY <1>1, <1>6, WorkFacts DEF InsertOrder, SameOrder
  <2>2. InsertCounts'
    <3>1. CASE job.stage = "advance"
      <4>1. /\ acct.ins = 0 /\ acct.creep = 0 /\ job.sign = 1 /\ Exact /\ Near
            /\ Ahead + job.left <= Gap /\ (job.n = 0 => Ahead >= 0)
        BY <1>6, <3>1, WorkFacts DEF InsertCounts
      <4>2. /\ (Exact /\ Near)' /\ Ahead' + job'.left <= Gap
            /\ job.n = 0 => Ahead' >= 0
        BY <1>0, <1>1, <1>3, <1>4, <3>1, <4>1, Settings DEF Exact, Near
      <4> QED
        BY <1>1, <1>3, <3>1, <4>1, <4>2 DEF InsertCounts
    <3>6. CASE job.stage = "realign"
      <4>1. /\ job.sign = -1 /\ job.n = 1
            /\ job.way = "pixel" =>
                  /\ acct.ins = 0 /\ acct.creep = 0 /\ Exact /\ Near
                  /\ Ahead - job.left >= -Backoff
            /\ job.way = "metric" => acct.fwd = 0
        BY <1>6, <3>6, WorkFacts DEF InsertCounts
      <4>2. job.way = "pixel" => (Exact /\ Near)' /\ Ahead' - job'.left >= -Backoff
        <5>1. /\ Ahead' = Ahead - Step /\ depth' = depth - Step /\ job'.left = job.left - Step
              /\ acct'.ins = acct.ins /\ acct'.creep = acct.creep
              /\ Gap \in Nat /\ Backoff \in Nat
          BY <1>1, <1>3, <1>4, <3>6, <4>1, Settings
        <5> QED
          BY <1>0, <4>1, <5>1 DEF Exact, Near
      <4> QED
        BY <1>1, <1>3, <3>6, <4>1, <4>2 DEF InsertCounts, SameOrder
    <3>2. CASE job.stage = "creep"
      <4>1. /\ acct.ins = 0 /\ Near /\ Exact /\ job.n <= Cycles
            /\ acct.creep + job.left <= Sway(job.n) /\ job.left - acct.creep <= Sway(job.n)
        BY <1>2, <1>6, <3>2, WorkFacts DEF InsertCounts
      <4>2. Sway(job.n) \in Nat
        BY Numbers, SwayGrows DEF WayInv
      <4>3. /\ acct'.creep + job'.left <= Sway(job.n) /\ job'.left - acct'.creep <= Sway(job.n)
            /\ (Exact /\ Near)'
        <5>1. CASE job.sign = 1
          BY <1>0, <1>1, <1>3, <1>4, <3>2, <4>1, <4>2, <5>1 DEF Exact, Near
        <5>2. CASE job.sign = -1
          BY <1>0, <1>1, <1>3, <1>4, <3>2, <4>1, <4>2, <5>2 DEF Exact, Near
        <5> QED
          BY <1>0, <5>1, <5>2
      <4> QED
        BY <1>1, <1>3, <3>2, <4>1, <4>3 DEF InsertCounts
    <3>3. CASE job.stage = "insert"
      <4>1. /\ acct.ins + job.left = Insert /\ Crept /\ Near /\ job.sign = 1 /\ Exact
        BY <1>2, <1>6, <3>3, WorkFacts DEF InsertCounts, Halted
      <4>2. (Exact /\ Near)' /\ acct'.ins + job'.left = Insert
        BY <1>0, <1>1, <1>3, <1>4, <3>3, <4>1, Settings DEF Exact, Near
      <4> QED
        BY <1>1, <1>3, <3>3, <4>1, <4>2 DEF InsertCounts, Crept
    <3>4. CASE job.stage = "metric"
      <4>1. job.left > 0
        BY <1>2, <1>6, WorkFacts DEF InsertOrder
      <4>2. job.sign = 1 /\ depth + job.left = Target
        BY <1>0, <1>6, <3>4, <4>1, WorkFacts DEF InsertCounts
      <4>3. depth' + job'.left = Target
        BY <1>0, <1>1, <1>4, <4>2, Settings
      <4> QED
        BY <1>1, <3>4, <4>2, <4>3 DEF InsertCounts
    <3>5. CASE job.stage \in {"extra", "reverse"}
      BY <1>1, <3>5 DEF InsertCounts
    <3> QED
      BY <1>2, <1>6, <3>1, <3>2, <3>3, <3>4, <3>5, <3>6 DEF Moving
  <2>3. CarryCounts'
    <3>1. CASE job.stage = "extra"
      <4>1. /\ job.sign = 1 /\ depth >= Grip
            /\ Crept /\ Near /\ Exact /\ acct.ins >= MinReverse
        BY <1>6, <3>1, WorkFacts DEF CarryCounts, InsertOrder
      <4>2. (Exact /\ Near)' /\ acct'.ins >= MinReverse /\ depth' >= Grip
        BY <1>0, <1>3, <1>4, <3>1, <4>1, Settings DEF Exact, Near
      <4> QED
        BY <1>1, <1>3, <3>1, <4>1, <4>2 DEF CarryCounts, Crept
    <3>2. CASE job.stage # "extra"
      BY <1>1, <1>2, <1>6, <3>2, WorkFacts DEF CarryCounts, Moving
    <3> QED
      BY <3>1, <3>2
  <2>4. TransferForm'
    <3>1. CASE job.stage = "reverse"
      <4>1. job.act # "park" /\ Delivered /\ WayBack /\ job.sign = -1
        BY <1>6, <3>1, WorkFacts DEF InsertOrder, TransferForm, CarryCounts, Inserts
      <4>2. WayBack'
        <5>1. Behind' = Behind /\ Behind \in Int
          BY <1>0, <1>1, <1>3, <3>1, Settings, SwayGrows DEF Behind, SameOrder
        <5> QED
          BY <1>0, <1>1, <1>4, <4>1, <5>1 DEF WayBack
      <4> QED
        BY <1>1, <1>2, <3>1, <4>1, <4>2 DEF TransferForm, Delivered, SameOrder
    <3>2. CASE job.stage # "reverse"
      BY <1>1, <1>2, <3>2 DEF TransferForm, Moving
    <3> QED
      BY <3>1, <3>2
  <2> QED
    BY <2>1, <2>2, <2>3, <2>4 DEF InsertForm
<1>7. CASE job.stage # "leaving"
  BY <1>1, <1>2, <1>6, <1>7, WorkForm DEF AtWork, SameOrder, Moving, Ended
<1> QED
  BY <1>5, <1>7

\* What is counted now is not driven: the E-stop is pressed, or somebody stands
\* before the robot.
LEMMA IgnoredForm == ASSUME WayInv, BurstIgnored PROVE Form'
<1>0. /\ Step \in Nat /\ job.left \in Nat /\ job.left - Step \in Nat /\ depth \in Int
      /\ acct.ins \in Int /\ acct.creep \in Int /\ acct.fwd \in Nat /\ acct.over \in Nat
      /\ Ahead \in Int /\ job.sign \in {-1, 1} /\ job \in Job
  BY Numbers, BurstFits DEF WayInv
<1>1. /\ SameOrder /\ job'.n = job.n /\ job'.sign = job.sign
      /\ job'.stage = job.stage /\ job'.armed = FALSE
      /\ job'.left = (IF job.stage = "creep" THEN 0 ELSE job.left)
  <2>1. job' = [job EXCEPT !.armed = FALSE, !.left = IF job.stage = "creep" THEN 0 ELSE job.left]
    BY DEF BurstIgnored
  <2> QED
    BY <1>0, <2>1 DEF Job, SameOrder
<1>2. /\ job.stage \in {"advance", "realign", "metric", "creep"} /\ job.armed
      /\ job.stage = "creep" => estop /\ estop'
      /\ UNCHANGED <<depth, gate>> /\ acct' = CountedInVain(Step)
  BY DEF BurstIgnored, Approaches, body, memory, world
<1>3. /\ acct'.ins = acct.ins
      /\ job.stage = "creep" => acct'.creep = acct.creep + job.sign * Step
      /\ job.stage # "creep" => acct'.creep = acct.creep
      /\ job.stage = "realign" => acct'.fwd = acct.fwd
      /\ Ahead' = Ahead /\ (Near => Near')
      /\ job.stage # "creep" /\ Exact => Exact'
  <2>1. /\ acct'.ins = acct.ins /\ Ahead' = Ahead
        /\ acct'.creep = (IF job.stage = "creep" THEN acct.creep + job.sign * Step ELSE acct.creep)
        /\ acct'.fwd = (IF job.stage \in {"advance", "metric"} THEN acct.fwd + Step ELSE acct.fwd)
    BY <1>2, VainFields DEF WayInv
  <2> QED
    BY <1>2, <2>1 DEF Near, Exact
<1>4. /\ job.sign = 1 => job.sign * Step = Step
      /\ job.sign = -1 => job.sign * Step = -Step
  BY <1>0
<1>5. ASSUME job.act \in Inserts
      PROVE  InsertForm' /\ TransferForm'
  <2>1. InsertOrder' /\ job.left > 0
    BY <1>1, <1>2, <1>5, WorkFacts DEF InsertOrder, SameOrder
  <2>2. InsertCounts'
    <3>1. CASE job.stage = "advance"
      <4>1. /\ acct.ins = 0 /\ acct.creep = 0 /\ job.sign = 1 /\ Exact /\ Near
            /\ Ahead + job.left <= Gap /\ (job.n = 0 => Ahead >= 0)
        BY <1>5, <3>1, WorkFacts DEF InsertCounts
      <4> QED
        BY <1>1, <1>3, <3>1, <4>1 DEF InsertCounts
    <3>4. CASE job.stage = "realign"
      <4>1. /\ job.sign = -1 /\ job.n = 1
            /\ job.way = "pixel" =>
                  /\ acct.ins = 0 /\ acct.creep = 0 /\ Exact /\ Near
                  /\ Ahead - job.left >= -Backoff
            /\ job.way = "metric" => acct.fwd = 0
        BY <1>5, <3>4, WorkFacts DEF InsertCounts
      <4> QED
        BY <1>1, <1>3, <3>4, <4>1 DEF InsertCounts, SameOrder
    <3>2. CASE job.stage = "creep"
      <4>1. /\ acct.ins = 0 /\ Near /\ job.n <= Cycles
            /\ acct.creep + job.left <= Sway(job.n) /\ job.left - acct.creep <= Sway(job.n)
        BY <1>5, <3>2, WorkFacts DEF InsertCounts
      <4>2. Sway(job.n) \in Nat
        BY Numbers, SwayGrows DEF WayInv
      <4>3. acct'.creep + 0 <= Sway(job.n) /\ 0 - acct'.creep <= Sway(job.n)
        <5>1. CASE job.sign = 1
          BY <1>0, <1>3, <1>4, <3>2, <4>1, <4>2, <5>1
        <5>2. CASE job.sign = -1
          BY <1>0, <1>3, <1>4, <3>2, <4>1, <4>2, <5>2
        <5> QED
          BY <1>0, <5>1, <5>2
      <4> QED
        BY <1>1, <1>2, <1>3, <3>2, <4>1, <4>3 DEF InsertCounts
    <3>3. CASE job.stage = "metric"
      <4>1. job.sign = 1 /\ depth + job.left = Target
        BY <1>0, <1>5, <2>1, <3>3, WorkFacts DEF InsertCounts
      <4> QED
        BY <1>1, <1>2, <3>3, <4>1 DEF InsertCounts
    <3> QED
      BY <1>2, <3>1, <3>2, <3>3, <3>4
  <2>3. CarryCounts' /\ TransferForm'
    BY <1>1, <1>2 DEF CarryCounts, TransferForm
  <2> QED
    BY <2>1, <2>2, <2>3 DEF InsertForm
<1> QED
  BY <1>1, <1>2, <1>5, WorkForm DEF AtWork, SameOrder, Ended

-----------------------------------------------------------------------------
(* The theorems about the transfers.                                       *)

LEMMA WayStep == ASSUME Fit, WayInv, [DockingNext]_dockVars PROVE WayInv'
<1>1. DockInv'
  BY DockStep DEF WayInv
<1>2. ActuatorStep => Form'
  BY BeginStepForm, EndCommandForm, NavArrivesForm, FailForm, LeaveForms, LeaveBeginsForm,
     AcquireForms, AdvanceForms, RealignForms, ArmForm, Move1Form, IgnoredForm, PreparedForm, CenterForms,
     InsertEndsForm, MetricForms, LiftForms, BackForms DEF ActuatorStep
<1>3. Request => Form'
  BY RequestForm
<1>4. Upset \/ UNCHANGED dockVars => Form'
  BY UpsetForm
<1>5. Form'
  BY <1>2, <1>3, <1>4 DEF DockingNext
<1> QED
  BY <1>1, <1>5 DEF WayInv

LEMMA WayInvariant == ASSUME Fit PROVE DockingSpec => []WayInv
<1>1. DockingInit => WayInv
  BY WayInitInv
<1>2. WayInv /\ [DockingNext]_dockVars => WayInv'
  BY WayStep
<1> QED
  BY <1>1, <1>2, PTL DEF DockingSpec

\* Whatever the distances, a transfer that reports DONE is back at the place
\* where it began (resolve_dock_reverse_distance_m, execute_reverse_to_map_pose).
\* If it went by its counts it is behind that place by no more than the margin,
\* the creeps, and what was counted and not driven: the bursts that the laser
\* refused, and the ways back to realign (execute_precision_docking, 1256-1300).
\* An E-stop in the middle of the approach or of a creep adds nothing to that, for
\* nothing goes on from there.  An insertion measured by the camera is left out.
THEOREM TransferBacksOut == ASSUME Fit PROVE DockingSpec => []BacksOutToStart
<1>1. WayInv => BacksOutToStart
  <2> SUFFICES ASSUME WayInv, job.stage = "done", job.act \in Transfers
               PROVE  depth <= job.from /\ depth >= job.from - Behind
    BY DEF BacksOutToStart, Transfers, Behind
  <2>1. WayBack /\ job.left = 0 /\ job.from = 0
    BY DEF WayInv, Form, InsertForm, InsertOrder, TransferForm, Inserts
  <2>2. depth \in Int /\ Behind \in Int
    BY Numbers, Settings, SwayGrows DEF WayInv, Behind
  <2> QED
    BY <2>1, <2>2 DEF WayBack
<1> QED
  BY <1>1, WayInvariant, PTL

\* What a transfer reports done is done: the forks are under the pallet when the
\* lift moves, however the insertion ended (execute_dock_transfer_step).
THEOREM TransferIsReported == ASSUME Fit PROVE DockingSpec => []ReportedCargo
<1>1. WayInv => ReportedCargo
  BY DEF WayInv, Form, TransferForm, Delivered, Transfers, ReportedCargo
<1> QED
  BY <1>1, WayInvariant, PTL

-----------------------------------------------------------------------------
(* In and out of the parking place.                                        *)

\* Nothing stands behind the robot, and the sensors are fresh until a leave has
\* made up its mind.
Undisturbed == LeaveFits /\ "early" \notin DockFaults /\ "rear" \notin DockFaults

\* The robot stands clear of the dock, or it is known to be stuck.
Safe == Clear(depth) \/ (spoilt /\ (at = "slot" \/ depth < NearPark))

\* The same of a move that no order has prepared.
Loose == Clear(depth) \/ spoilt \/ parked = "unknown"

LeaveAhead == job.stage \in {"leave", "leaving"} \/ (job.stage = "next" /\ LeaveHead)

\* The memory of a parked robot: it is good for the way out, and a command that
\* is not about to use it has cleared it.
MemoryForm ==
    /\ parked # "yes" => stored = -1
    /\ parked = "yes" =>
          /\ at = "home" /\ stored >= MinReverse /\ depth <= stored + Slack
          /\ \/ job.act = "park" /\ job.stage \in Ended \cup {"next"} /\ job.steps = <<>>
             \/ job.act \in {"leave", "drive"} /\ (job.stage = "failed" \/ LeaveAhead)

\* Where an insertion takes place, and how deep it can be at home.
PlaceForm ==
    /\ job.act \in Inserts => job.site = IF job.act = "park" THEN "home" ELSE "slot"
    /\ job.act \in Inserts /\ job.stage \notin Ended \cup {"next", "acquire"} => at = job.site
    /\ job.act = "park" => job.stage # "extra"
    /\ job.act = "park" /\ (job.stage = "done" \/ (job.stage = "next" /\ job.steps = <<>>)) =>
          at = "home" /\ depth >= NearPark
    /\ at = "home" => depth <= Insert + Gap + Drift

OutForm == job.act = "out" =>
    /\ at = "slot" /\ (Clear(depth) \/ spoilt)
    /\ job.stage \in Ended \cup {"next", "backout", "reverse"}
    /\ job.stage = "next" => job.steps \in {<<>>, <<"out">>}
    /\ job.stage = "reverse" => job.sign = -1

\* What stands in a dock, and no command has broken off there, is parked.
DockedAtHome ==
    /\ ~Clear(depth) /\ ~spoilt
    /\ ~Running \/ job.act \notin Inserts
    /\ job.stage # "leaving"
    => at = "home" /\ depth >= NearPark

\* A leave knows where the robot is, and goes far enough.
LeaveKnows ==
    /\ LeaveAhead => job.act \in {"leave", "drive"}
    /\ LeaveAhead /\ job.stage # "leaving" => fresh
    /\ LeaveAhead /\ job.act = "drive" => parked = "yes"
    /\ job.stage = "leaving" => job.sign = -1 /\ depth - job.left <= Slack

NavSafe ==
    /\ job.act = "move" \/ (job.act = "drive" /\ job.stage = "done") => Safe
    /\ job.act = "leave" /\ ~LeaveAhead /\ job.stage # "failed" => Safe
    /\ job.act = "drive" /\ ~LeaveAhead /\ job.stage # "failed" => Loose

\* What the process takes to be out of its parking place is out.
KnownOut ==
    /\ parked = "no" /\ ~spoilt /\ (~Running \/ job.act \notin Inserts) => Clear(depth)
    /\ job.act = "park" /\ job.stage = "next" /\ job.steps = <<>> => parked = "yes"

Parking == MemoryForm /\ PlaceForm /\ OutForm /\ DockedAtHome /\ LeaveKnows /\ NavSafe /\ KnownOut

LEMMA ParkingInit == ASSUME Undisturbed, DockingInit PROVE Parking
<1>1. /\ job.act = "park" /\ job.stage = "idle" /\ job.steps = <<>>
      /\ at = "home" /\ depth = Insert /\ parked = "unknown" /\ stored = -1
  BY DEF DockingInit, NoJob
<1>2. Insert >= NearPark /\ Insert <= Insert + Gap + Drift
  BY Settings, SwayGrows DEF Undisturbed, LeaveFits
<1>3. MemoryForm /\ OutForm /\ LeaveKnows /\ NavSafe /\ KnownOut
  BY <1>1 DEF MemoryForm, OutForm, LeaveKnows, NavSafe, KnownOut, LeaveAhead
<1>4. PlaceForm /\ DockedAtHome
  <2>1. job.site = "home"
    BY DEF DockingInit, NoJob
  <2> QED
    BY <1>1, <1>2, <2>1 DEF PlaceForm, DockedAtHome, Ended
<1> QED
  BY <1>3, <1>4 DEF Parking

\* While the base stands still it remains as safe as it was.
LEMMA SafeKept ==
    ASSUME UNCHANGED <<at, depth>>, spoilt' = spoilt \/ spoilt' = ~Clear(depth), Safe
    PROVE  Safe'
<1>1. CASE depth <= Slack
  BY <1>1 DEF Safe, Clear
<1>2. CASE ~(depth <= Slack)
  <2>1. spoilt /\ (at = "slot" \/ depth < NearPark)
    BY <1>2 DEF Safe, Clear
  <2>2. spoilt'
    BY <1>2, <2>1, Zenon DEF Clear
  <2> QED
    BY <2>1, <2>2 DEF Safe
<1> QED
  BY <1>1, <1>2

LEMMA LooseKept ==
    ASSUME UNCHANGED <<depth, spoilt>>, parked' = parked \/ parked' = "unknown"
    PROVE  Loose => Loose'
BY DEF Loose, Clear

LEMMA SafeIsLoose == Safe => Loose
BY DEF Safe, Loose

LEMMA SafeIsLooseNext == Safe' => Loose'
BY DEF Safe, Loose

\* A robot whose command, if it is no park, has ended well.
LEMMA DoneSafe ==
    ASSUME WayInv, Parking, job.stage = "done", job.act # "park"
    PROVE  Safe
<1>1. CASE job.act \in Transfers
  <2>1. WayBack /\ job.left = 0
    BY <1>1 DEF WayInv, Form, TransferForm
  <2>2. Clear(depth)
    BY <2>1, Numbers, Settings DEF WayInv, WayBack, Clear
  <2> QED
    BY <2>2 DEF Safe
<1>2. CASE job.act = "out"
  BY <1>2 DEF Parking, OutForm, Safe
<1>3. CASE job.act \in {"move", "drive", "leave"}
  BY <1>3 DEF Parking, NavSafe, LeaveAhead
<1> QED
  BY <1>1, <1>2, <1>3, Numbers DEF WayInv, Job, Act, Transfers

LEMMA BrokenParking ==
    ASSUME WayInv, Parking, Break, UNCHANGED <<at, depth>>,
           \/ UNCHANGED <<parked, stored>>
           \/ SetParked("no")
    PROVE  Parking'
<1>1. /\ job'.act = job.act /\ job'.site = job.site
      /\ job'.stage = "failed" /\ job'.steps = <<>>
  BY Numbers DEF WayInv, Break, Finish, Job
<1>2. spoilt' = ~Clear(depth) /\ ~LeaveAhead'
  BY <1>1 DEF Break, LeaveAhead
<1>3. MemoryForm'
  <2>1. CASE UNCHANGED <<parked, stored>>
    BY <1>1, <2>1 DEF Parking, MemoryForm, Ended
  <2>2. CASE SetParked("no")
    BY <2>2 DEF SetParked, MemoryForm
  <2> QED
    BY <2>1, <2>2
<1>4. PlaceForm' /\ OutForm'
  BY <1>1, <1>2 DEF Parking, PlaceForm, OutForm, Ended, Clear
<1>5. DockedAtHome' /\ LeaveKnows'
  BY <1>1, <1>2 DEF DockedAtHome, LeaveKnows, Clear
<1>6. NavSafe' /\ KnownOut'
  BY <1>1, <1>2, SafeKept DEF Parking, NavSafe, KnownOut, Clear
<1> QED
  BY <1>3, <1>4, <1>5, <1>6 DEF Parking

LEMMA FailParking ==
    ASSUME WayInv, Parking,
           \/ BreakBetween \/ NavFails \/ LeaveRefused \/ AcquireFails \/ AlignFails
           \/ MotionRefused \/ LiftIsNotPrepared \/ CenterFails \/ MetricFails
           \/ CarryFails \/ BackOutFails \/ BurstRefused \/ LiftFails
    PROVE  Parking'
<1>1. /\ Break /\ UNCHANGED <<at, depth>>
      /\ UNCHANGED <<parked, stored>> \/ SetParked("no")
  BY DEF BreakBetween, NavFails, LeaveRefused, AcquireFails, AlignFails, MotionRefused,
     LiftIsNotPrepared, CenterFails, MetricFails, CarryFails, BackOutFails, BurstRefused, LiftFails,
     Fail, memory
<1> QED
  BY <1>1, BrokenParking

LEMMA UpsetParking == ASSUME Undisturbed, WayInv, Parking, Upset \/ UNCHANGED dockVars PROVE Parking'
<1>1. /\ job' = job /\ at' = at /\ depth' = depth /\ spoilt' = spoilt
      /\ fresh' = fresh \/ fresh' \/ job.stage \notin Ended \cup {"next", "leave"}
      /\ UNCHANGED <<parked, stored>> \/ (parked' = "unknown" /\ stored' = -1 /\ ~Running)
  BY DEF Upset, Cancel, PressEstop, ClearEstop, SensorsStale, SensorsBack, Restart, SetParked, body,
     memory, dockVars, Undisturbed
<1>2. LeaveAhead' = LeaveAhead /\ (LeaveAhead => Running)
  BY <1>1 DEF LeaveAhead, LeaveHead, Running, Ended
<1>3. MemoryForm' /\ PlaceForm' /\ OutForm' /\ DockedAtHome'
  BY <1>1, <1>2 DEF Parking, MemoryForm, PlaceForm, OutForm, DockedAtHome, Clear, Running
<1>4. LeaveKnows'
  BY <1>1, <1>2 DEF Parking, LeaveKnows, LeaveAhead
<1>5. NavSafe'
  BY <1>1, <1>2, SafeKept, LooseKept DEF Parking, NavSafe
<1>6. KnownOut'
  BY <1>1 DEF Parking, KnownOut, Running, Ended, Clear
<1> QED
  BY <1>3, <1>4, <1>5, <1>6 DEF Parking

LEMMA RequestParking ==
    ASSUME Undisturbed, WayInv, Parking, Request
    PROVE  Parking'
<1>1. PICK act, way, site, steps : Command(act, way, site, steps)
  BY DEF Request, Move, Drive, Leave, Park, ReverseOut, Dock
<1>2. /\ UNCHANGED <<at, depth, spoilt, parked, stored, fresh>> /\ job'.stage = "next"
      /\ ~Running /\ fresh
  BY <1>1, CommandFields DEF Command, Undisturbed
<1>3. /\ job.stage \in Ended /\ ~LeaveAhead
  BY <1>2 DEF Running, LeaveAhead, Ended
<1>4. DockedAtHome' /\ KnownOut'
  <2>1. job.stage # "leaving"
    BY <1>3 DEF Ended
  <2>2. Running'
    BY <1>2 DEF Running, Ended
  <2>3. job'.act = "park" => job'.steps # <<>>
    <3>1. job'.act = act /\ job'.steps = steps
      BY <1>1, CommandFields
    <3>2. <<"park">> # <<>>
      OBVIOUS
    <3>3. job'.act = "park" => job'.steps = <<"park">>
      <4>1. CASE Park
        BY <4>1, CommandFields DEF Park
      <4>2. CASE \E act1 \in Transfers, way1 \in Ways : Dock(act1, way1)
        BY <4>2, CommandFields DEF Dock, Transfers
      <4>3. CASE Leave \/ ReverseOut \/ \E site1 \in Site : Move(site1) \/ Drive(site1)
        BY <4>3, CommandFields DEF Leave, ReverseOut, Move, Drive
      <4> QED
        BY <4>1, <4>2, <4>3 DEF Request, Transfers
    <3> QED
      BY <3>2, <3>3
  <2> QED
    BY <1>2, <2>1, <2>2, <2>3 DEF Parking, DockedAtHome, KnownOut, Clear
<1>5. ASSUME NEW site1 \in Site, Move(site1)
      PROVE  Parking'
  <2>1. PICK steps1 \in Approach : Command("move", "pixel", site1, LeaveFirst(steps1))
    BY <1>5 DEF Move
  <2>2. job.act = "move" \/ (job.stage = "done" /\ job.act # "park")
    BY <1>5 DEF Move
  <2>3. parked # "yes" /\ Safe
    BY <1>3, <2>2, DoneSafe DEF Parking, MemoryForm, NavSafe
  <2>4. job'.act = "move" /\ job'.steps = steps1
    BY <2>1, <2>3, CommandFields DEF LeaveFirst
  <2>5. ~LeaveAhead'
    BY <1>2, <2>4, Leading DEF LeaveAhead, LeaveHead
  <2>6. Safe'
    BY <1>2, <2>3, SafeKept
  <2>7. MemoryForm' /\ PlaceForm' /\ OutForm'
    BY <1>2, <2>3, <2>4 DEF Parking, MemoryForm, PlaceForm, OutForm, Inserts, Transfers
  <2>8. LeaveKnows' /\ NavSafe'
    BY <1>2, <2>4, <2>5, <2>6 DEF LeaveKnows, NavSafe
  <2> QED
    BY <1>4, <2>7, <2>8 DEF Parking
<1>6. ASSUME NEW site1 \in Site, Drive(site1)
      PROVE  Parking'
  <2>1. PICK steps1 \in Approach : Command("drive", "pixel", site1, LeaveFirst(steps1))
    BY <1>6 DEF Drive
  <2>2. CASE parked = "yes"
    <3>1. job'.act = "drive" /\ job'.steps = LeaveFirst(steps1)
      BY <2>1, CommandFields
    <3>2. LeaveFirst(steps1) = <<"leave">> \o steps1
      BY <2>2 DEF LeaveFirst
    <3>3. job'.steps # <<>> /\ Head(job'.steps) = "leave"
      BY <3>1, <3>2, Leading
    <3>4. LeaveAhead'
      BY <1>2, <3>3 DEF LeaveAhead, LeaveHead
    <3>5. MemoryForm' /\ PlaceForm' /\ OutForm'
      BY <1>2, <2>2, <3>1, <3>4 DEF Parking, MemoryForm, PlaceForm, OutForm, Inserts, Transfers
    <3>6. LeaveKnows' /\ NavSafe'
      BY <1>2, <2>2, <3>1, <3>4 DEF LeaveKnows, NavSafe
    <3> QED
      BY <1>4, <3>5, <3>6 DEF Parking
  <2>3. CASE parked # "yes"
    <3>1. job'.act = "drive" /\ job'.steps = steps1
      BY <2>1, <2>3, CommandFields DEF LeaveFirst
    <3>2. ~LeaveAhead'
      BY <1>2, <3>1, Leading DEF LeaveAhead, LeaveHead
    <3>3. Loose
      <4>1. parked \in {"no", "unknown"}
        BY <2>3 DEF WayInv, DockInv, DockTypeOK
      <4> QED
        BY <1>2, <4>1 DEF Parking, KnownOut, Loose
    <3>4. MemoryForm' /\ PlaceForm' /\ OutForm'
      BY <1>2, <2>3, <3>1 DEF Parking, MemoryForm, PlaceForm, OutForm, Inserts, Transfers
    <3>5. LeaveKnows' /\ NavSafe'
      BY <1>2, <3>1, <3>2, <3>3, LooseKept DEF LeaveKnows, NavSafe
    <3> QED
      BY <1>4, <3>4, <3>5 DEF Parking
  <2> QED
    BY <2>2, <2>3
<1>7. ASSUME Leave
      PROVE  Parking'
  <2>1. job'.act = "leave" /\ job'.steps = <<"leave">>
    BY <1>7, CommandFields DEF Leave
  <2>2. LeaveAhead'
    BY <1>2, <2>1 DEF LeaveAhead, LeaveHead
  <2>3. MemoryForm' /\ PlaceForm' /\ OutForm'
    BY <1>2, <2>1, <2>2 DEF Parking, MemoryForm, PlaceForm, OutForm, Inserts, Transfers
  <2>4. LeaveKnows' /\ NavSafe'
    BY <1>2, <2>1, <2>2 DEF LeaveKnows, NavSafe
  <2> QED
    BY <1>4, <2>3, <2>4 DEF Parking
<1>8. ASSUME Park \/ \E act1 \in Transfers, way1 \in Ways : Dock(act1, way1)
      PROVE  Parking'
  <2>1. /\ gate # "none"
        /\ \/ job'.act = "park" /\ job'.steps = <<"park">> /\ job'.site = "home"
           \/ job'.act \in Transfers /\ job'.steps = <<"dock">> /\ job'.site = "slot"
    BY <1>8, CommandFields DEF Park, Dock
  <2>2. parked = "no"
    BY <2>1 DEF WayInv, Form, GateForm, GateOutside, Outside
  <2>3. /\ <<"dock">> # <<>> /\ <<"park">> # <<>>
        /\ Head(<<"dock">>) = "dock" /\ Head(<<"park">>) = "park"
    OBVIOUS
  <2>4. ~LeaveAhead' /\ job'.steps # <<>>
    BY <1>2, <2>1, <2>3 DEF LeaveAhead, LeaveHead
  <2>5. MemoryForm' /\ OutForm'
    BY <1>2, <2>1, <2>2 DEF Parking, MemoryForm, OutForm, Transfers
  <2>6. PlaceForm'
    BY <1>2, <2>1, <2>4 DEF Parking, PlaceForm, Inserts, Transfers
  <2>7. LeaveKnows' /\ NavSafe'
    BY <1>2, <2>1, <2>4 DEF LeaveKnows, NavSafe, Transfers
  <2> QED
    BY <1>4, <2>5, <2>6, <2>7 DEF Parking
<1>9. ASSUME ReverseOut
      PROVE  Parking'
  <2>1. job'.act = "out" /\ job'.steps = <<"out">> /\ spoilt /\ at = "slot"
    BY <1>9, CommandFields DEF ReverseOut
  <2>2. Head(<<"out">>) = "out"
    OBVIOUS
  <2>3. ~LeaveAhead'
    BY <1>2, <2>1, <2>2 DEF LeaveAhead, LeaveHead
  <2>4. MemoryForm' /\ PlaceForm' /\ OutForm'
    BY <1>2, <2>1 DEF Parking, MemoryForm, PlaceForm, OutForm, Inserts, Transfers
  <2>5. LeaveKnows' /\ NavSafe'
    BY <1>2, <2>1, <2>3 DEF LeaveKnows, NavSafe
  <2> QED
    BY <1>4, <2>4, <2>5 DEF Parking
<1> QED
  BY <1>5, <1>6, <1>7, <1>8, <1>9 DEF Request, Transfers

LEMMA BeginParking == ASSUME WayInv, Parking, BeginStep PROVE Parking'
<1>0. job.stage = "next" /\ job.steps # <<>>
  BY DEF BeginStep
<1>1. /\ job'.act = job.act /\ job'.site = job.site /\ job'.steps = Tail(job.steps)
      /\ Head(job.steps) = "leave" => job'.stage = "leave"
      /\ Head(job.steps) # "leave" => job'.stage \in {"nav", "backout", "acquire"}
      /\ Head(job.steps) = "out" => job'.stage = "backout"
      /\ Head(job.steps) \in {"dock", "park"} => job'.stage = "acquire"
  BY Numbers DEF WayInv, BeginStep, Job
<1>2. UNCHANGED <<at, depth, spoilt, parked, stored, fresh>>
  BY DEF BeginStep, body, memory, world
<1>3. LeaveAhead' = LeaveAhead
  BY <1>0, <1>1 DEF LeaveAhead, LeaveHead
<1>4. job.act \in Inserts => job'.stage = "acquire"
  <2>1. job.act \in Inserts => Head(job.steps) \in {"dock", "park"}
    BY <1>0 DEF WayInv, Form, InsertForm, InsertOrder
  <2> QED
    BY <1>1, <2>1
<1>5. job.act = "out" => job'.stage = "backout"
  <2>1. job.act = "out" => Head(job.steps) = "out"
    BY <1>0 DEF Parking, OutForm
  <2> QED
    BY <1>1, <2>1
<1>6. MemoryForm'
  BY <1>0, <1>1, <1>2, <1>3 DEF Parking, MemoryForm, Ended
<1>7. PlaceForm'
  BY <1>1, <1>2, <1>4 DEF Parking, PlaceForm, Inserts
<1>8. OutForm'
  BY <1>1, <1>2, <1>5 DEF Parking, OutForm, Clear
<1>9. DockedAtHome'
  BY <1>0, <1>1, <1>2 DEF Parking, DockedAtHome, Clear, Running, Ended
<1>10. LeaveKnows' /\ NavSafe'
  BY <1>0, <1>1, <1>2, <1>3, SafeKept, LooseKept DEF Parking, LeaveKnows, NavSafe
<1>11. KnownOut'
  BY <1>0, <1>1, <1>2 DEF Parking, KnownOut, Running, Ended, Clear
<1> QED
  BY <1>6, <1>7, <1>8, <1>9, <1>10, <1>11 DEF Parking

LEMMA EndParking == ASSUME WayInv, Parking, EndCommand PROVE Parking'
<1>1. /\ job.stage = "next" /\ job.steps = <<>> /\ job'.act = job.act /\ job'.site = job.site
      /\ job'.steps = <<>> /\ job'.stage = "done"
  BY Numbers DEF WayInv, EndCommand, Finish, Job
<1>2. UNCHANGED <<at, depth, spoilt, parked, stored>>
  BY DEF EndCommand
<1>3. ~LeaveAhead /\ ~LeaveAhead'
  BY <1>1 DEF LeaveAhead, LeaveHead
<1>4. MemoryForm' /\ PlaceForm' /\ OutForm'
  BY <1>1, <1>2, <1>3 DEF Parking, MemoryForm, PlaceForm, OutForm, Ended, Clear
<1>5. DockedAtHome' /\ KnownOut'
  <2>1. CASE job.act \in Transfers
    <3>1. WayBack /\ job.left = 0
      BY <1>1, <2>1 DEF WayInv, Form, TransferForm
    <3>2. Clear(depth)
      BY <3>1, Numbers, Settings DEF WayInv, WayBack, Clear
    <3> QED
      BY <1>1, <1>2, <3>2 DEF DockedAtHome, KnownOut, Clear
  <2>2. CASE job.act = "park"
    BY <1>1, <1>2, <2>2 DEF Parking, PlaceForm, DockedAtHome, KnownOut
  <2>3. CASE job.act \notin Inserts
    BY <1>1, <1>2, <2>3 DEF Parking, DockedAtHome, KnownOut, Clear
  <2> QED
    BY <2>1, <2>2, <2>3 DEF Inserts
<1>6. LeaveKnows' /\ NavSafe'
  <2>1. job.act = "drive" => Clear(depth)
    <3>1. Approach = {<<"nav">>, <<"nav", "align">>} /\ <<"nav">> # <<>> /\ <<"nav", "align">> # <<>>
      BY DEF Approach
    <3>2. job.act = "drive" => depth = 0
      BY <1>1, <3>1 DEF WayInv, Form, GateForm, DriveForm, Drives, LeaveHead, Outside
    <3> QED
      BY <3>2, Settings DEF Clear
  <2>2. job.act = "drive" => Safe /\ Loose
    BY <2>1 DEF Safe, Loose
  <2> QED
    BY <1>1, <1>2, <1>3, <2>2, SafeKept, LooseKept DEF Parking, LeaveKnows, NavSafe
<1> QED
  BY <1>4, <1>5, <1>6 DEF Parking

LEMMA NavParking == ASSUME WayInv, Parking, NavArrives PROVE Parking'
<1>1. /\ job.stage = "nav" /\ job'.act = job.act /\ job'.site = job.site /\ job'.steps = job.steps
      /\ job'.stage = "next" /\ depth' = 0 /\ parked' = "no" /\ stored' = -1
  BY Numbers, ToFields DEF WayInv, NavArrives, SetParked, SameOrder
<1>2. job.act \in Drives
  BY <1>1, Numbers DEF WayInv, Form, GateForm, LeaveForm, InsertForm, InsertOrder, Parking, OutForm,
     Job, Act, Ended, Drives, Inserts, Transfers
<1>3. job.steps \in {<<>>, <<"align">>}
  BY <1>1, <1>2 DEF WayInv, Form, GateForm, DriveForm
<1>4. ~LeaveAhead'
  <2>1. Head(<<"align">>) = "align"
    OBVIOUS
  <2> QED
    BY <1>1, <1>3, <2>1 DEF LeaveAhead, LeaveHead
<1>5. Clear(0) /\ 0 <= Insert + Gap + Drift
  BY Settings, SwayGrows DEF Clear
<1>6. MemoryForm' /\ OutForm' /\ PlaceForm' /\ DockedAtHome' /\ KnownOut'
  BY <1>1, <1>2, <1>5 DEF MemoryForm, OutForm, PlaceForm, DockedAtHome, KnownOut, Drives, Inserts,
     Transfers
<1>7. LeaveKnows' /\ NavSafe'
  BY <1>1, <1>4, <1>5 DEF LeaveKnows, NavSafe, Safe, Loose
<1> QED
  BY <1>6, <1>7 DEF Parking

\* What is known to a leave that is about to decide.
LEMMA LeaveFacts ==
    ASSUME Undisturbed, WayInv, Parking, job.stage = "leave"
    PROVE  /\ fresh /\ job.act \in {"leave", "drive"}
           /\ job.act = "drive" => parked = "yes"
           /\ stored > 0 => stored > 5 /\ depth <= stored + Slack
           /\ parked = "yes" => stored > 0
           /\ ~Clear(depth) /\ ~spoilt => at = "home" /\ depth >= NearPark
           /\ PoseSays = "unknown" <=> job.act = "drive"
           /\ PoseSays = "at_parking" <=> job.act = "leave" /\ at = "home" /\ depth >= NearPark
<1>1. LeaveAhead
  BY DEF LeaveAhead
<1>2. /\ fresh /\ job.act \in {"leave", "drive"}
      /\ job.act = "drive" => parked = "yes"
  BY <1>1 DEF Parking, LeaveKnows
<1>3. MinReverse > 5 /\ MinReverse \in Nat
  BY Settings DEF Undisturbed, LeaveFits
<1>4. stored \in Nat \cup {-1}
  BY Typed DEF WayInv, DockInv, Counts
<1>5. /\ stored > 0 => stored > 5 /\ depth <= stored + Slack
      /\ parked = "yes" => stored > 0
  BY <1>3, <1>4 DEF Parking, MemoryForm
<1>6. ~Clear(depth) /\ ~spoilt => at = "home" /\ depth >= NearPark
  <2>1. job.act \notin Inserts /\ job.stage # "leaving"
    BY <1>2 DEF Inserts, Transfers
  <2> QED
    BY <2>1 DEF Parking, DockedAtHome
<1>7. job.act = "drive" => PoseSays = "unknown"
  BY DEF PoseSays
<1>8. CASE job.act = "leave"
  <2>1. PoseSays = IF at = "home" /\ depth >= NearPark THEN "at_parking" ELSE "away"
    BY <1>2, <1>8, Zenon DEF PoseSays
  <2> QED
    BY <1>2, <1>5, <1>6, <1>8, <2>1
<1>9. CASE job.act = "drive"
  BY <1>2, <1>5, <1>6, <1>7, <1>9
<1> QED
  BY <1>2, <1>8, <1>9

\* A leave that reverses nothing is outside already.
LEMMA LeaveNotSafe ==
    ASSUME Undisturbed, WayInv, Parking, LeaveNot
    PROVE  Safe
<1>0. job.stage = "leave" /\ depth \in Int /\ at \in {"home", "slot"}
  BY Numbers, Typed DEF WayInv, DockInv, Base, Site, LeaveNot
<1>1. PICK sees \in Sees :
         \/ ~ReverseRequired(sees)
         \/ LeaveDistance(sees) <= 5
         \/ \E room \in {0, depth + Room} : RearAllows(room) /\ room <= 20
  BY DEF LeaveNot
<1>2. /\ Fallback > 5 /\ Room > 20 /\ NearPark > 5
      /\ {Fallback, Room, NearPark, Slack} \subseteq Nat
  BY Settings DEF Undisturbed, LeaveFits
<1>3. ~(at = "home" /\ depth >= NearPark) => Safe
  BY <1>0, <1>2, LeaveFacts DEF Safe
<1>4. CASE ~ReverseRequired(sees)
  <2>1. PoseSays # "at_parking" /\ ~(PoseSays = "unknown" /\ parked = "yes")
    BY <1>4 DEF ReverseRequired
  <2>2. job.act = "leave" /\ ~(at = "home" /\ depth >= NearPark)
    BY <1>0, <2>1, LeaveFacts
  <2> QED
    BY <1>3, <2>2
<1>5. CASE LeaveDistance(sees) <= 5
  <2>1. CASE sees /\ job.act = "leave" /\ at = "home"
    <3>1. LeaveDistance(sees) = Most(0, depth)
      BY <2>1 DEF LeaveDistance
    <3>2. depth <= 5
      BY <1>0, <1>5, <3>1 DEF Most
    <3> QED
      BY <1>0, <1>2, <1>3, <3>2
  <2>2. CASE ~(sees /\ job.act = "leave" /\ at = "home")
    <3>1. LeaveDistance(sees) = IF stored > 0 THEN stored ELSE Fallback
      BY <2>2 DEF LeaveDistance
    <3>2. stored \in Nat \cup {-1} /\ (stored > 0 => stored > 5)
      BY <1>0, LeaveFacts, Typed DEF WayInv, DockInv, Counts
    <3> QED
      BY <1>2, <1>5, <3>1, <3>2
  <2> QED
    BY <2>1, <2>2
<1>6. CASE \E room \in {0, depth + Room} : RearAllows(room) /\ room <= 20
  <2>1. depth + Room <= 20
    BY <1>6 DEF RearAllows, Undisturbed
  <2> QED
    BY <1>0, <1>2, <2>1 DEF Safe, Clear
<1> QED
  BY <1>1, <1>4, <1>5, <1>6

\* One that reverses comes out.
LEMMA LeaveGoesOut ==
    ASSUME Undisturbed, WayInv, Parking, job.stage = "leave", NEW sees \in BOOLEAN,
           NEW room \in {Burst, depth + Room}, ReverseRequired(sees), RearAllows(room)
    PROVE  depth - Least(room, LeaveDistance(sees)) <= Slack
<1>0. depth \in Int /\ stored \in Nat \cup {-1}
  BY Numbers, Typed DEF WayInv, DockInv, Counts
<1>1. /\ {Fallback, Room, Slack, Insert, Gap} \subseteq Nat /\ Drift \in Nat
      /\ Fallback + Slack >= Insert + Gap + Drift
  BY Settings, SwayGrows DEF Undisturbed, LeaveFits
<1>2. room = depth + Room
  BY DEF RearAllows, Undisturbed
<1>3. depth - room <= Slack
  BY <1>0, <1>1, <1>2
<1>4. LeaveDistance(sees) \in Int /\ depth - LeaveDistance(sees) <= Slack
  <2>1. CASE sees /\ job.act = "leave" /\ at = "home"
    <3>1. LeaveDistance(sees) = Most(0, depth)
      BY <2>1 DEF LeaveDistance
    <3> QED
      BY <1>0, <1>1, <3>1 DEF Most
  <2>2. CASE ~(sees /\ job.act = "leave" /\ at = "home") /\ stored > 0
    <3>1. LeaveDistance(sees) = stored
      BY <2>2 DEF LeaveDistance
    <3> QED
      BY <1>0, <1>1, <2>2, <3>1, LeaveFacts
  <2>3. CASE ~(sees /\ job.act = "leave" /\ at = "home") /\ ~(stored > 0)
    <3>1. LeaveDistance(sees) = Fallback
      BY <2>3 DEF LeaveDistance
    <3>2. at = "home"
      BY <2>3, LeaveFacts DEF ReverseRequired
    <3>3. depth <= Insert + Gap + Drift
      BY <3>2 DEF Parking, PlaceForm
    <3> QED
      BY <1>0, <1>1, <3>1, <3>3
  <2> QED
    BY <2>1, <2>2, <2>3
<1> QED
  BY <1>3, <1>4 DEF Least

LEMMA LeaveParking ==
    ASSUME Undisturbed, WayInv, Parking, LeaveNot \/ LeaveBegins \/ LeaveEnds
    PROVE  Parking'
<1>1. CASE LeaveBegins
  <2>1. PICK sees \in Sees, room \in {Burst, depth + Room} :
           /\ ReverseRequired(sees) /\ RearAllows(room)
           /\ Travel("leaving", Least(room, LeaveDistance(sees)), -1)
    BY <1>1 DEF LeaveBegins
  <2>2. /\ SameOrder /\ job'.sign = -1 /\ job'.stage = "leaving" /\ job.stage = "leave"
        /\ job'.left = Least(room, LeaveDistance(sees))
        /\ UNCHANGED <<at, depth, spoilt, parked, stored>>
    BY <1>1, <2>1, Numbers, TravelFields DEF WayInv, LeaveBegins, Stay, body, memory
  <2>3. depth - job'.left <= Slack
    BY <2>1, <2>2, LeaveGoesOut DEF Sees
  <2>4. LeaveAhead /\ LeaveAhead' /\ job.act \in {"leave", "drive"}
    BY <2>2, LeaveFacts DEF LeaveAhead
  <2>5. MemoryForm' /\ PlaceForm' /\ OutForm' /\ DockedAtHome'
    BY <2>2, <2>4 DEF Parking, MemoryForm, PlaceForm, OutForm, DockedAtHome, SameOrder, Inserts,
       Transfers, Ended
  <2>6. LeaveKnows' /\ NavSafe'
    BY <2>2, <2>3, <2>4 DEF Parking, LeaveKnows, NavSafe, SameOrder
  <2>7. KnownOut'
    BY <2>2, <2>4 DEF Parking, KnownOut, Running, Ended, SameOrder, Clear
  <2> QED
    BY <2>5, <2>6, <2>7 DEF Parking
<1>2. CASE LeaveNot \/ LeaveEnds
  <2>1. /\ SameOrder /\ job'.stage = "next" /\ job.stage \in {"leave", "leaving"}
        /\ UNCHANGED <<at, depth, spoilt>> /\ parked' = "no" /\ stored' = -1
        /\ job.stage = "leaving" => job.left = 0
    BY <1>2, Numbers, ToFields DEF WayInv, LeaveNot, LeaveEnds, Arrived, SetParked, body
  <2>2. Safe
    <3>1. CASE LeaveNot
      BY <3>1, LeaveNotSafe
    <3>2. CASE LeaveEnds
      <4>1. job.stage = "leaving" /\ job.left = 0
        BY <3>2 DEF LeaveEnds, Arrived
      <4>2. depth - job.left <= Slack
        BY <4>1 DEF Parking, LeaveKnows
      <4> QED
        BY <4>1, <4>2, Numbers DEF WayInv, Safe, Clear
    <3> QED
      BY <1>2, <3>1, <3>2
  <2>3. job.act \in {"leave", "drive"}
    BY <2>1 DEF Parking, LeaveKnows, LeaveAhead
  <2>4. ~LeaveAhead'
    <3>1. job.act = "leave" => job.steps = <<>>
      BY <2>1 DEF WayInv, DockInv, Shape, OneStep
    <3>2. job.act = "drive" => job.steps \in Approach
      BY <2>1 DEF WayInv, Form, GateForm, DriveForm, Drives
    <3> QED
      BY <2>1, <2>3, <3>1, <3>2, Leading DEF LeaveAhead, LeaveHead, SameOrder
  <2>5. DockedAtHome'
    <3>1. CASE job.stage = "leave"
      BY <2>1, <2>3, <3>1 DEF Parking, DockedAtHome, Clear, SameOrder, Inserts, Transfers
    <3>2. CASE job.stage = "leaving"
      <4>1. Clear(depth)
        BY <2>1, <3>2, Numbers DEF WayInv, Parking, LeaveKnows, Clear
      <4> QED
        BY <2>1, <4>1 DEF DockedAtHome, Clear
    <3> QED
      BY <2>1, <3>1, <3>2
  <2>6. MemoryForm' /\ PlaceForm' /\ OutForm'
    BY <2>1, <2>3 DEF Parking, MemoryForm, PlaceForm, OutForm, SameOrder, Inserts, Transfers
  <2>7. LeaveKnows' /\ NavSafe'
    BY <2>1, <2>2, <2>3, <2>4, SafeKept, SafeIsLooseNext DEF LeaveKnows, NavSafe, SameOrder
  <2>8. KnownOut'
    BY <2>1, <2>2, <2>3 DEF KnownOut, Safe, Clear, SameOrder
  <2> QED
    BY <2>5, <2>6, <2>7, <2>8 DEF Parking
<1> QED
  BY <1>1, <1>2

\* In front of the marker and in the dock, as long as the base stands still.
LEMMA WorkParking ==
    ASSUME WayInv, Parking, SameOrder, UNCHANGED <<at, depth, spoilt>>,
           \/ UNCHANGED <<parked, stored>>
           \/ SetParked("no"),
           AtWork \/ job.stage \in {"acquire", "align"},
           job'.stage \notin Ended \cup {"leave", "leaving", "nav", "acquire"},
           job.stage = "acquire" => at = job.site,
           job.act = "park" => job'.stage \notin {"next", "extra"},
           job.act = "out" => job'.stage \in {"next", "reverse"},
           job'.stage = "reverse" => job'.sign = -1
    PROVE  Parking'
<1>1. ~LeaveAhead /\ job.stage \notin Ended \cup {"next", "leave", "leaving"}
  BY DEF LeaveAhead, AtWork, Ended
<1>2. parked # "yes" /\ parked' # "yes" /\ stored' = -1
  <2>1. parked # "yes" /\ stored = -1
    BY <1>1 DEF Parking, MemoryForm, Ended
  <2> QED
    BY <2>1 DEF SetParked
<1>3. job'.stage = "next" => job.steps = <<>>
  <2>1. CASE job.act \in Drives
    BY <2>1, <1>1 DEF WayInv, Form, GateForm, DriveForm, AtWork
  <2>2. CASE job.act \notin Drives
    BY <2>2, <1>1 DEF WayInv, DockInv, Shape, OneStep, Drives
  <2> QED
    BY <2>1, <2>2
<1>4. ~LeaveAhead'
  BY <1>3 DEF LeaveAhead, LeaveHead, SameOrder
<1>5. MemoryForm'
  BY <1>2 DEF MemoryForm
<1>6. PlaceForm'
  BY <1>1 DEF Parking, PlaceForm, SameOrder, Ended
<1>7. OutForm'
  BY <1>3 DEF Parking, OutForm, SameOrder, Clear
<1>8. DockedAtHome'
  BY <1>1 DEF Parking, DockedAtHome, SameOrder, Clear, Running, Ended
<1>9. LeaveKnows'
  BY <1>4 DEF LeaveKnows
<1>10. job.act \in Drives => Clear(depth)'
  <2>1. job.act \in Drives => depth = 0
    BY <1>1 DEF WayInv, Form, GateForm, DriveForm, AtWork, Outside
  <2> QED
    BY <2>1, Settings DEF Clear
<1>11. NavSafe'
  BY <1>1, <1>10, SafeKept DEF Parking, NavSafe, Safe, Loose, Drives, SameOrder, Ended
<1>12. KnownOut'
  <2>1. job.act \in Inserts \cup Drives \cup {"out"}
    BY <1>1, Numbers DEF WayInv, Form, GateForm, LeaveForm, AtWork, Job, Act, Drives, Inserts,
       Transfers
  <2>2. Running'
    BY DEF Running
  <2> QED
    BY <1>7, <1>10, <2>1, <2>2 DEF KnownOut, OutForm, SameOrder
<1> QED
  BY <1>5, <1>6, <1>7, <1>8, <1>9, <1>11, <1>12 DEF Parking

\* An order to leave the slot backward has no other stages than those.
LEMMA OutElsewhere ==
    ASSUME Parking, job.stage \notin Ended \cup {"next", "backout", "reverse"}
    PROVE  job.act # "out"
BY DEF Parking, OutForm

LEMMA WorkStepsParking ==
    ASSUME WayInv, Parking,
           \/ AcquireMarker \/ AlignTurns \/ AlignAdvances \/ AdvanceEnds
           \/ RealignBegins \/ RealignEnds
           \/ LiftIsPrepared \/ Centered \/ CenterTurns \/ CreepEnds
           \/ \E sign \in {-1, 1} : CenterCreeps(sign)
           \/ MetricBegins \/ MetricEnds \/ LiftMoves \/ CarryMoves
    PROVE  Parking'
<1>0. AfterAlign \in {"next", "center", "prelift"} /\ (AfterAlign = "next" => job.act # "park")
  BY DEF AfterAlign
<1>1. job \in Job
  BY Numbers DEF WayInv
<1>2. UNCHANGED <<at, depth, spoilt, parked, stored>>
  BY DEF AcquireMarker, AlignTurns, AlignAdvances, AdvanceEnds, RealignBegins, RealignEnds,
     LiftIsPrepared, Centered, CenterTurns, CreepEnds, CenterCreeps, MetricBegins, MetricEnds, LiftMoves, CarryMoves,
     Stay, body, memory
<1>3. job.stage \in {"acquire", "align", "advance", "realign", "prelift", "center", "creep", "metric",
                    "lift", "carry"}
  BY DEF AcquireMarker, AlignTurns, AlignAdvances, AdvanceEnds, RealignBegins, RealignEnds,
     LiftIsPrepared, Centered, CenterTurns, CreepEnds, CenterCreeps, MetricBegins, MetricEnds, LiftMoves, CarryMoves,
     Arrived
<1>4. /\ SameOrder
      /\ job'.stage \in {"align", "advance", "realign", "center", "prelift", "creep", "insert",
                         "metric", "lift", "carry", "backout", "next"}
      /\ job'.stage = "next" => job.act # "park"
  <2>1. CASE \/ AcquireMarker \/ LiftIsPrepared \/ CreepEnds
             \/ MetricEnds \/ LiftMoves \/ CarryMoves
    <3>1. PICK s \in {AfterAlign, "align", "center", "metric", "lift", "carry", "backout"} : To(s)
      BY <2>1 DEF AcquireMarker, LiftIsPrepared, CreepEnds, MetricEnds, LiftMoves, CarryMoves
    <3> QED
      BY <1>0, <1>1, <3>1, ToFields
  <2>2. CASE AlignAdvances \/ Centered \/ MetricBegins
    <3>1. PICK s \in {"advance", "insert", "metric"} : \E d : Travel(s, d, 1)
      BY <2>2 DEF AlignAdvances, Centered, MetricBegins
    <3>2. PICK d : Travel(s, d, 1)
      BY <3>1
    <3> QED
      BY <1>1, <3>1, <3>2, TravelFields
  <2>3. CASE AlignTurns
    BY <1>0, <1>1, <2>3 DEF AlignTurns, Job, SameOrder
  <2>4. CASE CenterTurns
    BY <1>1, <2>4 DEF CenterTurns, Job, SameOrder
  <2>5. CASE \E sign \in {-1, 1} : CenterCreeps(sign)
    BY <1>1, <2>5 DEF CenterCreeps, Job, SameOrder
  <2>6. CASE AdvanceEnds
    BY <1>0, <1>1, <2>6 DEF AdvanceEnds, Job, SameOrder
  <2>7. CASE RealignBegins
    BY <1>1, <2>7 DEF RealignBegins, Job, SameOrder
  <2>8. CASE RealignEnds
    <3>1. CASE job.way = "pixel"
      BY <1>1, <2>8, <3>1, TravelFields DEF RealignEnds
    <3>2. CASE job.way # "pixel"
      <4>1. job' = [job EXCEPT !.stage = "metric", !.left = 0, !.armed = FALSE]
        BY <2>8, <3>2 DEF RealignEnds, To
      <4> QED
        BY <1>1, <4>1 DEF Job, SameOrder
    <3> QED
      BY <3>1, <3>2
  <2> QED
    BY <2>1, <2>2, <2>3, <2>4, <2>5, <2>6, <2>7, <2>8
<1>5. job.stage = "acquire" => at = job.site
  BY DEF AcquireMarker, AlignTurns, AlignAdvances, AdvanceEnds, RealignBegins, RealignEnds,
     LiftIsPrepared, Centered, CenterTurns, CreepEnds, CenterCreeps, MetricBegins, MetricEnds, LiftMoves, CarryMoves,
     Arrived
<1>6. job.act # "out"
  BY <1>3, OutElsewhere DEF Ended
<1> QED
  BY <1>2, <1>3, <1>4, <1>5, <1>6, WorkParking DEF AtWork, Ended

LEMMA BackParking == ASSUME WayInv, Parking, BackOut \/ ReverseEnds \/ InsertGoesOn PROVE Parking'
<1>1. CASE BackOut
  <2>1. /\ SameOrder /\ job'.sign = -1 /\ job'.stage = "reverse" /\ job.stage = "backout"
        /\ UNCHANGED <<at, depth, spoilt, parked, stored>>
    BY <1>1, Numbers, TravelFields DEF WayInv, BackOut, Stay, body, memory
  <2> QED
    BY <2>1, WorkParking DEF AtWork, Ended
<1>2. CASE ReverseEnds
  <2>1. /\ SameOrder /\ job'.stage = "next" /\ job.stage = "reverse"
        /\ UNCHANGED <<at, depth, spoilt>> /\ SetParked("no")
    BY <1>2, Numbers, ToFields DEF WayInv, ReverseEnds, Arrived, body
  <2>2. job.act # "park"
    BY <2>1 DEF WayInv, Form, InsertForm, InsertOrder, Inserts
  <2> QED
    BY <2>1, <2>2, WorkParking DEF AtWork, Ended
<1>3. CASE InsertGoesOn
  <2>1. /\ SameOrder /\ job'.stage = "extra" /\ job.stage = "insert" /\ job.site = "slot"
        /\ UNCHANGED <<at, depth, spoilt, parked, stored>>
    BY <1>3, Numbers, TravelFields DEF WayInv, InsertGoesOn, WidthStops, Stay, body, memory
  <2>2. job.act # "park"
    BY <2>1 DEF Parking, PlaceForm, Inserts
  <2>3. job.act # "out"
    BY <2>1, OutElsewhere DEF Ended
  <2> QED
    BY <2>1, <2>2, <2>3, WorkParking DEF AtWork, Ended
<1> QED
  BY <1>1, <1>2, <1>3

LEMMA AheadInt == WayInv => Ahead \in Int
BY Numbers, Typed DEF WayInv, DockInv, Counts, Ahead

\* A robot that has parked: its memory is good for the way out.
LEMMA InsertEndsParking ==
    ASSUME Fit, Undisturbed, WayInv, Parking, InsertEnds
    PROVE  Parking'
<1>1. /\ SameOrder /\ job'.stage = (IF job.act = "park" THEN "next" ELSE "lift")
      /\ UNCHANGED <<at, depth, spoilt>>
      /\ IF job.act = "park" THEN parked' = "yes" /\ stored' = acct.ins
         ELSE UNCHANGED <<parked, stored>>
  BY Numbers, ToFields DEF WayInv, InsertEnds, body
<1>2. \/ job.stage = "insert" /\ (job.left = 0 \/ (job.armed /\ depth >= StopAt))
      \/ job.stage = "extra"
  BY DEF InsertEnds, Inserted, WidthStops
<1>3. job.act # "out"
  BY <1>2, OutElsewhere DEF Ended
<1>4. CASE job.act # "park"
  BY <1>1, <1>2, <1>3, <1>4, WorkParking DEF AtWork, Ended
<1>5. CASE job.act = "park"
  <2>1. job.stage = "insert" /\ at = "home" /\ job.act \in Inserts
    BY <1>2, <1>5 DEF Parking, PlaceForm, Inserts, Ended
  <2>2. LongEnough
    BY <1>2, <2>1, InsertionLong
  <2>3. acct.creep <= Drift /\ Drift \in Nat /\ -acct.creep <= Drift
    <3>1. Sway(job.n) <= Drift /\ Sway(job.n) \in Nat /\ Drift \in Nat
      BY <2>2, Numbers, SwayGrows DEF WayInv, LongEnough, Crept
    <3> QED
      BY <2>2, <3>1, Numbers DEF WayInv, LongEnough, Crept
  <2>4. depth <= acct.ins + Slack
    <3>1. /\ Slack >= Gap + Drift /\ Slack \in Nat /\ Gap \in Nat
          /\ depth = acct.ins + acct.creep + Ahead /\ Ahead <= Gap
      BY <2>2, Settings DEF Undisturbed, LeaveFits, LongEnough, Exact, Near
    <3> QED
      BY <2>3, <3>1, AheadInt, Numbers DEF WayInv
  <2>5. depth >= NearPark
    <3>1. CASE job.left = 0
      <4>1. acct.ins + job.left = Insert
        BY <2>1, WorkFacts DEF InsertCounts
      <4>2. /\ Insert >= NearPark + Drift + Backoff
            /\ {Insert, NearPark, Backoff} \subseteq Nat
            /\ depth = acct.ins + acct.creep + Ahead /\ Ahead >= -Backoff
        BY <2>2, Settings DEF Undisturbed, LeaveFits, LongEnough, Exact, Near
      <4> QED
        BY <2>3, <3>1, <4>1, <4>2, AheadInt, Numbers DEF WayInv
    <3>2. CASE depth >= StopAt
      BY <3>2, Numbers, Settings DEF WayInv, Undisturbed, LeaveFits
    <3> QED
      BY <1>2, <2>1, <3>1, <3>2
  <2>6. job.steps = <<>>
    BY <1>5, <2>1 DEF WayInv, DockInv, Shape, OneStep
  <2>7. ~LeaveAhead'
    BY <1>1, <1>5, <2>6 DEF LeaveAhead, LeaveHead, SameOrder
  <2>8. MemoryForm'
    BY <1>1, <1>5, <2>1, <2>2, <2>4, <2>6 DEF MemoryForm, SameOrder, LongEnough
  <2>9. PlaceForm' /\ OutForm'
    BY <1>1, <1>5, <2>1, <2>5 DEF Parking, PlaceForm, OutForm, SameOrder, Ended
  <2>10. DockedAtHome'
    BY <1>1, <2>1, <2>5 DEF DockedAtHome
  <2>11. LeaveKnows' /\ NavSafe' /\ KnownOut'
    BY <1>1, <1>5, <2>7 DEF LeaveKnows, NavSafe, KnownOut, SameOrder
  <2> QED
    BY <2>8, <2>9, <2>10, <2>11 DEF Parking
<1> QED
  BY <1>4, <1>5

LEMMA ArmParking == ASSUME WayInv, Parking, Arm \/ BurstIgnored PROVE Parking'
<1>1. /\ SameOrder /\ job'.sign = job.sign /\ job'.stage = job.stage /\ job.stage \in Moving
      /\ UNCHANGED <<at, depth, spoilt, parked, stored, fresh>>
      /\ job.stage = "leaving" => job'.left = job.left
  BY Numbers DEF WayInv, Arm, BurstIgnored, Approaches, Job, SameOrder, Moving, Stay, body, memory,
     world
<1>2. LeaveAhead' = LeaveAhead
  BY <1>1 DEF LeaveAhead, LeaveHead, SameOrder
<1>3. MemoryForm' /\ PlaceForm' /\ OutForm' /\ DockedAtHome'
  BY <1>1, <1>2 DEF Parking, MemoryForm, PlaceForm, OutForm, DockedAtHome, Clear, Running, SameOrder,
     Moving, Ended
<1>4. LeaveKnows' /\ NavSafe'
  BY <1>1, <1>2, SafeKept, LooseKept DEF Parking, LeaveKnows, NavSafe, SameOrder
<1>5. KnownOut'
  BY <1>1 DEF Parking, KnownOut, Running, SameOrder, Moving, Ended, Clear
<1> QED
  BY <1>3, <1>4, <1>5 DEF Parking

\* A park never gets deeper than it is counted.
ParkBounded ==
    job.act = "park" /\ job.stage \in {"advance", "realign", "creep", "insert"} /\ ~estop =>
        depth <= Insert + Gap + Drift

LEMMA ParkDepth == WayInv => ParkBounded
<1> SUFFICES ASSUME WayInv, job.act = "park",
                    job.stage \in {"advance", "realign", "creep", "insert"}, ~estop
             PROVE  depth <= Insert + Gap + Drift
  BY DEF ParkBounded
<1>0. {Insert, Gap} \subseteq Nat /\ Drift \in Nat
  BY Settings, SwayGrows
<1>1. InsertCounts /\ job.act \in Inserts /\ job.way = "pixel"
  BY DEF WayInv, Form, InsertForm, InsertOrder, Inserts
<1>2. job.n <= Cycles => Sway(job.n) <= Drift
  BY Numbers, SwayGrows DEF WayInv
<1>3. Sway(job.n) \in Nat /\ Ahead \in Int
  BY Numbers, SwayGrows, AheadInt DEF WayInv
<1>4. CASE job.stage \in {"advance", "realign"}
  <2>1. depth = acct.ins + acct.creep + Ahead /\ acct.ins = 0 /\ acct.creep = 0 /\ Ahead <= Gap
    BY <1>1, <1>4 DEF InsertCounts, Exact, Near
  <2> QED
    BY <1>0, <1>3, <2>1, Numbers DEF WayInv
<1>5. CASE job.stage = "creep"
  <2>1. /\ depth = acct.ins + acct.creep + Ahead /\ acct.ins = 0 /\ Ahead <= Gap
        /\ acct.creep + job.left <= Sway(job.n) /\ job.n <= Cycles
    BY <1>1, <1>5 DEF InsertCounts, Exact, Near
  <2> QED
    BY <1>0, <1>2, <1>3, <2>1, Numbers DEF WayInv
<1>6. CASE job.stage = "insert"
  <2>1. /\ depth = acct.ins + acct.creep + Ahead /\ Ahead <= Gap
        /\ acct.ins + job.left = Insert /\ acct.creep <= Sway(job.n) /\ job.n <= Cycles
    BY <1>1, <1>6 DEF InsertCounts, Exact, Halted, Crept, Near
  <2> QED
    BY <1>0, <1>2, <1>3, <2>1, Numbers DEF WayInv
<1> QED
  BY <1>4, <1>5, <1>6

LEMMA ParkDepthNext == WayInv' => ParkBounded'
BY ParkDepth, PTL

LEMMA MoveParking ==
    ASSUME WayInv, WayInv', Parking, Move1
    PROVE  Parking'
<1>0. /\ Step \in Nat /\ job.left \in Nat /\ job.left - Step \in Nat /\ depth \in Int
      /\ job.sign \in {-1, 1} /\ job \in Job
  BY Numbers, BurstFits DEF WayInv
<1>1. /\ SameOrder /\ job'.left = job.left - Step /\ job'.sign = job.sign
      /\ job'.stage = job.stage
  <2>1. job' = [job EXCEPT !.left = job.left - Step, !.armed = FALSE]
    BY DEF Move1, Stepped
  <2> QED
    BY <1>0, <2>1 DEF Job, SameOrder
<1>2. /\ job.stage \in Moving /\ ~estop /\ ~estop' /\ at' = at
      /\ depth' = depth + job.sign * Step
      /\ UNCHANGED <<parked, stored, fresh>>
  BY DEF Move1, Roll, memory, world
<1>3. spoilt => spoilt' \/ depth' <= Slack
  BY <1>2 DEF Move1, Roll, Clear
<1>4. job.sign = -1 => depth' = depth - Step
  BY <1>0, <1>2
<1>5. {Insert, Gap, Slack} \subseteq Nat /\ Drift \in Nat
  BY Settings, SwayGrows
<1>6. LeaveAhead' = LeaveAhead
  BY <1>1 DEF LeaveAhead, LeaveHead, SameOrder
<1>7. CASE job.stage = "leaving"
  <2>1. /\ LeaveAhead /\ job.act \in {"leave", "drive"} /\ job.sign = -1
        /\ depth - job.left <= Slack
        /\ job.act = "drive" => parked = "yes"
    BY <1>7 DEF Parking, LeaveKnows, LeaveAhead
  <2>2. depth' \in Int /\ depth' <= depth /\ depth' - job'.left <= Slack
    BY <1>0, <1>1, <1>4, <1>5, <2>1
  <2>3. MemoryForm'
    <3>1. stored \in Nat \cup {-1}
      BY Typed DEF WayInv, DockInv, Counts
    <3>2. parked = "yes" => depth' <= stored + Slack
      BY <1>0, <1>5, <2>2, <3>1 DEF Parking, MemoryForm
    <3> QED
      BY <1>1, <1>2, <1>6, <2>1, <3>2 DEF Parking, MemoryForm, SameOrder
  <2>4. PlaceForm' /\ OutForm'
    <3>1. at = "home" => depth' <= Insert + Gap + Drift
      BY <1>0, <1>5, <2>2 DEF Parking, PlaceForm
    <3> QED
      BY <1>1, <1>2, <2>1, <3>1 DEF PlaceForm, OutForm, SameOrder, Inserts, Transfers
  <2>5. DockedAtHome' /\ LeaveKnows' /\ NavSafe'
    BY <1>1, <1>2, <1>6, <1>7, <2>1, <2>2 DEF DockedAtHome, LeaveKnows, NavSafe, SameOrder
  <2>6. KnownOut'
    <3>1. job.act \notin Inserts /\ job.act # "park"
      BY <2>1 DEF Inserts, Transfers
    <3>2. parked' = "no" /\ ~spoilt' => depth' <= Slack
      <4>1. CASE spoilt
        BY <1>3, <4>1
      <4>2. CASE ~spoilt
        <5>1. parked = "no" => depth <= Slack
          BY <3>1, <4>2 DEF Parking, KnownOut, Clear
        <5> QED
          BY <1>0, <1>2, <1>5, <2>2, <5>1
      <4> QED
        BY <4>1, <4>2
    <3> QED
      BY <1>1, <3>1, <3>2 DEF KnownOut, SameOrder, Clear
  <2> QED
    BY <2>3, <2>4, <2>5, <2>6 DEF Parking
<1>8. CASE job.stage # "leaving"
  <2>1. AtWork /\ ~LeaveAhead
    BY <1>2, <1>8 DEF AtWork, LeaveAhead, Moving, Ended
  <2>2. job.act \in Inserts \cup {"out"}
    BY <1>0, <2>1 DEF WayInv, Form, GateForm, DriveForm, LeaveForm, AtWork, Job, Act, Drives, Inserts,
       Transfers
  <2>3. MemoryForm'
    BY <1>2, <2>1 DEF Parking, MemoryForm, AtWork, Ended
  <2>4. PlaceForm'
    <3>1. at = "home" => depth' <= Insert + Gap + Drift
      <4>1. CASE job.act = "park"
        <5>1. job.stage \in {"advance", "realign", "creep", "insert"}
          BY <1>2, <1>8, <4>1 DEF Moving, WayInv, Form, InsertForm, InsertOrder, Inserts, Parking,
             PlaceForm
        <5> QED
          BY <1>1, <1>2, <4>1, <5>1, ParkDepthNext DEF ParkBounded, SameOrder
      <4>2. CASE job.act \in Transfers
        BY <2>1, <4>2 DEF Parking, PlaceForm, AtWork, Inserts, Transfers
      <4>3. CASE job.act = "out"
        BY <4>3 DEF Parking, OutForm
      <4> QED
        BY <2>2, <4>1, <4>2, <4>3 DEF Inserts
    <3> QED
      BY <1>1, <1>2, <2>1, <3>1 DEF Parking, PlaceForm, SameOrder, AtWork, Ended
  <2>5. OutForm'
    <3> SUFFICES ASSUME job.act = "out"
                 PROVE  OutForm'
      BY <1>1 DEF OutForm, SameOrder
    <3>1. /\ at = "slot" /\ (Clear(depth) \/ spoilt) /\ job.stage = "reverse" /\ job.sign = -1
      BY <1>2 DEF Parking, OutForm, Moving, Ended
    <3>2. Clear(depth)' \/ spoilt'
      <4>1. CASE Clear(depth)
        BY <1>0, <1>4, <1>5, <3>1, <4>1 DEF Clear
      <4>2. CASE spoilt
        BY <1>3, <4>2 DEF Clear
      <4> QED
        BY <3>1, <4>1, <4>2
    <3> QED
      BY <1>1, <1>2, <3>1, <3>2 DEF OutForm, SameOrder
  <2>6. DockedAtHome'
    <3>1. job'.act \notin Inserts => Clear(depth)' \/ spoilt'
      BY <1>1, <2>2, <2>5 DEF OutForm, SameOrder
    <3>2. Running'
      BY <1>1, <2>1 DEF Running, AtWork
    <3> QED
      BY <3>1, <3>2 DEF DockedAtHome
  <2>7. LeaveKnows' /\ NavSafe'
    BY <1>1, <1>6, <1>8, <2>1, <2>2 DEF LeaveKnows, NavSafe, SameOrder, Inserts, Transfers
  <2>8. KnownOut'
    <3>1. Running' /\ job'.stage # "next"
      BY <1>1, <2>1 DEF Running, AtWork
    <3> QED
      BY <1>1, <2>2, <2>5, <3>1 DEF KnownOut, OutForm, SameOrder
  <2> QED
    BY <2>3, <2>4, <2>5, <2>6, <2>7, <2>8 DEF Parking
<1> QED
  BY <1>7, <1>8

-----------------------------------------------------------------------------
(* The theorem about Nav2.                                                 *)

LEMMA ParkingStep ==
    ASSUME Fit, Undisturbed, WayInv, WayInv', Parking, [DockingNext]_dockVars
    PROVE  Parking'
<1>1. ActuatorStep => Parking'
  BY BeginParking, EndParking, NavParking, FailParking, LeaveParking, WorkStepsParking, ArmParking,
     MoveParking, InsertEndsParking, BackParking DEF ActuatorStep
<1>2. Request => Parking'
  BY RequestParking
<1>3. Upset \/ UNCHANGED dockVars => Parking'
  BY UpsetParking
<1> QED
  BY <1>1, <1>2, <1>3 DEF DockingNext

\* Nav2 takes over a robot only outside of a dock, unless a command has broken
\* off, or the move is no order's and the process has restarted since the robot
\* parked (StuckInside names both).  But for that the parked robot is known from
\* the pose or from the distance that is stored with it, which brings it out
\* (execute_leave_dock_step, resolve_leave_dock_distance_m), and a transfer has
\* come out by what it counted.  Undisturbed leaves out a leave that begins with
\* stale sensors, or with somebody behind the robot.
THEOREM NavStartsOutside ==
    ASSUME Fit, Undisturbed
    PROVE  DockingSpec => DriveFromOutside
<1>1. DockingInit => WayInv /\ Parking
  BY WayInitInv, ParkingInit
<1>2. WayInv /\ Parking /\ [DockingNext]_dockVars => (WayInv /\ Parking)'
  BY WayStep, ParkingStep
<1>3. DockingSpec => [](WayInv /\ Parking)
  BY <1>1, <1>2, PTL DEF DockingSpec
<1>4. WayInv /\ Parking /\ [DockingNext]_dockVars =>
        [job.stage = "nav" /\ at' = job.site /\ job'.stage = "next"
           => Clear(depth) \/ StuckInside]_dockVars
  <2> SUFFICES ASSUME WayInv, Parking, job.stage = "nav"
               PROVE  Clear(depth) \/ StuckInside
    OBVIOUS
  <2>1. job.act \in Drives
    BY Numbers DEF WayInv, Form, GateForm, LeaveForm, InsertForm, InsertOrder, Parking, OutForm,
       Job, Act, Ended, Drives, Inserts, Transfers
  <2>2. ~LeaveAhead
    BY DEF LeaveAhead
  <2> QED
    BY <2>1, <2>2 DEF Parking, NavSafe, Drives, Safe, Loose, StuckInside
<1> QED
  BY <1>3, <1>4, PTL DEF DockingSpec, DriveFromOutside
=============================================================================
