-------------------------- MODULE CommandRegistry --------------------------
(***************************************************************************)
(* What the command registry of the Nav servers promises, as if every      *)
(* operation were one step: a command comes into force once, alone on its  *)
(* robot and with its whole route to itself, runs when the robot's         *)
(* executor is free, and ends once.  What is told to Main is told with the *)
(* end that it reports.  A command that was stopped stays stopped.         *)
(***************************************************************************)
CONSTANTS
    NavCmd,      \* the command identities
    RobotOf,     \* the robot that a command is for
    Docks,       \* the commands that end a visit, the others may arrive
    Segment,     \* traffic segments
    Robot,
    NoCmd

VARIABLES
    reg,         \* the state of every command
    route,       \* the segments that a command in force has to itself
    busy,        \* the command that a robot's executor is occupied with
    told         \* the ends told to Main

registryVars == <<reg, route, busy, told>>

InForce == {"ACCEPTED", "RUNNING"}
Stopped == {"CANCEL_REQUESTED", "CANCELED", "ABORTED", "STOP_UNCONFIRMED"}

RegistryInit ==
    /\ reg = [c \in NavCmd |-> "NONE"]
    /\ route = [c \in NavCmd |-> {}]
    /\ busy = [r \in Robot |-> NoCmd]
    /\ told = {}

Become(c, e) ==
    /\ reg' = [reg EXCEPT ![c] = e]
    /\ route' = [route EXCEPT ![c] = {}]
Tell(c, e) == told' = told \cup {<<c, e>>}

Accept(c) ==
    /\ reg[c] = "NONE"
    /\ \A d \in NavCmd : reg[d] \in InForce => RobotOf[d] # RobotOf[c]
    /\ \E S \in SUBSET Segment :
           /\ \A d \in NavCmd : route[d] \cap S = {}
           /\ route' = [route EXCEPT ![c] = S]
    /\ reg' = [reg EXCEPT ![c] = "ACCEPTED"]
    /\ UNCHANGED <<busy, told>>

Start(c) ==
    /\ reg[c] = "ACCEPTED"
    /\ busy[RobotOf[c]] = NoCmd
    /\ reg' = [reg EXCEPT ![c] = "RUNNING"]
    /\ busy' = [busy EXCEPT ![RobotOf[c]] = c]
    /\ UNCHANGED <<route, told>>

\* The executor ends what it runs.
End(c) ==
    /\ reg[c] = "RUNNING"
    /\ busy[RobotOf[c]] = c
    /\ \E e \in {IF c \in Docks THEN "DONE" ELSE "ARRIVED", "FAILED", "ABORTED"} :
           Become(c, e) /\ Tell(c, e)
    /\ UNCHANGED busy

\* The executor turns to the next command.
Leave(c) ==
    /\ busy[RobotOf[c]] = c
    /\ reg[c] \notin InForce
    /\ busy' = [busy EXCEPT ![RobotOf[c]] = NoCmd]
    /\ UNCHANGED <<reg, route, told>>

\* E-stop, or the timeout of a gate.
Abort(c) ==
    /\ reg[c] \in InForce \cup {"ARRIVED", "CANCEL_REQUESTED", "STOP_UNCONFIRMED"}
    /\ Become(c, "ABORTED") /\ Tell(c, "ABORTED")
    /\ UNCHANGED busy

\* A cancel of a command that never came reserves its identity.
Reserve(c) ==
    /\ reg[c] = "NONE"
    /\ Become(c, "CANCELED")
    /\ UNCHANGED <<busy, told>>

RequestCancel(c) ==
    /\ reg[c] \in InForce \cup {"ARRIVED", "CANCEL_REQUESTED"}
    /\ Become(c, "CANCEL_REQUESTED")
    /\ UNCHANGED <<busy, told>>

\* The robot was seen to stand, or was not.
ResolveCancel(c) ==
    /\ reg[c] \in Stopped
    /\ \/ Become(c, "CANCELED") /\ Tell(c, "CANCELED")
       \/ Become(c, "STOP_UNCONFIRMED") /\ UNCHANGED told
    /\ UNCHANGED busy

RegistryNext == \E c \in NavCmd :
    \/ Accept(c) \/ Start(c) \/ End(c) \/ Leave(c)
    \/ Abort(c) \/ Reserve(c) \/ RequestCancel(c) \/ ResolveCancel(c)

RegistrySpec == RegistryInit /\ [][RegistryNext]_registryVars
=============================================================================
