----------------------------- MODULE WorkOrder -----------------------------
(***************************************************************************)
(* What a work order promises to the warehouse, whatever happens between   *)
(* Main, Nav and the persons around them: the robot works only while the   *)
(* order runs, and the order ends once, in one of three ways whose record  *)
(* agrees with the floor.                                                  *)
(***************************************************************************)
EXTENDS Naturals

VARIABLES
    status,      \* of the order
    robot,       \* "BUSY" while reserved for the order, else "IDLE"
    applied,     \* how often the inventory was moved
    moving,      \* a command is running on the robot
    cargo,       \* the pallet is on the forks
    delivered    \* the pallet was put down at its destination

floor == <<moving, cargo, delivered>>
order == <<status, robot, applied>>

Init ==
    /\ status = "ASSIGNED" /\ robot = "BUSY" /\ applied = 0
    /\ moving = FALSE /\ cargo = FALSE /\ delivered = FALSE

Start ==
    /\ status = "ASSIGNED"
    /\ status' = "RUNNING"
    /\ UNCHANGED <<robot, applied, floor>>

\* Commands start and end; the pallet changes place under a running command
\* only, and is delivered at most once.
Work ==
    /\ status = "RUNNING"
    /\ moving' \in BOOLEAN
    /\ cargo' \in IF moving THEN BOOLEAN ELSE {cargo}
    /\ delivered' \in {delivered} \cup (IF moving THEN {TRUE} ELSE {})
    /\ UNCHANGED order

\* The order may end when the robot is at rest, which is then free.
End(s) ==
    /\ status = "RUNNING"
    /\ ~moving
    /\ status' = s
    /\ robot' = "IDLE"
    /\ UNCHANGED floor

\* The inventory is moved with the completion, and only for goods delivered.
Complete == delivered /\ End("DONE") /\ applied' = applied + 1

\* A failure loses no delivery, a cancellation no pallet either.
Fail == ~delivered /\ End("FAILED") /\ UNCHANGED applied

Cancel == ~delivered /\ ~cargo /\ End("CANCELLED") /\ UNCHANGED applied

Next == Start \/ Work \/ Complete \/ Fail \/ Cancel

Spec == Init /\ [][Next]_<<order, floor>>
=============================================================================
