---------------------------- MODULE NavContract ----------------------------
(***************************************************************************)
(* What one Nav server process (one robot) promises to Main: the registry  *)
(* of movement commands, the ARRIVED gate a dock command consumes, the     *)
(* E-stop latch and the callbacks on their way to Main.                    *)
(*                                                                         *)
(* A command is "ACTIVE" from its registration until its executor thread   *)
(* ends it: Nav's ACCEPTED and RUNNING, which every handler here treats    *)
(* alike.  The registry lives in memory and only the terminal callbacks    *)
(* (the ones Main's orchestrator acts upon) are kept in the mail.          *)
(***************************************************************************)
EXTENDS Naturals, FiniteSets

CONSTANTS
    Command,     \* the movement command identities
    Opens,       \* move_to_point commands: they end ARRIVED and open the gate
    Consumes,    \* dock_transfer and aruco_align commands: they need the gate
    NoCommand    \* "no command holds the gate"

ASSUME NavAssumption ==
    /\ Opens \subseteq Command
    /\ Consumes \subseteq Command
    /\ Opens \cap Consumes = {}
    /\ NoCommand \notin Command

VARIABLES
    nav,         \* runtime.movement_commands: the state of every command
    gate,        \* runtime.last_arrived_gate_by_robot
    estop,       \* navigator.safety.estop
    mail         \* command callbacks posted and not yet delivered

navVars == <<nav, gate, estop, mail>>

NavState == {"NONE", "ACTIVE", "DONE", "ARRIVED", "FAILED", "ABORTED",
             "CANCEL_REQUESTED", "CANCELED", "STOP_UNCONFIRMED"}

\* The states cancel_command answers at once, without stopping the robot.
CancelTerminal == {"DONE", "FAILED", "ABORTED", "CANCELED"}

\* What a callback or a status answer tells Main.  "ESTOP" is the event
\* ABORTED with the reason "estop", which only a callback carries.
Event == {"DONE", "ARRIVED", "FAILED", "ABORTED", "ESTOP", "CANCELLED",
          "STOP_UNCONFIRMED"}

Letter == [cmd : Command, ev : Event]

NavTypeOK ==
    /\ nav \in [Command -> NavState]
    /\ gate \in Command \cup {NoCommand}
    /\ estop \in BOOLEAN
    /\ mail \subseteq Letter

NavInit ==
    /\ nav = [c \in Command |-> "NONE"]
    /\ gate = NoCommand
    /\ estop = FALSE
    /\ mail = {}

Active == {c \in Command : nav[c] = "ACTIVE"}

Post(c, e) == mail' = mail \cup {[cmd |-> c, ev |-> e]}

-----------------------------------------------------------------------------
(* The POST of a robot command.  The conversion of a dock command consumes *)
(* the gate before the registry is asked whether the command is known.     *)

GateUsable == gate # NoCommand /\ nav[gate] = "ARRIVED"

\* The gate is popped by a dock command, usable or not, whatever follows.
GateAfter(c) == IF c \in Consumes THEN NoCommand ELSE gate

\* 409: no gate, or its move has been canceled or timed out meanwhile.
RefuseGate(c) ==
    /\ c \in Consumes
    /\ ~GateUsable
    /\ gate' = NoCommand
    /\ UNCHANGED <<nav, estop, mail>>

Admitted(c) == c \in Consumes => GateUsable

\* mutant: a command that ended is run again
RegisterEnded(c) ==
    /\ Admitted(c)
    /\ Active = {}
    /\ nav' = [nav EXCEPT ![c] = "ACTIVE"]
    /\ gate' = GateAfter(c)
    /\ UNCHANGED <<estop, mail>>

\* accepted: a new command is registered.
Register(c) ==
    /\ Admitted(c)
    /\ nav[c] = "NONE"
    /\ Active = {}
    /\ nav' = [nav EXCEPT ![c] = "ACTIVE"]
    /\ gate' = GateAfter(c)
    /\ UNCHANGED <<estop, mail>>

\* accepted: the command is known, whatever its state, and is not run again.
Duplicate(c) ==
    /\ Admitted(c)
    /\ nav[c] # "NONE"
    /\ gate' = GateAfter(c)
    /\ UNCHANGED <<nav, estop, mail>>

\* 409: the robot runs another command.
RefuseBusy(c) ==
    /\ Admitted(c)
    /\ nav[c] = "NONE"
    /\ Active # {}
    /\ gate' = GateAfter(c)
    /\ UNCHANGED <<nav, estop, mail>>

\* 409 or 503: localization, Nav2 or bringup not ready.
RefuseNotReady(c) ==
    /\ Admitted(c)
    /\ gate' = GateAfter(c)
    /\ UNCHANGED <<nav, estop, mail>>

Accept(c) == Register(c) \/ Duplicate(c)

Refuse(c) == RefuseGate(c) \/ RefuseBusy(c)

-----------------------------------------------------------------------------
(* The executor thread, ending by compare-and-set from RUNNING.            *)

Complete(c) ==
    /\ nav[c] = "ACTIVE"
    /\ LET end == IF c \in Opens THEN "ARRIVED" ELSE "DONE"
       IN  /\ nav' = [nav EXCEPT ![c] = end]
           /\ Post(c, end)
    /\ gate' = IF c \in Opens THEN c ELSE gate
    /\ UNCHANGED estop

Fail(c) ==
    /\ nav[c] = "ACTIVE"
    /\ nav' = [nav EXCEPT ![c] = "FAILED"]
    /\ Post(c, "FAILED")
    /\ UNCHANGED <<gate, estop>>

\* CommandAborted("estop") raised between two steps of the command.
AbortByEstop(c) ==
    /\ nav[c] = "ACTIVE"
    /\ estop
    /\ nav' = [nav EXCEPT ![c] = "ABORTED"]
    /\ Post(c, "ESTOP")
    /\ UNCHANGED <<gate, estop>>

\* Nobody consumed the gate within gate_timeout_sec.
GateTimeout(c) ==
    /\ nav[c] = "ARRIVED"
    /\ gate = c
    /\ nav' = [nav EXCEPT ![c] = "ABORTED"]
    /\ gate' = NoCommand
    /\ Post(c, "ABORTED")
    /\ UNCHANGED estop

-----------------------------------------------------------------------------
(* Cancel and E-stop requests.                                             *)

\* An unknown command is reserved as canceled, so that a request still on
\* its way finds a duplicate.
CancelUnknown(c) ==
    /\ nav[c] = "NONE"
    /\ nav' = [nav EXCEPT ![c] = "CANCELED"]
    /\ UNCHANGED <<gate, estop, mail>>

CancelSettled(c) ==
    /\ nav[c] \in CancelTerminal \cup {"STOP_UNCONFIRMED"}
    /\ UNCHANGED navVars

CancelBegin(c) ==
    /\ nav[c] \in {"ACTIVE", "ARRIVED", "CANCEL_REQUESTED"}
    /\ nav' = [nav EXCEPT ![c] = "CANCEL_REQUESTED"]
    /\ gate' = IF gate = c THEN NoCommand ELSE gate
    /\ UNCHANGED <<estop, mail>>

Cancel(c) == CancelUnknown(c) \/ CancelSettled(c) \/ CancelBegin(c)

\* Callbacks are kept under the name Main gives their event: Nav spells this
\* one CANCELED.
\* mutant: Main does not translate Nav's spelling
CancelConfirmVerbatim(c) ==
    /\ nav[c] = "CANCEL_REQUESTED"
    /\ nav' = [nav EXCEPT ![c] = "CANCELED"]
    /\ Post(c, "CANCELED")
    /\ UNCHANGED <<gate, estop>>

CancelConfirm(c) ==
    /\ nav[c] = "CANCEL_REQUESTED"
    /\ nav' = [nav EXCEPT ![c] = "CANCELED"]
    /\ Post(c, "CANCELLED")
    /\ UNCHANGED <<gate, estop>>

\* The base, Nav2 or the lift did not confirm the stop: latch the E-stop.
CancelUnconfirmed(c) ==
    /\ nav[c] = "CANCEL_REQUESTED"
    /\ nav' = [nav EXCEPT ![c] = "STOP_UNCONFIRMED"]
    /\ estop' = TRUE
    /\ UNCHANGED <<gate, mail>>

Estop ==
    /\ estop' = TRUE
    /\ nav' = [c \in Command |-> IF nav[c] = "ACTIVE" THEN "ABORTED" ELSE nav[c]]
    /\ mail' = mail \cup [cmd : Active, ev : {"ESTOP"}]
    /\ UNCHANGED gate

ClearEstop ==
    /\ estop
    /\ estop' = FALSE
    /\ UNCHANGED <<nav, gate, mail>>
=============================================================================
