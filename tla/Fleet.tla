------------------------------- MODULE Fleet -------------------------------
(***************************************************************************)
(* The order book of the main server: who may claim what.  A work order    *)
(* claims a bin (a floor of a storage slot) when it is created and a robot *)
(* when it is assigned; it is started, carried out, chained to the next    *)
(* order on the same robot, booked, failed or canceled.                    *)
(*                                                                         *)
(* PostgreSQL runs at READ COMMITTED: every statement sees what is         *)
(* committed when it begins.  An action is the part of a transaction       *)
(* between two statements that others may overtake, or between a lock that *)
(* it waits for and the next.  Claims that are not committed yet are kept  *)
(* in the transaction; their rows are locked.                              *)
(*                                                                         *)
(* How the robot carries an order out is Orchestrator's; here it is one    *)
(* phase that ends well or not.                                            *)
(***************************************************************************)
EXTENDS Naturals, FiniteSets, FiniteSetsExt

CONSTANTS
    Task,        \* the orders; of two with one priority the smaller is older
    Robot,       \* the robots, in the order of list_idle
    Bin,         \* the bins, in the order of the planner
    Wish,        \* what is ordered: the operation, the quantity, the bins; or
                 \* only those of a slot that the order names
    CapableOf,   \* the robots that have the capabilities of an order
    Priority,    \* the priorities that an operator gives
    InitStock,
    InitStaging, \* what lies at the inbound location
    Proc,        \* the request threads and the poller
    Days         \* what a behaviour may meet: the orders that are made already,
                 \* with their bins, those to be made, the requests, the upsets

\* "plan", "cancel", "start": the transaction is overtaken between its reads
\* and its writes.  "refused": a start is refused.  "upsert": the operator
\* saves a robot as idle.  "evidence": an evidence-only run takes a robot.
\* "held": orders are held.  "unready": robots are not ready at times.
UpsetKind == {"plan", "cancel", "start", "refused", "upsert", "evidence", "held", "unready"}

\* "tick": auto_assign by request; "poll": the poller's, which starts what it
\* has assigned.
Request == {"create", "priority", "assign", "tick", "poll", "start", "cancel"}

ASSUME FleetAssumption ==
    /\ Task \subseteq Nat \ {0} /\ IsFiniteSet(Task)
    /\ Robot \subseteq Nat \ {0}
    /\ Bin \subseteq Nat \ {0}
    /\ Wish \in [Task -> [op : {"in", "out"}, qty : Nat \ {0}, bins : SUBSET Bin, named : BOOLEAN]]
    /\ CapableOf \in [Task -> SUBSET Robot]
    /\ Priority \subseteq Nat /\ 0 \in Priority
    /\ InitStock \in [Bin -> Nat]
    /\ InitStaging \in Nat
    /\ Days \subseteq [made : [Task -> Bin \cup {0}], asks : SUBSET Task,
                       serves : [Proc -> SUBSET Request], upset : SUBSET UpsetKind]

\* The orders that a day begins with were made one after the other.
ASSUME MadeAssumption == \A d \in Days : \A b \in Bin :
    LET made(op) == {t \in Task : Wish[t].op = op /\ d.made[t] = b} IN
    /\ MapThenSumSet(LAMBDA t : Wish[t].qty, made("out")) <= InitStock[b]
    /\ made("in") # {} => InitStock[b] = 0 /\ Cardinality(made("in")) = 1

VARIABLES
    day,         \* what happens in this behaviour; it does not change
    status,      \* tasks.status; "NEW" before the row exists
    owner,       \* tasks.robot_id
    prio,        \* tasks.priority
    bin,         \* the bin that the task claims
    phase,       \* the phase of the order's orchestration
    rstat,       \* robots.status
    stock,       \* inventory of the bins
    staging,     \* inventory of the inbound location
    txn          \* the transaction of every thread

fleetVars == <<day, status, owner, prio, bin, phase, rstat, stock, staging, txn>>

TaskStatus == {"NEW", "QUEUED", "ASSIGNED", "RUNNING", "COMPLETED", "FAILED", "CANCELLED"}

\* The statuses of uq_tasks_active_robot for a task that has a robot.
Live == {"QUEUED", "ASSIGNED", "RUNNING"}

TxnAt == {"idle", "choose", "lock", "recheck", "cancel", "start", "tick", "launch"}

NoTask == 0
NoRobot == 0
NoBin == 0
NoClaim == [t \in Task |-> NoRobot]
NoTxn == [at |-> "idle", task |-> NoTask, robot |-> NoRobot, seen |-> InitStock,
          bin |-> NoBin, held |-> {}, queue |-> {}, free |-> {}, claim |-> NoClaim,
          todo |-> {}]

FleetInit ==
    /\ day \in Days
    /\ status = [t \in Task |-> IF day.made[t] = NoBin THEN "NEW" ELSE "QUEUED"]
    /\ owner = [t \in Task |-> NoRobot]
    /\ prio = [t \in Task |-> 0]
    /\ bin = day.made
    /\ phase = [t \in Task |-> "NONE"]
    /\ rstat = [r \in Robot |-> "IDLE"]
    /\ stock = InitStock
    /\ staging = InitStaging
    /\ txn = [p \in Proc |-> NoTxn]

-----------------------------------------------------------------------------
(* Transactions and locks.                                                 *)

Steady(kind) == kind \notin day.upset

\* The rows that p has written and not committed.  A transaction that nothing
\* overtakes counts as one that locks what it reads.
TaskRows(p) == {t \in Task : txn[p].claim[t] # NoRobot}
                 \cup (IF txn[p].at \in {"cancel", "start"} /\ Steady(txn[p].at)
                       THEN {txn[p].task} ELSE {})
RobotRows(p) == {r \in Robot : \E t \in Task : txn[p].claim[t] = r}
                 \cup (IF txn[p].at \in {"cancel", "start"} /\ Steady(txn[p].at)
                       THEN {txn[p].robot} ELSE {})

TaskFree(p, t) == \A q \in Proc \ {p} : t \notin TaskRows(q)
RobotFree(p, r) == \A q \in Proc \ {p} : r \notin RobotRows(q)
Unlocked(t, r) == \A q \in Proc : t \notin TaskRows(q) /\ r \notin RobotRows(q)

\* uq_tasks_active_robot.
IndexAdmits(t, r) == \A u \in Task \ {t} : owner[u] = r => status[u] \notin Live

Asked(p, request) == request \in day.serves[p] /\ txn[p].at = "idle"
Begin(p, record) == txn' = [txn EXCEPT ![p] = record]
Done(p) == txn' = [txn EXCEPT ![p] = NoTxn]

book == <<status, owner, prio, bin, phase, rstat, stock, staging>>

-----------------------------------------------------------------------------
(* Planning: work_order_planner.                                           *)

ClaimsOn(op, b) == {t \in Task : Wish[t].op = op /\ bin[t] = b /\ status[t] \in Live}

\* active_outbound_claims and active_inbound_claims.
Claimed(op, b) == MapThenSumSet(LAMBDA t : Wish[t].qty, ClaimsOn(op, b))

Left(b, seen) == IF seen[b] > Claimed("out", b) THEN seen[b] - Claimed("out", b) ELSE 0

\* An order that names no slot is refused when the rows together fall short.
Enough(t, seen) ==
    LET rows == {b \in Wish[t].bins : seen[b] > 0} IN
    Wish[t].named \/ MapThenSumSet(LAMBDA b : seen[b], rows)
                       >= Wish[t].qty + MapThenSumSet(LAMBDA b : Claimed("out", b), rows)

\* The bins that an order can be planned on, with the stock as it was read
\* before the claims are.
Fits(t, seen) ==
    IF Wish[t].op = "in"
    THEN {b \in Wish[t].bins : seen[b] = 0 /\ Claimed("in", b) = 0}
    ELSE {b \in Wish[t].bins : Enough(t, seen) /\ seen[b] > 0 /\ Left(b, seen) >= Wish[t].qty}

\* A planner that nothing overtakes reads stock and claims at one moment.
Plan(p) == Fits(txn[p].task, IF Steady("plan") THEN stock ELSE txn[p].seen)

-----------------------------------------------------------------------------
(* create_work_order: plan, lock the bin, plan again, insert.              *)

CreateRead(p, t) ==
    /\ Asked(p, "create")
    /\ status[t] = "NEW" /\ t \in day.asks
    /\ \A q \in Proc : txn[q].task # t
    /\ Begin(p, [NoTxn EXCEPT !.at = "choose", !.task = t, !.seen = stock])
    /\ UNCHANGED <<day, book>>

CreateChoose(p) ==
    /\ txn[p].at = "choose"
    /\ IF Plan(p) = {}
       THEN Done(p)
       ELSE txn' = [txn EXCEPT ![p].at = "lock", ![p].bin = Min(Plan(p))]
    /\ UNCHANGED <<day, book>>

\* lock_work_order_resource; the locks of earlier rounds are kept.
CreateLock(p) ==
    LET resource == <<Wish[txn[p].task].op, txn[p].bin>> IN
    /\ txn[p].at = "lock"
    /\ \A q \in Proc \ {p} : resource \notin txn[q].held
    /\ txn' = [txn EXCEPT ![p].at = "recheck", ![p].seen = stock,
                          ![p].held = @ \cup {resource}]
    /\ UNCHANGED <<day, book>>

\* The second plan decides; it may send the transaction round again.
CreateAgain(p) ==
    /\ txn[p].at = "recheck"
    /\ Plan(p) # {} => Min(Plan(p)) # txn[p].bin
    /\ IF Plan(p) = {}
       THEN Done(p)
       ELSE txn' = [txn EXCEPT ![p].at = "choose", ![p].seen = stock]
    /\ UNCHANGED <<day, book>>

\* mutant: the order is created on the bin of the first plan.
SettlesUnchecked(p) == TRUE

Settles(p) == Plan(p) # {} /\ Min(Plan(p)) = txn[p].bin

\* With a robot, the order is assigned in the same transaction or not created.
\* One that asks for auto_start goes on, in this transaction, with a tick and a
\* start, which are modelled only as requests of their own.
CreateInsert(p, r) ==
    LET t == txn[p].task IN
    /\ txn[p].at = "recheck" /\ Settles(p)
    /\ r # NoRobot => RobotFree(p, r)
    /\ IF r = NoRobot
       THEN /\ status' = [status EXCEPT ![t] = "QUEUED"]
            /\ bin' = [bin EXCEPT ![t] = txn[p].bin]
            /\ UNCHANGED <<owner, rstat>>
       ELSE IF rstat[r] = "IDLE" /\ r \in CapableOf[t] /\ IndexAdmits(t, r)
       THEN /\ status' = [status EXCEPT ![t] = "ASSIGNED"]
            /\ bin' = [bin EXCEPT ![t] = txn[p].bin]
            /\ owner' = [owner EXCEPT ![t] = r]
            /\ rstat' = [rstat EXCEPT ![r] = "ASSIGNED"]
       ELSE UNCHANGED <<status, bin, owner, rstat>>
    /\ Done(p)
    /\ UNCHANGED <<day, prio, phase, stock, staging>>

\* set_work_order_priority.
SetPriority(p, t, n) ==
    /\ Asked(p, "priority")
    /\ status[t] = "QUEUED" /\ TaskFree(p, t) /\ prio[t] # n
    /\ prio' = [prio EXCEPT ![t] = n]
    /\ UNCHANGED <<day, status, owner, bin, phase, rstat, stock, staging, txn>>

-----------------------------------------------------------------------------
(* Assignment by hand and by the tick.                                     *)

\* claim_assignment: both rows locked, both conditions looked at again.
Claimable(t, r) == status[t] = "QUEUED" /\ owner[t] = NoRobot /\ rstat[r] = "IDLE"

Assign(p, t, r) ==
    /\ Asked(p, "assign")
    /\ Unlocked(t, r)
    /\ Claimable(t, r) /\ r \in CapableOf[t] /\ IndexAdmits(t, r)
    /\ status' = [status EXCEPT ![t] = "ASSIGNED"]
    /\ owner' = [owner EXCEPT ![t] = r]
    /\ rstat' = [rstat EXCEPT ![r] = "ASSIGNED"]
    /\ UNCHANGED <<day, prio, bin, phase, stock, staging, txn>>

\* auto_assign reads the queue and the idle robots once.
TickRead(p) ==
    LET queue == {t \in Task : status[t] = "QUEUED" /\ owner[t] = NoRobot}
        idle == {r \in Robot : rstat[r] = "IDLE"}
    IN
    /\ \E request \in {"tick", "poll"} : Asked(p, request)
    /\ queue # {} /\ idle # {}
    /\ \E ready \in IF Steady("unready") THEN {idle} ELSE SUBSET idle :
          Begin(p, [NoTxn EXCEPT !.at = "tick", !.free = ready,
                                 !.queue = {<<t, prio[t]>> : t \in queue}])
    /\ UNCHANGED <<day, book>>

Before(e, f) == e[2] > f[2] \/ (e[2] = f[2] /\ e[1] < f[1])
IsNext(p, e) == e \in txn[p].queue /\ \A f \in txn[p].queue \ {e} : Before(e, f)

\* mutant: a task that no ready robot can do ends the search.
PassOverRest(p, e) == txn' = [txn EXCEPT ![p].queue = {}]

\* A task that no ready robot can do is passed over.
PassOver(p, e) == txn' = [txn EXCEPT ![p].queue = @ \ {e}]

Able(p, e) == txn[p].free \cap CapableOf[e[1]]

\* A lost race costs the robot this tick; a duplicate key ends the transaction
\* with all that it has claimed.
ClaimOrLose(p, e, r) ==
    \/ /\ ~Claimable(e[1], r)
       /\ txn' = [txn EXCEPT ![p].queue = @ \ {e}, ![p].free = @ \ {r}]
    \/ /\ Claimable(e[1], r) /\ ~IndexAdmits(e[1], r)
       /\ Done(p)
    \/ /\ Claimable(e[1], r) /\ IndexAdmits(e[1], r)
       /\ txn' = [txn EXCEPT ![p].queue = @ \ {e}, ![p].free = @ \ {r},
                             ![p].claim[e[1]] = r, ![p].todo = @ \cup {e[1]}]

\* One task of the tick: the first ready robot that can do it, claimed when the
\* rows are free.
TickClaim(p) ==
    /\ txn[p].at = "tick"
    /\ \E e \in txn[p].queue :
          /\ IsNext(p, e)
          /\ \/ /\ Able(p, e) = {}
                /\ PassOver(p, e)
             \/ \E r \in Able(p, e) :
                   /\ \A s \in Able(p, e) : r <= s
                   /\ TaskFree(p, e[1]) /\ RobotFree(p, r)
                   /\ ClaimOrLose(p, e, r)
    /\ UNCHANGED <<day, book>>

WaitsFor(p, q) ==
    /\ txn[p].at = "tick"
    /\ \E e \in txn[p].queue :
          /\ IsNext(p, e) /\ Able(p, e) # {}
          /\ e[1] \in TaskRows(q) \/ Min(Able(p, e)) \in RobotRows(q)

\* Two ticks may each hold a row that the other one claims next; PostgreSQL
\* picks a victim.
TickDeadlock(p) ==
    /\ \E q \in Proc \ {p} : WaitsFor(p, q) /\ WaitsFor(q, p)
    /\ Done(p)
    /\ UNCHANGED <<day, book>>

\* The claims of p, as they are written when p commits.
StatusWith(p) == [t \in Task |-> IF txn[p].claim[t] = NoRobot THEN status[t] ELSE "ASSIGNED"]
OwnerWith(p) == [t \in Task |-> IF txn[p].claim[t] = NoRobot THEN owner[t] ELSE txn[p].claim[t]]
RstatWith(p) == [r \in Robot |-> IF \E t \in Task : txn[p].claim[t] = r THEN "ASSIGNED" ELSE rstat[r]]

\* The poller goes on to start what it has assigned, a request may not.
TickEnd(p) ==
    /\ txn[p].at = "tick" /\ txn[p].queue = {}
    /\ \/ /\ txn[p].todo # {}
          /\ txn' = [txn EXCEPT ![p].at = "launch", ![p].free = {}]
          /\ UNCHANGED <<status, owner, rstat>>
       \/ /\ "tick" \in day.serves[p] \/ txn[p].todo = {}
          /\ status' = StatusWith(p) /\ owner' = OwnerWith(p) /\ rstat' = RstatWith(p)
          /\ Done(p)
    /\ UNCHANGED <<day, prio, bin, phase, stock, staging>>

-----------------------------------------------------------------------------
(* Starting: start_task_orchestration.                                     *)

\* The first start commits with its dispatch all that the tick has claimed.
Launch(p, t) ==
    /\ txn[p].at = "launch" /\ t \in txn[p].todo
    /\ TaskFree(p, t)
    /\ StatusWith(p)[t] = "ASSIGNED"
    /\ RobotFree(p, OwnerWith(p)[t])
    /\ status' = [StatusWith(p) EXCEPT ![t] = "RUNNING"]
    /\ owner' = OwnerWith(p)
    /\ rstat' = [RstatWith(p) EXCEPT ![OwnerWith(p)[t]] = "RUNNING"]
    /\ phase' = [phase EXCEPT ![t] = "RUNNING"]
    /\ txn' = [txn EXCEPT ![p].todo = @ \ {t}, ![p].claim = NoClaim]
    /\ UNCHANGED <<day, prio, bin, stock, staging>>

\* Refused before anything is written, or no longer assigned.
LaunchRefused(p, t) ==
    /\ txn[p].at = "launch" /\ t \in txn[p].todo
    /\ StatusWith(p)[t] # "ASSIGNED" \/ "refused" \in day.upset
    /\ txn' = [txn EXCEPT ![p].todo = @ \ {t}]
    /\ UNCHANGED <<day, book>>

LaunchEnd(p) ==
    /\ txn[p].at = "launch" /\ txn[p].todo = {}
    /\ status' = StatusWith(p) /\ owner' = OwnerWith(p) /\ rstat' = RstatWith(p)
    /\ Done(p)
    /\ UNCHANGED <<day, prio, bin, phase, stock, staging>>

\* A start by request: the status and the robot are read, the robot's map is
\* asked for, and only then is anything written.
StartRead(p, t) ==
    /\ Asked(p, "start")
    /\ status[t] = "ASSIGNED" /\ owner[t] # NoRobot
    /\ Steady("start") => Unlocked(t, owner[t])
    /\ Begin(p, [NoTxn EXCEPT !.at = "start", !.task = t, !.robot = owner[t]])
    /\ UNCHANGED <<day, book>>

\* The dispatch reads the robot once more: without one, all is rolled back.
StartWrite(p) ==
    LET t == txn[p].task IN
    /\ txn[p].at = "start"
    /\ TaskFree(p, t) /\ RobotFree(p, txn[p].robot)
    /\ IF owner[t] # NoRobot /\ IndexAdmits(t, owner[t])
       THEN /\ status' = [status EXCEPT ![t] = "RUNNING"]
            /\ rstat' = [rstat EXCEPT ![txn[p].robot] = "RUNNING"]
            /\ phase' = [phase EXCEPT ![t] = "RUNNING"]
       ELSE UNCHANGED <<status, rstat, phase>>
    /\ Done(p)
    /\ UNCHANGED <<day, owner, prio, bin, stock, staging>>

StartRefused(p) ==
    /\ txn[p].at = "start" /\ "refused" \in day.upset
    /\ Done(p)
    /\ UNCHANGED <<day, book>>

-----------------------------------------------------------------------------
(* Canceling before the start: cancel_task.                                *)

\* mutant: an order that is carried out is canceled in the same way.
CancelableRunning(t) == status[t] \in {"QUEUED", "ASSIGNED", "RUNNING", "FAILED"}

Cancelable(t) == status[t] \in {"QUEUED", "ASSIGNED", "FAILED"}

CancelRead(p, t) ==
    /\ Asked(p, "cancel")
    /\ Cancelable(t)
    /\ Steady("cancel") => TaskFree(p, t) /\ (owner[t] # NoRobot => RobotFree(p, owner[t]))
    /\ Begin(p, [NoTxn EXCEPT !.at = "cancel", !.task = t, !.robot = owner[t]])
    /\ UNCHANGED <<day, book>>

\* _finish_task: by the id alone, whatever the row says by now.
CancelWrite(p) ==
    LET t == txn[p].task
        r == txn[p].robot
    IN
    /\ txn[p].at = "cancel"
    /\ TaskFree(p, t) /\ (r # NoRobot => RobotFree(p, r))
    /\ status' = [status EXCEPT ![t] = "CANCELLED"]
    /\ IF r = NoRobot
       THEN UNCHANGED <<owner, rstat>>
       ELSE /\ owner' = [owner EXCEPT ![t] = NoRobot]
            /\ rstat' = [rstat EXCEPT ![r] = "IDLE"]
    /\ Done(p)
    /\ UNCHANGED <<day, prio, bin, phase, stock, staging>>

-----------------------------------------------------------------------------
(* The end of an order.                                                    *)

\* mutant: what is not there is taken all the same.
BookableAlways(t) == TRUE

\* apply_on_task_complete refuses what it cannot book.
Bookable(t) ==
    IF Wish[t].op = "in"
    THEN staging = 0 \/ staging >= Wish[t].qty
    ELSE stock[bin[t]] >= Wish[t].qty

StagingAfter(t) ==
    IF Wish[t].op = "in" /\ staging >= Wish[t].qty THEN staging - Wish[t].qty ELSE staging

StockAfter(t) ==
    [stock EXCEPT ![bin[t]] = IF Wish[t].op = "in" THEN @ + Wish[t].qty ELSE @ - Wish[t].qty]

Book(t) ==
    /\ phase[t] = "RUNNING" /\ status[t] = "RUNNING" /\ Bookable(t)
    /\ owner[t] # NoRobot /\ Unlocked(t, owner[t])
    /\ stock' = StockAfter(t) /\ staging' = StagingAfter(t)

\* complete_task: the goods are booked, the robot is free again.
Complete(t) ==
    /\ Book(t)
    /\ status' = [status EXCEPT ![t] = "COMPLETED"]
    /\ phase' = [phase EXCEPT ![t] = "DONE"]
    /\ rstat' = [rstat EXCEPT ![owner[t]] = "IDLE"]
    /\ UNCHANGED <<day, owner, prio, bin, txn>>

\* mutant: a task that another robot has claimed is chained.
ChainableOwned(t, u) == status[u] \in {"QUEUED", "ASSIGNED"} /\ rstat[owner[t]] = "RUNNING"

\* reserve_next_task_for_robot, complete_task and commit_reserved_next_task in
\* one transaction: the robot goes over to u without ever being idle.
Chainable(t, u) == status[u] = "QUEUED" /\ owner[u] = NoRobot /\ rstat[owner[t]] = "RUNNING"

Precedes(v, u) == Before(<<v, prio[v]>>, <<u, prio[u]>>)

CompleteChained(t, u) ==
    /\ Book(t) /\ u # t
    /\ Chainable(t, u) /\ Unlocked(u, owner[t])
    /\ owner[t] \in CapableOf[u]
    /\ \A v \in Task \ {t, u} :
          Chainable(t, v) /\ owner[t] \in CapableOf[v] => Precedes(u, v)
    /\ status' = [status EXCEPT ![t] = "COMPLETED", ![u] = "ASSIGNED"]
    /\ owner' = [owner EXCEPT ![u] = owner[t]]
    /\ phase' = [phase EXCEPT ![t] = "DONE", ![u] = "CHAINED"]
    /\ rstat' = [rstat EXCEPT ![owner[t]] = "ASSIGNED"]
    /\ UNCHANGED <<day, prio, bin, txn>>

\* After the commit the same thread starts the chained task.
StartChained(u) ==
    /\ phase[u] = "CHAINED" /\ status[u] = "ASSIGNED" /\ Unlocked(u, owner[u])
    /\ status' = [status EXCEPT ![u] = "RUNNING"]
    /\ phase' = [phase EXCEPT ![u] = "RUNNING"]
    /\ rstat' = [rstat EXCEPT ![owner[u]] = "RUNNING"]
    /\ UNCHANGED <<day, owner, prio, bin, stock, staging, txn>>

\* It stays assigned when its start is refused, until somebody starts it.
ChainRefused(u) ==
    /\ phase[u] = "CHAINED" /\ "refused" \in day.upset
    /\ phase' = [phase EXCEPT ![u] = "NONE"]
    /\ UNCHANGED <<day, status, owner, prio, bin, rstat, stock, staging, txn>>

\* A failed command, a confirmed stop before the load, the operator's abort of
\* a held task.
End(t, to) ==
    /\ phase[t] \in {"RUNNING", "HELD"}
    /\ \A q \in Proc : t \notin TaskRows(q) /\ owner[t] \notin RobotRows(q)
    /\ status' = [status EXCEPT ![t] = to]
    /\ phase' = [phase EXCEPT ![t] = "DONE"]
    /\ owner' = [owner EXCEPT ![t] = NoRobot]
    /\ rstat' = IF owner[t] = NoRobot THEN rstat ELSE [rstat EXCEPT ![owner[t]] = "IDLE"]
    /\ UNCHANGED <<day, prio, bin, stock, staging, txn>>

\* A held task keeps its robot until the operator decides.
Hold(t) ==
    /\ "held" \in day.upset /\ phase[t] = "RUNNING"
    /\ phase' = [phase EXCEPT ![t] = "HELD"]
    /\ UNCHANGED <<day, status, owner, prio, bin, rstat, stock, staging, txn>>

Resume(t) ==
    /\ phase[t] = "HELD"
    /\ phase' = [phase EXCEPT ![t] = "RUNNING"]
    /\ UNCHANGED <<day, status, owner, prio, bin, rstat, stock, staging, txn>>

-----------------------------------------------------------------------------
(* Other writers of the rows.                                              *)

\* POST /robots: the row takes the status of the form, which is IDLE.
UpsertRobot(r) ==
    /\ "upsert" \in day.upset /\ rstat[r] # "IDLE"
    /\ \A p \in Proc : r \notin RobotRows(p)
    /\ rstat' = [rstat EXCEPT ![r] = "IDLE"]
    /\ UNCHANGED <<day, status, owner, prio, bin, phase, stock, staging, txn>>

\* evidence_only_tasks.start takes its fixed robot without looking at it; the
\* run moves neither the robot nor the inventory.
StartEvidence(t, r) ==
    /\ "evidence" \in day.upset
    /\ status[t] = "QUEUED" /\ Unlocked(t, r) /\ IndexAdmits(t, r)
    /\ status' = [status EXCEPT ![t] = "RUNNING"]
    /\ owner' = [owner EXCEPT ![t] = r]
    /\ phase' = [phase EXCEPT ![t] = "EVIDENCE"]
    /\ UNCHANGED <<day, prio, bin, rstat, stock, staging, txn>>

\* Done, or canceled: the robot's row is not touched either way.
EndEvidence(t, to) ==
    /\ phase[t] = "EVIDENCE" /\ Unlocked(t, owner[t])
    /\ status' = [status EXCEPT ![t] = to]
    /\ owner' = IF to = "CANCELLED" THEN [owner EXCEPT ![t] = NoRobot] ELSE owner
    /\ phase' = [phase EXCEPT ![t] = "DONE"]
    /\ UNCHANGED <<day, prio, bin, rstat, stock, staging, txn>>

-----------------------------------------------------------------------------

CreateStep(p) == CreateChoose(p) \/ CreateLock(p) \/ CreateAgain(p)
                   \/ \E r \in Robot \cup {NoRobot} : CreateInsert(p, r)
LaunchStep(p) == \E t \in Task : Launch(p, t) \/ LaunchRefused(p, t)

FleetNext ==
    \/ \E p \in Proc :
          \/ \E t \in Task : CreateRead(p, t) \/ StartRead(p, t) \/ CancelRead(p, t)
          \/ CreateStep(p)
          \/ \E t \in Task, n \in Priority : SetPriority(p, t, n)
          \/ \E t \in Task, r \in Robot : Assign(p, t, r)
          \/ TickRead(p) \/ TickClaim(p) \/ TickDeadlock(p) \/ TickEnd(p)
          \/ LaunchStep(p) \/ LaunchEnd(p)
          \/ StartWrite(p) \/ StartRefused(p)
          \/ CancelWrite(p)
    \/ \E t \in Task :
          \/ Complete(t) \/ StartChained(t) \/ ChainRefused(t)
          \/ \E u \in Task : CompleteChained(t, u)
          \/ \E to \in {"FAILED", "CANCELLED"} : End(t, to)
          \/ Hold(t) \/ Resume(t)
          \/ \E r \in Robot : StartEvidence(t, r)
          \/ \E to \in {"COMPLETED", "CANCELLED"} : EndEvidence(t, to)
    \/ \E r \in Robot : UpsertRobot(r)

\* The poller ticks every five seconds, a transaction ends, and so does an order
\* that is under way and not held (Orchestrator's StepEnds).
FleetSpec ==
    /\ FleetInit /\ [][FleetNext]_fleetVars
    /\ \A p \in Proc :
          /\ WF_fleetVars(TickRead(p) /\ "poll" \in day.serves[p])
          /\ WF_fleetVars(CreateStep(p))
          /\ WF_fleetVars(TickClaim(p) \/ TickDeadlock(p) \/ TickEnd(p))
          /\ WF_fleetVars(LaunchStep(p) \/ LaunchEnd(p))
          /\ WF_fleetVars(StartWrite(p) \/ StartRefused(p))
          /\ WF_fleetVars(CancelWrite(p))
    /\ \A t \in Task :
          /\ WF_fleetVars(StartChained(t) \/ ChainRefused(t))
          /\ WF_fleetVars(Complete(t) \/ (phase[t] = "RUNNING" /\ End(t, "FAILED")))

-----------------------------------------------------------------------------
(* Properties.                                                             *)

\* Types: orders, robots and bins keep within the values of the schema's checks,
\* and nothing is taken from an inventory that does not hold it
\* (inventory_ops.apply_on_task_complete).
FleetTypeOK ==
    /\ day \in Days
    /\ status \in [Task -> TaskStatus]
    /\ owner \in [Task -> Robot \cup {NoRobot}]
    /\ prio \in [Task -> Priority]
    /\ bin \in [Task -> Bin \cup {NoBin}]
    /\ phase \in [Task -> {"NONE", "CHAINED", "RUNNING", "HELD", "EVIDENCE", "DONE"}]
    /\ rstat \in [Robot -> {"IDLE", "ASSIGNED", "RUNNING"}]
    /\ stock \in [Bin -> Nat]
    /\ staging \in Nat
    /\ \A p \in Proc : txn[p].at \in TxnAt

\* What the rows of orders and robots do not survive: a cancel that is overtaken
\* between its look at the order and its writes (tasks.py:267), a robot saved as
\* idle, an evidence-only run.
Calm == day.upset \cap {"cancel", "upsert", "evidence"} = {}

\* What the claims on the bins do not: a booking between the reads of a plan, and
\* a start that is overtaken between its look at the order and its writes
\* (orchestrator.py:493-552).
Firm == day.upset \cap {"plan", "start"} = {}

\* But for what Calm names, a robot is assigned or running exactly when one order
\* has it, and in the status of that order: tasks.status, tasks.robot_id and
\* robots.status, written apart by assignment, start, chaining, end and cancel,
\* never disagree.
RobotAgrees ==
    Calm =>
        /\ \A t \in Task : status[t] \in {"ASSIGNED", "RUNNING"} =>
              owner[t] # NoRobot /\ rstat[owner[t]] = status[t]
        /\ \A r \in Robot : rstat[r] # "IDLE" =>
              \E t \in Task : owner[t] = r /\ status[t] \in {"ASSIGNED", "RUNNING"}
        /\ \A t, u \in Task : t # u /\ status[t] \in Live /\ status[u] \in Live /\ owner[t] = owner[u]
              => owner[t] = NoRobot

\* But for what Firm names, a bin holds what the orders will take from it, and an
\* order that will fill a bin is alone with it: create_work_order's plan under
\* the lock of the bin.
ClaimsCovered ==
    Firm =>
        \A b \in Bin :
            /\ Claimed("out", b) <= stock[b]
            /\ ClaimsOn("in", b) # {} => stock[b] = 0 /\ Cardinality(ClaimsOn("in", b)) = 1

\* In the end no order waits that an idle robot could do: the poller's
\* auto_assign_and_start passes over what no ready robot can do and comes back
\* for what it lost to another transaction.
WorkIsTaken ==
    day.upset \cap {"upsert", "evidence", "unready"} = {} =>
        <>[](\A t \in Task : \A r \in CapableOf[t] : status[t] = "QUEUED" => rstat[r] # "IDLE")

\* But for what Calm names, a canceled order is not carried out, nor is one taken
\* up again that was canceled while a tick or a start had read it as assigned
\* (cancel_task, start_task_orchestration).
CancelledIsOver ==
    Calm =>
        \A t \in Task : status[t] = "CANCELLED" => phase[t] \notin {"RUNNING", "HELD"}
=============================================================================
