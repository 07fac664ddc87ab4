# A TLA+ model of the warehouse robots' work orders

The repository drives TurtleBot3 robots that fetch, carry and deliver pallets.
Four programs do it:

* **Main** (`src/main-server/backend`), a FastAPI server over PostgreSQL: plans
  work orders, assigns robots, and drives each order step by step.
* **Nav** (`src/nav-server`), one process per robot: takes one movement command
  at a time, executes it and reports its end.
* **AI** (`src/ai-server`): watches cameras, answers evidence questions
  ("is the pallet on the forks?") and raises person hazards.
* the **web front end** (`src/main-server/frontend`), which only calls Main.

The order is durable in Main's database, the command lives in Nav's memory, the
pallet is on the robot: what can go wrong is that these three come apart. This
directory models how Main's threads, the Nav processes and the docking motion
keep them together, checks it with TLC, and proves part of it with TLAPS.

## 1. Inventory

### Main

| Component | State | Operations | Must hold |
| --- | --- | --- | --- |
| Orchestrator (`orchestrator.py`, `orchestration_state.py`) | the ORCHESTRATION row of a task: phase, cursor, step states, stop request, recovery | start, dispatch the current step, take in the end of a command, hold, retry the evidence gate | one command at a time, that of the current step; the cursor follows ended commands; every order ends or is held |
| Record and claims (`db/mvp/evidence.py`) | the row itself, advisory lock per task | save, claim dispatch, claim terminal transition, finalize | one winner per command end |
| Movement callbacks (`movement_callbacks.py`) | deduplication by event id | command events, result and status callbacks, fleet E-stop and its clearing | late and foreign callbacks change nothing |
| Progress poller (`task_progress_poller.py`) | none | resume dispatches, query commands, poll recoveries, assign | progress without callbacks |
| Work-order stop (`work_orders_pg.py`) | `stop_request` in the row | stop, cancel a queued order, priority, dashboards | a stop is resolved; an order is cancelled only with empty forks |
| Operator recovery (`task_recovery.py`) | `recovery` in the row | preview, resume, safe move, manual abort, their dispatch and poller | never two motions; a hold is left only with proof that nothing moves |
| Tasks and assignment (`tasks.py`, `db/mvp/tasks.py`) | task status, robot reservation, history | assign, auto-assign, chain, complete, cancel | a robot has one task; completion and inventory in one transaction |
| Planner and inventory (`work_order_planner.py`, `inventory_ops.py`) | slots, stock, claims of active orders | preview, create, apply on completion | no slot or item is promised twice |
| Person hazard (`person_hazard.py`) | monitor runtime per robot, cooldowns | arm and disarm, take in an advisory, fail safe, startup reconciliation | hold before E-stop; no monitored leg without monitor |
| Maps, poses, robots, admin | configuration and telemetry | — | — |

### Nav

| Component | State | Operations | Must hold |
| --- | --- | --- | --- |
| Command registry (`command_state.py`, `movement_api.py`) | state per command, ARRIVED gate, E-stop latch | register, cancel (or reserve a tombstone), gate timeout, E-stop | an identity is run at most once; one active command |
| Executor (`movement_executor.py`) | execution lock, current step | run, complete, fail, abort | the terminal state is written once |
| Traffic and zone locks (`traffic_manager.py`, `zone_lock_manager.py`) | locks with a TTL, in a file the processes share | acquire many, renew, release | one robot per segment |
| Legacy missions (`mission_manager.py`) | the one mission of the robot | accept, run, cancel | exclusive with atomic commands |
| Docking, lift (`docking.py`, `robot_commands.py`, `lift_phases.py`) | what was driven forward, parked flag and stored distance, the motion gate | leave, drive, park, load, unload, reverse | the base stops when told to; it comes back to where it began; Nav2 starts outside of docks |
| Localization, map alignment | pose estimate, scan | — | continuous: out of scope |

### AI

| Component | State | Operations | Must hold |
| --- | --- | --- | --- |
| Vision monitor (`vision_monitor_state.py`, `vision_monitor_policies.py`) | session generation per source, hazard events | enable, disable, observe, report | a stale session reports nothing |
| Evidence rules (`evidence_evaluation.py`, `alert_window.py`, `zone_roi.py`) | windows of observations | decide | decision follows the stated rule |
| Inference, streams, overlays | none across requests | — | — |

### How they interact

Main calls Nav over HTTP (dispatch, status, cancel, E-stop) and Nav calls Main
back, once per event and without retry. Every Main request and every poller tick
is a thread with a database transaction of its own. The rows are guarded by a
PostgreSQL advisory lock per task, which ends with each commit; the code commits
before every remote call, so the same operation spans several transactions, and
every gap between two of them is a place where another thread may come in. Some
paths read without the lock and write back what they read (the evidence gate,
its retry). Within Nav a request thread, the executor thread of the command, its
gate timer and the threads of cancel and E-stop share one registry under one
lock, which they give up whenever they wait for the robot. Hard are therefore:
interleavings of callback threads, pollers, operator and safety holds; requests,
answers and callbacks that are lost or late; a crash of Main between two commits,
a restart of Nav or of the AI server; transactions at READ COMMITTED that plan on
what others are about to change; the one-shot ARRIVED gate; a burst of motion
that was admitted before the stop; and the pallet, which changes place while all
this goes on. `PROJECT.json` lists the hazards at their lines.

## 2. Modules

```
NavContract ─┬─ Orchestrator ── OrchestratorProps ─┬─ MCOrchestrator      (TLC)
             │                       │             └─ OrchestratorProofs ── OrderProofs
             │                       │                     ── WorkOrderProofs  (TLAPS)
             │                       └── WorkOrder  (abstract, by refinement mapping)
             └─ HeldTask ── PersonMonitor ── Recovery ── RecoveryProps ─┬─ MCRecovery
                                                                      └─ RecoveryProofs  (TLAPS)
NavServer ─┬─ MCNav
           ├─ NavServerProofs  (TLAPS)
           └─ CommandRegistry  (abstract, by refinement mapping)
Fleet ─┬─ MCFleet
       └─ FleetProofs  (TLAPS)
Docking ─┬─ MCDocking
         └─ DockingProofs ── DockingWayProofs  (TLAPS)
```

The modules cut the system by what shares state at a grain that can be explored:
one order against one Nav (`Orchestrator`), one held step against monitor, Nav
and operator (`Recovery`), the Nav processes among themselves (`NavServer`), all
orders against the rows of the fleet (`Fleet`), and one robot against its
environment (`Docking`). What one module leaves to another is nondeterministic
in it.

### One order: `NavContract`, `Orchestrator`, `WorkOrder`

**`NavContract`** is Nav as Main sees it. `nav` is `runtime.movement_commands`
reduced to the state of every command (ACCEPTED and RUNNING are both `ACTIVE`),
`gate` is `last_arrived_gate_by_robot`, `estop` the latch, `mail` the callbacks
on their way. `Register`, `Duplicate` and the refusals are the outcomes of
`POST /robot-commands`, in its order: a dock command *pops the gate before* the
registry is asked whether the identity is known. `Cancel*` are `cancel_command`
and the tombstone of `cancel_command_id`.

**`Orchestrator`** is one work order in Main. `orch` is the durable row, `task`,
`robot` and `applied` the rows of the task, its robot and the inventory, `job`
the local variables of every thread of Main, lost when `up` becomes FALSE.
`loaded` is the pallet itself. An action ends where the code commits, rolls back
or waits for a remote server, so each transaction is one atomic action and what
a thread read before is in its job. Command identities are `<<step,
retry_generation>>`, what `deterministic_step_command_id` computes them from.

| Action(s) | Code |
| --- | --- |
| `BeginStart`, `StartTask`, `RefuseStart` | `start_task_orchestration`: the unlocked read of the status; after the robot was asked for its map, fresh record, status and first dispatch claim commit together, whatever was written since; or a refusal |
| `Callback`, `Poll` | the unlocked read of `_advance_on_command_event`, after `_matches_active_orchestration` resp. `poll_running_tasks` |
| `Claim` | `claim_terminal_transition` |
| `Settle…`, `LoseClaim`, `FailClose` | the branches behind the claim, up to `finalize_terminal_transition` |
| `DispatchNext`, `PollDispatch` | `dispatch_current_step` up to its first wait |
| `GateHold`, `GatePass` | the blind save of the PRE_DROP_OFF verdict |
| `DispatchClaim`, `Send`, `SendLost`, `FinalizeDispatch` | claim, POST, finalize of a dispatch |
| `HoldUnstopped`, `SendCancel`, `CancelAnswer`, `CancelLost` | `_enforce_persisted_stop_after_dispatch` and the cancel of a stop |
| `RequestStop`, `HoldUnconfirmed`, `ManualStop` | `request_work_order_stop` |
| `SafetyHold`, `ArmFail`, `SendEstop` | hold, commit, then E-stop |
| `BeginRetry`, `RetryHold`, `RetryPass` | `retry_held_evidence` |
| `Crash`, `Restart` | end of the process; `reconcile_startup_person_hazard_safety` |
| `Nav…`, `OperatorClearEstop` | `NavContract`, with what it does to the pallet |

**`WorkOrder`** is what an order promises: the robot works only while the order
runs; the order ends once, with the robot at rest; the inventory moves with the
completion and for delivered goods; a failure loses no delivery, a cancellation
no pallet. `ImplementsWorkOrder` maps the detailed state to it; work are the commands
up to the unload step (`Drop`): the way home is not the order's any more.

`ApproachAssumption` and `DeliveryAssumption` say of the plan what
`plan_command_steps` and `_build_inout_scenario` make it: a transfer follows its
approach, an order delivers once what it loaded before, and then only drives home
and parks.

Abstractions: a plan is the sequence of its step kinds (`ShortKind` is the work
between approach and delivery, `ReturnKind` adds the way home); the legs before
the last approach all behave alike and are one `move`; evidence, person
detection and hardware are nondeterministic outcomes; the chained next task is
its effect on the current order. `GatePass` merges the save of the verdict and
the dispatch claim that follows it without a wait; the finalize of a transition
and the commit of its transaction are one action, as the advisory lock is held
between them. `transition_id` is the pair of command and event it is built from.
Admission is in `Fleet`. `REJECTED` and a dispatch answered `accepted: false` are
left out: no Nav handler produces them.

### A held step: `HeldTask`, `PersonMonitor`, `Recovery`

**`HeldTask`** is the record of one running task with one step of movement, and
what person monitor and recovery share: the hold, the safety stop (`stopOpen`),
the E-stop requests, the monitor runtime `rt` in Main's memory and the monitor
`session` of the AI server. The commands are the step under its retry
generations and the safe moves, each under an identity of its own.
**`PersonMonitor`** adds the monitor's poller (`SeePerson`, `MonitorOutage`,
`Reassert`), restarts of the AI server and of Nav, crash and start of Main
(`Restart` is `reconcile_startup_person_hazard_safety`). **`Recovery`** is
`task_recovery.py`: `BeginResume`, `BeginSafeMove`, `Health`, `Verify` and the
two commits are the gated actions; `ArmRecovery` … `FinalizeRecovery` the
dispatch of a safe move; `CloseAmbiguous`, `HoldRecovery` its failure;
`RequestRecoveryStop` … `MarkUnstopped` a work-order stop; `PollRecovery` the
poller; `BeginAbort` … `DisarmAborted` the manual abort, whose `ManualStop` stops
the base and changes no command in Nav's registry; `ReadDecision`,
`SaveDecision` the saved decision; `FleetEstop` and `ClearAll` the operator's
stop of all robots. What `Orchestrator` has in full, the dispatch and the end of
a step, is reduced to the step that ends the task.

### Nav: `NavServer`

How Nav comes to keep what `NavContract` promises. Each process has the registry
`reg`, the executor thread `exe` of every command and the lock `running` that
they wait for, request threads `hand`, the gate `arrived` with its `timer`, the
latch, and `drive`, the command whose goal or velocity the base follows. The
traffic locks are shared. An action ends where `command_state_lock` is released,
the robot is waited for or Main is called: `TakeGate`, `DropGate`, `RefuseDock`
are the conversion of a dock request, which pops the gate under no lock and then
asks the robot for its readiness; `BeginRegister`, `LockSegment`, `UndoLocks`,
`FinishRegister` are `_register_movement_command`, which holds the lock
throughout (`Registering` keeps others out) while the segments are locked one by
one in a file that other processes lock too; `Run` … `ReleaseExecutor` are
`execute_movement_command`, with `BreakStep` the step that breaks by itself and
`FailStep` the one that sees a cancel, an E-stop or the loss of its goal;
`LateGate`, `AbortLate`, `PopGate` the gate timer; `BeginCancel` …
`ReleaseCanceled` a cancel; `EngageEstop`, `AbortActive`, `MarkAborted` an E-stop,
its unlocked look at the registry apart from its write; `Jog`, `StopByHand` manual
control; `Expire` the TTL of a lock.

`CommandRegistry` says what all this amounts to, with every operation in one step:
a command comes into force once, alone on its robot and with its whole route to
itself (`Accept`), is started when the robot's executor is free, ends once and is
told with its end (`End`), and once stopped moves among the stopped states only
(`RequestCancel`, `ResolveCancel`, `Abort`). Its `route` is the set of segments of
a command in force, its `busy` the holder of the execution lock.

### All orders: `Fleet`

The rows of tasks, robots, bins and inventory against creation (`CreateRead` …
`CreateInsert`), priority, assignment by hand (`Assign`), the tick of
`auto_assign` (`TickRead`, `TickClaim`, `PassOver`, `TickEnd`), start, chaining,
cancel, completion and evidence-only runs. PostgreSQL runs at READ COMMITTED: an
action is what no other transaction can overtake; the claims of a tick that has
not committed are in `txn[p].claim`, and their rows are locked. The partial unique
indices of the schema are `IndexAdmits`, the deadlock of two ticks is
`TickDeadlock`. A behaviour begins by choosing a `day`: the orders that are there
already, those to be created, the requests of each thread and the `upset`s that
may happen. Days bound what one behaviour meets; TLC explores them all. `Calm` and
`Firm` name the upsets that the properties do not survive. The start that
`create_work_order` makes by itself (`auto_start`) is left out: it is a claim and a
start as the tick makes them.

### One robot and its dock: `Docking`

The steps of a docking command and what they do to the base. `depth` is the
truth, in millimetres beyond the place where Nav2 leaves the robot in front of
the marker; the process knows only its bookkeeping: `acct` (`ins` the measured
insertion, `creep` the centering, `fwd` the net advance of the alignment),
`parked` and `stored` (`standby_parked`, with None as "unknown", and the stored distance) and the
motion `gate`. The base moves in bursts: `Arm` is the check before a velocity is
published, `Move1` the motion it admitted, so that cancel, E-stop and ageing
sensors come in between. `Leave…`, `Align…`, `Acquire…`, `Center…`, `Insert…`,
`Metric…`, `Lift…`, `Carry…`, `BackOut` and `ReverseEnds` are the loops of
`execute_leave_dock_step`, the alignment, `execute_precision_docking`, the three
kinds of insertion, `LiftPhase` and the two ways out. The approach counts what it
asked for: a burst that an E-stop or the front laser refuses is counted though it
is not driven (`BurstIgnored`), and what it backs to come up again straight is
driven and not counted (`RealignBegins`, `RealignEnds`); `acct.over` is the sum of
the two, which the code does not know. `Move` is the move that a step of an order
sends, after the command before it ended well or once more; `Drive` is any other
move, by hand or as a safe move, at any time: a leave comes before either only if
the process knows that it is parked (`LeaveFirst`). Angles, image geometry, gains,
wheel slip and the second shelf are left out; a detection is found or not, an
alignment turns or advances.

## 3. What is checked

| Run | Instance | Shows |
| --- | --- | --- |
| `delivery_faults` | four steps; lost requests and answers, crashes of Main, stops, safety holds | `TypeOK`; `RunsCurrentStep`; `AppliedOnce`; `CancelledIsEmpty`; `AdvanceOnEnd`; `ImplementsWorkOrder` |
| `stop_mission` | five steps, return home included; stops | `DeliveredIsNotFailed`; `FreedRobotIsStill`; `StopResolves` |
| `crash_recovery` | four steps; crashes, evidence refusals, one retry | `TransfersInOrder`; `BookedIsDelivered`; `MoveSurvivesCrash`; `StepEnds` |
| `recovery` | one monitored step, one retry, one safe move, one hold by the monitor; losses, crashes of Main and Nav, persons, AI outages, stops, fleet E-stops | `HeldTypeOK`; `LoadedMoveIsWatched`; `OldCommandIsOver`; `RecoveryEndsInHold` |
| `recovery_progress` | the same step, fair; persons, stops, fleet E-stops, saved decisions | `AbortedIsStill`; `RecoveryEnds` |
| `nav_server` | two robots, a move and the dock command that follows it against a command of the other robot on a shared segment; cancel, E-stop, late gate, unconfirmed stop, failure, jog | `OneRobotPerSegment`; `OneExecutor`; `ToldOnce`; `ImplementsRegistry`; `RegistrySettles`; `EstopBringsRest` |
| `fleet` | four orders, two robots, three bins, two request threads and the poller, eight days | `FleetTypeOK`; `RobotAgrees`; `ClaimsCovered`; `CancelledIsOver`; `WorkIsTaken` |
| `docking` | one robot, its parking place and one slot; every fault but an obstacle behind, and sensors stale from the start; refused bursts up to 50 mm (`Vain`), a realignment of 40 mm (`Backoff`) | `DockTypeOK`; `BacksOutToStart`; `CanceledBaseStops`; `BlindBaseStops`; `ReportedCargo`; `DriveFromOutside`; `CommandEnds` |

Four runs, `stop_forgotten`, `monitor_lost`, `canceled_drives` and
`camera_reverses_twice`, show what the code does not keep (section 5).

**Bounds.** A race needs two threads: one that read and one that wrote since. The
runs of Main have the poller, the person monitor's poller where it matters, and
one request thread; a request thread that is done takes the next request, so any
number of requests follow one another. The short plan has each kind of step
whose handling differs but for leaving the dock and the return. `MaxGen`,
`MaxMoves` and `MaxMarks` bound retries, safe moves and monitor holds, each in
the guard of the action that counts; one of each already gives a command beside
another, and a hold beside a hold. `NavServer` has two robots because a segment
is contended between two processes, three commands because a gate, its
successor and a stranger are needed, and disturbs one robot. The days of `Fleet`
pair the requests that touch the same rows; two orders for one pallet and two
for one empty bin are among them. The distances of `Docking` are those of the
configuration, with a burst of 50 mm, coarser than the code's tenth of a second
and finer than what separates the places that matter. All other state is finite
by construction.

**Deadlock** checking is on for `NavServer` and `Docking`. It is off where the
system really stops: a task, and the orders of a day, come to their end, and then
nothing happens.

**Fairness.** *Orchestrator*: a thread of Main goes on with its job (`WF
Continue(w)`: it is running code, each wait has a timeout); a request that is
repeated gets through at last (`SF Send(w)`); the poller ticks (`WF PollOnce`:
`poll_task_progress_loop` sleeps and loops and catches every exception); every
command ends (`WF NavStep(c)`); a crashed Main is restarted by its supervisor.
*Recovery* adds the tick of the person monitor. *NavServer*: executor and request
threads run; a step whose goal is driven, and is not stopped for ever, reaches it
or sees that it is stopped (`SF Reach \/ FailStep`: Nav2 answers every goal, the
docking loops have timeouts, and `_monitor_nav_task`, which has none, looks at the
E-stop in every turn); a jog times out. No fault is fair: `BreakStep` may never
come, so a step under a latched E-stop ends only by seeing it. *Fleet*: the poller ticks, transactions end, orders
under way end. *Docking*: the thread that carries a command out goes on, as every
wait of it is bounded. Nothing forces a callback to arrive (it is posted once), an
operator or a person to act, or a fault to happen. `StepEnds` leaves the unload
step out: callback thread and poller may both wait for its verdict, the slower
one turns `dispatched` back into `dispatching`, and the poller then repeats a
dispatch that Nav refuses for want of a gate, for ever.

**Mutants.** Every property of a passing run has a mutant of the modelled code,
an operator beside the original whose comment begins with `mutant:`. Examples:
Nav runs again a command that ended; the claim does not compare the command; the
stop forgets the transfer under way; startup overlooks a safe move that is
being sent; an end is written over a cancel; the locks of an ARRIVED command are
released; a plan is not repeated under the lock; a tick gives up behind the first
order it cannot place; the way back is the measured insertion alone.

### Where the properties end

Each of these was tried, and TLC shows the property broken beyond it; the hazards
in `PROJECT.json` carry the lines.

* No run of `Orchestrator` has `start`, the fault by which a start is asked for
  while another is under way. Without it at most one thread is between the read of
  the status and the write (`BeginStart`), which is a restriction and not what the
  code sees to. With it `RunsCurrentStep`, `AppliedOnce`, `CancelledIsEmpty`,
  `DeliveredIsNotFailed`, `FreedRobotIsStill`, `StepEnds` and the refinement fail
  (section 5); `TypeOK`, `TransfersInOrder` and `BookedIsDelivered` hold, and are
  proved with it.
* `RunsCurrentStep`, `AppliedOnce`, `DeliveredIsNotFailed`, `CancelledIsEmpty`,
  `FreedRobotIsStill`, `AdvanceOnEnd` and the refinement are about orders whose
  transfers are approved, and do not hold together with `refuse`: the retry saves
  a record it read before, and an order that was delivered can be failed by a
  thread that still drives it. `TransfersInOrder` and `BookedIsDelivered` hold with
  `refuse`, too.
* `RunsCurrentStep` speaks of the time before the delivery, and
  `FreedRobotIsStill` lets the robot of a DONE order be on its way home. Both
  exceptions are one race of three threads: a verdict of PRE_DROP_OFF that comes
  late writes the record of the unload step back over that of a later step, and
  the second end of the unload, with a stop or with another order to chain,
  completes the order while Nav drives home.
* `MoveSurvivesCrash` names its exception: after a crash between claim and
  finalize, an unmonitored step stays in ADVANCING.
* `LoadedMoveIsWatched` needs a held step that is itself monitored: after a
  crash, startup looks at the step and not at the safe move. It, `OldCommandIsOver`
  and `AbortedIsStill` need an operator who acts only when no request to Nav is
  under way and a latched E-stop has ended what it stops (`Unhurried`): resume proves the old command inactive by an idle Nav
  that does not know it, and a request that is still on its way starts it after.
* `AbortedIsStill` needs, besides, that requests and answers arrive and that Nav
  stays up: what ends the command of the held step is the E-stop of the hold, not
  the stop of the abort. When that E-stop is lost, or Nav has forgotten that it is
  latched, a command that waits for Nav2 or docks outlives the abort. A command
  "runs" in `AbortedIsStill` when it is ACTIVE in the registry; the base of one
  that is canceled may still drain, which is the matter of `NavServer`.
* Some properties are for one request thread, as in the runs. `LoadedMoveIsWatched`:
  the request that stopped all robots closes the person monitor after the E-stop
  was confirmed, by then perhaps under the safe move of another request.
  `AbortedIsStill`: the stop that answered for one abort is finalized after a hold
  and a second abort, while a thread still arms or sends the safe move of between.
  `RecoveryEndsInHold`,
  when decisions are saved: one overwrites the record of another request.
* `OldCommandIsOver` excludes saved decisions, which turn a dispatched step back
  into a pending one, and, beyond one retry, a restart of Nav: request thread and
  poller may both be about to post one step, the first is aborted by an E-stop,
  which ends the step, Nav forgets it, and the post of the second runs it beside
  the resumed one. The `recovery` run, with one retry, has Nav restarts.
* `OneRobotPerSegment` and `ImplementsRegistry` exclude a command that outlasts
  the TTL of its locks (60 s, not renewed). `ToldOnce` speaks of DONE and FAILED only: concurrent
  cancels, the gate timer and an E-stop do overwrite ABORTED, CANCELED and
  STOP_UNCONFIRMED. `EstopBringsRest` asks while the latch is on: an ABORTED
  command goes on when the E-stop is cleared at once. That the stop of an ARRIVED
  command hits the goal of the robot's next one violates none of them. TLC has one
  request thread in `Nav.cfg`: that a cancel or an E-stop comes between the pop of
  a gate and the registration is covered by the proofs alone.
* `ClaimsCovered` excludes, as `Firm`, a booking between the two reads of one plan
  (`plan`) and a start from an outdated read (`start`); `RobotAgrees` and
  `CancelledIsOver` exclude, as `Calm`, a cancel that is overtaken (`cancel`),
  robots saved as idle by hand (`upsert`) and evidence-only runs (`evidence`),
  which take a robot without an order. `WorkIsTaken` says what a ready robot
  implies.
* `DriveFromOutside` leaves out, as `StuckInside`, a robot that a broken-off command
  left in a slot or nearer than `NearPark` to its parked depth, and a move by hand
  or for safety (`Drive`) after a command that broke off or while the parking state
  is unknown; it assumes sensors that are fresh when the command begins and a free
  place behind. `BlindBaseStops` leaves the insertion by the width of the marker
  out. `BacksOutToStart` is for `pixel` and `metric`, and lets a transfer by `pixel`
  end as far behind its start as the approach miscounted (`acct.over`).

## 4. What is proved

**`OrchestratorProofs`**, for every plan, number of threads, bound on retries and
set of faults that the assumptions of `NavContract` and `Orchestrator` allow:

* `TypeCorrect`: `Spec => []TypeOK`. `TypeOK` is not inductive: finalizing
  writes the job's snapshot and advances its cursor, which stays typed only if
  the snapshot's cursor is within the plan; and the retry goes back one step,
  which exists only if the held step is a transfer. `TypeInv` adds `JobsOK`, what
  a job of every kind knows of its snapshot and its command. `ApproachAssumption`
  (a transfer is preceded by its approach, and the plan does not end with a load)
  is what `plan_command_steps` produces, and is needed here.
* `InventoryMovedOnce`: `OneStart => (Spec => [](applied \in {0, 1}))`, where
  `OneStart` says that `start` is not among the faults. It rests on `StartInv`
  (until it is started an order has no record and one thread that is about to start
  it) and on `NextMovesTask`: every step leaves the task, the robot and the
  inventory alone, starts the task, or ends a running one by `Deliver` or `Release`.
  The inductive invariant `AppliedInv` ties the count to the status. It matters
  because the *record* is not safe in this way: a late blind save may bring the
  record of a finished order back to RUNNING (section 5); its inventory does not
  move again, with any number of threads and with transfers refused and retried.
  It would, if the order were started once more.

**`OrderProofs`** relates Main to Nav, under the same assumptions and with every
fault, refused transfers and overlapping starts included:

* `TransfersStayInOrder`: `Spec => []TransfersInOrder`, and
  `BookedGoodsAreDelivered`: `Spec => []BookedIsDelivered`. The inductive
  invariant is `OrderInv`, `TypeInv` with `OrderKnows`: what the record, the
  snapshot and command of every thread, the commands that run and the callbacks
  in the mail know of Nav's registry (`RecordKnows`, `JobKnows`, `EventKnows`).
  Nothing less is inductive: a thread dispatches, settles or completes by a
  snapshot that is arbitrarily old, and what makes it right is that a snapshot
  only ever told of ends that Nav cannot take back. The registry is a parameter of
  these predicates, and `Later` says how it moves on: what is known stays known.
  The `Quiet` steps, those that decide nothing about the mission (a hold, a
  request to Nav, an end of a command), are then one lemma.

**`WorkOrderProofs`**, where the evidence service approves its transfers
(`Approved`, that is, `refuse` is not among the faults) and starts of the order do
not overlap (`OneStart`; the properties are false otherwise, see section 3), for
every plan and number of threads, with losses,
crashes, stops and safety holds:

* `NavRunsCurrentStep`, `InventoryFollowsDelivery`, `DeliveryIsKept`,
  `CancelLeavesNothing`, `FreedRobotRests`: the invariants `RunsCurrentStep`,
  `AppliedOnce`, `DeliveredIsNotFailed`, `CancelledIsEmpty` and
  `FreedRobotIsStill`; `CursorPassesEndedSteps`: `AdvanceOnEnd`.
* `OrchestratorImplementsWorkOrder`: `Spec => ImplementsWorkOrder`, the refinement
  for every value of the constants.

  The inductive invariant is `WorkInv`, `OrderInv` with `OrderGoes`. `RecordGoes`:
  every step before a record's cursor has ended and is DONE in the record, the
  delivery is noted when the cursor passes it, and the cargo policy of a stop was
  decided for the step of its command. `JobGoes`: the same of every snapshot, and
  that the record has been there (`Reached`): before the delivery the durable
  record is never behind a thread, after it at most back at the unload step.
  `WorldGoes`: Nav knows no command that the record did not reach, and the pallet
  is on the forks only after a load began. `EndsGo`: an order that failed or was
  cancelled was not delivered, its current step is over, and a cancelled one has
  empty forks. `StepShape` splits the steps into `Quiet` ones, crashes and the
  `Loud` ones (a start, an observation, a claim, a settlement, a verdict, a
  persisted stop); the refinement maps each to a step of `WO!Next` or a stutter.

**`FleetProofs`**, for every set of orders, robots, bins and threads and every set
of days, from `FleetAssumption` and `MadeAssumption` (the orders that a day begins
with are covered by the bins they begin with):

* `FleetTypeCorrect`: `FleetSpec => []FleetTypeOK`. That an inventory never
  becomes negative is part of it; the typing of a transaction (`TxnOK`: one that
  is past its choice has a bin, one that claims has a row) is what makes it
  inductive.
* `RobotsAgree`: `FleetSpec => []RobotAgrees`, and
  `CancelsEnd`: `FleetSpec => []CancelledIsOver`, on `Calm` days, which is part of
  the properties. The inductive invariant is
  `FleetInv`. `RowsAgree` is stronger than the property (an order that is neither
  assigned nor running has no robot, one under way has status RUNNING); it is kept
  by the commit of a tick only because what the tick claimed is still as it was
  when it claimed it, which `ClaimsHold` says (the rows are locked, no two
  transactions claim one order or one robot), and by the writes of start and
  cancel because of what `ReadsHold` says of their earlier reads.
* `BinsCovered`: `FleetSpec => []ClaimsCovered`, on `Firm` days. The planner sums the claims of a
  bin with `MapThenSumSet`, a recursive function over a set; what it computes is
  derived from its equation by looking at a smallest set of orders for which a
  statement fails (`LeastSet`): the recursion has one solution (`SumExists`,
  `SumUnique`), and whichever order is taken out first the sum is the same
  (`SumSplit`), so that it grows by the quantity of a new claim and shrinks by
  that of a booked one. The other part of the invariant is `WorkLive`: an order
  that a transaction has claimed or is about to start is not over, since whoever
  ends an order needs its row; otherwise a commit would bring a claim back.

**`NavServerProofs`**, for any number of robots, commands, segments and request
threads, any routes and any faults. `NavServerAssumption` says that a route names
a segment once, which `traffic_segments_from_steps` sees to.

* `ExecutorAlone`: `NavServerSpec => []OneExecutor`. A running executor holds the
  execution lock (`ExecutorHeld`), until the release, whatever the registry says of
  its command by then.
* `ToldOnceForAll`: `NavServerSpec => []ToldOnce`. `ToldInv` ties what was posted
  to the registry: nothing was said of a command in force, and one reported DONE
  or FAILED is still in that state. It is kept because no thread that cancels or
  aborts holds a command that ended well (`EndsHand`), although it overwrites the
  state without looking.
* `SegmentsExclusive`: `Prompt => (NavServerSpec => []OneRobotPerSegment)`, where
  `Prompt` excludes a command that outlasts its locks. A command in force holds
  its locks (`LocksHeld`), a registration those it has come to (`LocksTaken`). The
  conflict branch releases by force, also locks taken over from the robot's
  previous command; that no command in force loses one rests on `LocksHand`: while
  a registration is under way its robot has no command in force.
* `ProcessesAreOneRegistry`: `Prompt => (NavServerSpec => ImplementsRegistry)`, the
  refinement of `CommandRegistry`. Taking the last lock is the step that maps to
  `Accept` (`RegistersAtOnce`): by then every segment names this command, so none
  is part of another robot's route. Every other step of a registration is a
  stutter. A cancel that is confirmed after a timer or an E-stop acted finds the
  command in a stopped state (`EndsHand`), and the executor that gives the lock up
  held it for a command of its own robot (`RunsOwn`).

**`RecoveryProofs`**, for any bounds on retries, safe moves and holds. What an
operator must not do is in the hypotheses: `OneRequest` (one request thread),
`Unhurried`, no saved decision (`"note"` is not among the faults), no restart of
Nav; section 3 says what happens without them. Every other fault may happen, but
in `AbortLeavesNothing`.

* `HeldTypeCorrect`: `Spec => []HeldTypeOK`, without hypotheses. `HeldInv` adds
  that a request which is under way is below its bound (`Below`), as the record it
  read is still the record when it commits, and who may be at which place.
* `RecoveryIsHeld`: `Spec => RecoveryEndsInHold`, if no decision is saved or there
  is one request thread. A decision that was read before a recovery is also saved
  before it (`NotesFollow`).
* `AbortLeavesNothing`: `Attended => (Spec => []AbortedIsStill)`. `Attended` is
  `OneRequest`, `Unhurried` and no fault but persons, stops and fleet E-stops. The
  manual stop does nothing to the registry, so the proof is about the hold that
  comes before every abort: its E-stop, or its cancel, has ended the command or is
  about to (`AbortKnows`, `EstopComes`), and while it is not sent no request of an
  operator begins; a thread that is at an abort knows that none is ACTIVE and none
  is about to be posted.
* `ResumedStepIsAlone`: `Spec => []OldCommandIsOver`, from `Unhurried`, for any
  number of request threads, without saved decisions and Nav restarts. `OldKnows`
  says what the state of the step tells of its command (pending: Nav does not know
  it; ended: it is over), and `ResumeKnows` what the resume has found out and that
  no thread is about to post.
* `SafeMoveIsWatched`: `Spec => []LoadedMoveIsWatched`, for a monitored step
  (`OneWatched`). `WatchKnows`: a safe move reaches Nav only after it left PENDING,
  it is armed before that, and no thread that will disarm is at work while a safe
  move is the record's; a crash takes the monitor away, and the start that follows
  holds the move before anything else.

  The invariants rest on four lemmas that say what one step can do, whatever it
  is: to the job of a thread (`JobsMove`), to the record (`RecordMoves`), to a
  command in Nav's registry (`NavMoves`), and to the armed monitor
  (`MonitorMoves`).

**`DockingProofs`**, for all distances, ways of insertion and faults:

* `DockTypeCorrect`: `DockingSpec => []DockTypeOK`. Distances that are left to
  drive are natural numbers. For the way back to a saved pose this is a fact about
  the whole insertion, `MetricWay`: it only goes forward, so the saved pose is
  behind the robot.
* `CancelStopsBase`: `DockingSpec => []CanceledBaseStops`, and
  `StaleStopsBase`: `DockingSpec => BlindBaseStops`. The invariant `LastBurst`
  says why: a burst that is admitted and not yet driven is the last one, and an
  admitted burst exists only in a stage that moves.

**`DockingWayProofs`**, for all distances that fit one another. What a later motion
takes for granted of an earlier one is a relation among the settings, and stated
as such in `Docking`: `InsertionFits` (the shortest insertion, after an alignment
and all creeps, carries the pallet and is no shorter than the least reverse) and
`LeaveFits` (a parked robot is told by its pose; what a stored distance leaves out,
alignment and creeps, is within the slack; the fallback brings the robot out).
`MCDocking` assumes both, so that TLC evaluates them for both of its
configurations. The configured ways (insertions of 0.375 m to 0.4 m in
`map/zones.json`, a least reverse of 0.05 m) leave ample room; at which depth a
marker has its stop width is a matter of the mounting, and the hypotheses say what
it must be. `Fit` is `InsertionFits` without the insertion measured by the camera,
which counts its way twice (`camera_reverses_twice`).

* `TransferBacksOut`: `Fit => (DockingSpec => []BacksOutToStart)`, under every
  fault. The invariant `WayInv` says of each stage of an insertion that the way
  driven is the way counted less what was counted in vain (`Exact`, `Ahead`), or
  that an E-stop halted the motion and nothing goes on after it; a gate that is kept means a robot that stands outside,
  so that a transfer begins where its reverse is to end.
* `TransferIsReported`: `Fit => (DockingSpec => []ReportedCargo)`, from the same
  invariant: a transfer that goes on has its pallet where the report will say.
* `NavStartsOutside`: `Fit /\ Undisturbed => (DockingSpec => DriveFromOutside)`.
  `Undisturbed` is `LeaveFits`, a place behind the robot that is free, and sensors
  that are fresh when a step begins; section 5 (`docking.py:2510`, `:2584`) says
  what happens otherwise. The property itself leaves out what `StuckInside` names:
  commands that broke off, and moves that no order prepared while the parking state
  is unknown. `Parking` says that what Nav remembers of a robot at its place
  brings it out: the flag is set, or unknown and the pose tells, and the stored
  distance is short of the true one by the slack at most; and that a robot known to
  be not parked is outside (`KnownOut`), which is why a move at any other time may
  do without a leave.

Each proof has one lemma per action or group of actions that change the same
rows. Only model-checked is liveness, which is out of the prover's reach. Every
invariant that a passing run checks is proved, for all values of the constants
under the hypotheses given above.

## 5. Where code and statement disagree

With a run:

1. `stop_forgotten`. `_advance_on_command_event` reads the phase without a lock;
   the claim accepts a record that a stop has changed since. The thread finishes
   the step as if there were no stop, and dispatches the next.
2. `monitor_lost`. The AI server forgets its sessions when it restarts and
   expects Main to assert them again. Main does ask again, but `enable_monitor`
   returns at once because its own memory says "enabled", and the answer counts
   as healthy: the loaded robot drives on unwatched.
3. `canceled_drives`. A step that waits for Nav2 sends its goal without looking
   at the command again. A cancel in between is confirmed, with a robot at rest,
   as CANCELED; then the robot drives.
4. `camera_reverses_twice`. An insertion measured by the camera is driven by
   `execute_precision_docking`, which counts its advance, and is then counted once
   more as the insertion; the way back is the sum.

Known from exploring the models, without a run of their own:

* `orchestrator.py:493-552`: a start reads ASSIGNED without a lock, asks the robot
  for its map, and then appends a fresh record and sets RUNNING without a
  condition. Whatever happened in between, the order is at its first step again.
  With `start` TLC has a second start rewind an order whose command runs
  (`RunsCurrentStep` fails; WORKFLOW.md:63, "Nav에는 현재 단계의 원자 명령 하나만
  전달"), revive one that is DONE, whose inventory is then moved a second time
  (`AppliedOnce`; docs/history/verification/2026-07-15-main-nav-ai-integration.md:16,
  "재고는 전체 orchestration이 `DONE`일 때 한 번만 반영된다"; the lock that
  DATABASE.md:54 speaks of asks only whether the task is DONE now), and, with a stop
  besides, end it as CANCELLED with a loaded robot. Every one of these is told by
  the same two reads, so the properties are stated for one start at a time.
* `task_recovery.py:1418`: the abort stops the base by `movement_manual_stop`
  (`movement_api.py:582`), which changes no command; `troubleshooting.md:30` and
  `e2e-contract.md:80` have the task end after the robot's stop was confirmed. A
  command that waits for Nav2 or docks goes on, with the task CANCELLED and the robot
  given to others, if the E-stop of the hold did not end it: it was lost (`loss`),
  Nav restarted and does not know it (`navcrash`), or two threads arm one safe
  move and the slower one sends it after the abort (`ai`).
* `orchestrator.py:842`: the verdict of PRE_DROP_OFF is saved over the record as
  it was before the remote call. A hold committed meanwhile is gone (WORKFLOW.md
  and the locked save in `evidence.py:86` say it stays), and the unload is
  dispatched.
* `dispatching` is never asked about: when the answer to a dock command is lost,
  the repeated dispatch finds no gate and is refused for ever, though the
  documentation says that the identity is queried.
* `tasks.py:267`: a cancel that was overtaken by the start cancels an order that
  runs on.
* `work_order_planner.py:106-145`: stock is read before claims, so a booking
  between the two is counted twice or not at all, also under the lock.
* `tasks.py:383`: a duplicate key ends a whole tick; `orchestrator.py:1476-1490`:
  an order whose chained start failed stays ASSIGNED and nothing starts it;
  `inventory_ops.py:50`: an inbound location that holds less than ordered refuses
  the completion for ever.
* `docking.py:1797`: the insertion by width does not look at the age of its
  sensors after it has begun, although the gate is described as holding for every
  docking motion. `docking.py:2584-2601`: with the place behind taken, the leave
  ends DONE without having moved, where NAV_ALGORITHM.md has a safe stop.
  `docking.py:2510`: an unknown parking state with a stale pose and a dark marker
  counts as "not parked". A lift that is under way starts its next phase under a
  latched E-stop.
* `robot_commands.py:823`: a leave that is broken off keeps the flag and the
  stored distance, and the next one backs out by the full distance again.
* `docking.py:1293-1305`: the approach counts a burst before it looks at whether it
  was driven. One that the front laser refuses (`logistics_navigator.py:2371-2384`)
  is logged as blocked and counted; what is backed to come up again straight
  (1267-1276) is not subtracted. Both make the reverse longer than the way in, by
  up to what `docking_timeout_sec` and `normal_realign_backoff_m` allow.
* `robot_commands.py:825`: a move begins with a leave only if the parking state is
  True. After a restart it is None, which `nav_app/runtime.py:26` ("None = 미상 …
  후방 안전체크 후 후진") and NAV_ALGORITHM.md:217 ("True/Unknown") have back out
  first. A move by hand, or Main's safe move (`task_recovery.py:346`), then starts
  Nav2 inside the parking place, with fresh sensors and room behind.
  Orders are safe from this because each begins with a leave.
* `manual_control.py:26`: a jog is admitted beside a RUNNING command that waits.

## 6. Plan

What would come next, in this order:

| Work | Properties and theorems |
| --- | --- |
| `CommandRegistry` against `NavContract` | what Main relies on is coarser and in places stricter: its E-stop latches and aborts in one step, a gate is open as soon as its move has ARRIVED, and a command that ended by E-stop stays ABORTED; Nav latches first, records the gate after ARRIVED was told, and a cancel under way overwrites ABORTED. Either `NavContract` takes these in, or the runs of Main show that it does not matter |
| `VisionMonitor` | sessions and generations of the AI server, whose revision is computed and stored under two lock sections: a stale session reports nothing |
| `EvidenceRules` | the windows and rules as functions, equal to a reference definition on bounded inputs |
| `Fleet` | dashboards, nonphysical completion, history rows |

## 7. Not modelled, and why

* **Legacy missions and zone locks** (`mission_manager.py`,
  `zone_lock_manager.py`): their ingress answers 410, nothing starts a mission.
* **Vision sessions and evidence rules** of the AI server: in the plan; until then
  the session is the external part of `PersonMonitor` and the verdict an input of
  `Orchestrator`.
* **Localization, map alignment, controller gains, image geometry**: continuous or
  numeric; they appear as outcomes (found or not, fresh or not, arrived or not).
* **AI inference, streams and overlays, the ROS 2 perception bridge**: data
  processing without state that outlives a request.
* **Front end, maps, poses, robots and admin API**: render or store; they decide
  nothing about an order.
* **Scripts, configuration, assets, hardware**: not programs of the core.

These parts are the larger half of the source tree (the camera and streaming
API, training and probing scripts, map alignment), so the share of the lines that
the models stand for is bounded well below the whole; of the modules that decide
about orders, commands and docking, the map covers most lines.

## 8. Running

In this directory, `tlc -config <Run>.cfg <Module>.tla` for each run, with
`MCOrchestrator` (`DeliveryFaults`, `StopForgotten`, `StopMission`,
`CrashProgress`), `MCRecovery` (`RecoveryFaults`, `RecoveryProgress`,
`MonitorLost`), `MCNav` (`Nav`, `CanceledDrives`), `MCFleet` (`Fleet`) and
`MCDocking` (`Docking`, `CameraReverse`); each takes at most three minutes with
two workers. `tlapm OrchestratorProofs.tla`, `tlapm OrderProofs.tla`,
`tlapm WorkOrderProofs.tla` (the longest), `tlapm RecoveryProofs.tla`,
`tlapm FleetProofs.tla`, `tlapm NavServerProofs.tla`, `tlapm DockingProofs.tla` and
`tlapm DockingWayProofs.tla` check the proofs.
