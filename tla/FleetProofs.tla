---------------------------- MODULE FleetProofs ----------------------------
(***************************************************************************)
(* Theorems about the order book, for any orders, robots, bins, threads    *)
(* and days.                                                               *)
(***************************************************************************)
EXTENDS Fleet, FiniteSetTheorems, TLAPS

\* A transaction's record.
Txn == [at : TxnAt, task : Task \cup {NoTask}, robot : Robot \cup {NoRobot},
        seen : [Bin -> Nat], bin : Bin \cup {NoBin},
        held : SUBSET ({"in", "out"} \X (Bin \cup {NoBin})),
        queue : SUBSET (Task \X Priority), free : SUBSET Robot,
        claim : [Task -> Robot \cup {NoRobot}], todo : SUBSET Task]

CreateAt == {"choose", "lock", "recheck"}

\* An order that has a row has a bin, and a transaction works on an order with
\* a row, unless it creates it on the bin it has chosen.
HasRow(t) == t \in Task /\ status[t] # "NEW"

TxnOK(x) ==
    /\ x \in Txn
    /\ x.at \in CreateAt => x.task \in Task
    /\ x.at \in {"lock", "recheck"} => x.bin \in Bin
    /\ \A t \in Task : x.claim[t] # NoRobot => HasRow(t)
    /\ x.at = "cancel" => HasRow(x.task)
    /\ x.at = "start" => HasRow(x.task) /\ x.robot \in Robot

BinsKnown == \A t \in Task :
    /\ status[t] # "NEW" => bin[t] \in Bin
    /\ phase[t] # "NONE" => status[t] # "NEW"

FleetTypeInv ==
    /\ FleetTypeOK
    /\ BinsKnown
    /\ txn \in [Proc -> Txn]
    /\ \A p \in Proc : TxnOK(txn[p])

\* Rows of orders and robots that agree: st and ow are the status and the robot
\* of every order, ph its phase, rs the status of every robot.
Agree(st, ow, rs, ph) ==
    /\ \A t \in Task :
          /\ st[t] \in {"ASSIGNED", "RUNNING"} => ow[t] \in Robot /\ rs[ow[t]] = st[t]
          /\ st[t] \in {"NEW", "QUEUED", "FAILED", "CANCELLED"} => ow[t] = NoRobot
          /\ ph[t] \in {"RUNNING", "HELD"} => st[t] = "RUNNING"
          /\ ph[t] # "EVIDENCE"
    /\ \A t, u \in Task :
          st[t] \in {"ASSIGNED", "RUNNING"} /\ st[u] \in {"ASSIGNED", "RUNNING"}
             /\ ow[t] = ow[u] => t = u
    /\ \A r \in Robot : rs[r] # "IDLE" =>
          \E t \in Task : ow[t] = r /\ st[t] \in {"ASSIGNED", "RUNNING"}

RowsAgree == Agree(status, owner, rstat, phase)

\* What a transaction has claimed and not committed is still as it was.
ClaimFresh(p, t) == txn[p].claim[t] # NoRobot =>
    /\ txn[p].at \in {"tick", "launch"}
    /\ status[t] = "QUEUED" /\ rstat[txn[p].claim[t]] = "IDLE"
    /\ txn[p].claim[t] \notin txn[p].free
    /\ \A e \in txn[p].queue : e[1] # t

\* A robot is claimed for one order, and an order by one transaction.
RobotClaimedOnce == \A p, q \in Proc : \A t, u \in Task :
    txn[p].claim[t] # NoRobot /\ txn[p].claim[t] = txn[q].claim[u] => p = q /\ t = u
TaskClaimedOnce == \A p, q \in Proc : \A t \in Task :
    txn[p].claim[t] # NoRobot /\ txn[q].claim[t] # NoRobot => p = q
QueuedOnce == \A p \in Proc : \A e, f \in txn[p].queue : e[1] = f[1] => e = f

ClaimsHold ==
    /\ \A p \in Proc, t \in Task : ClaimFresh(p, t)
    /\ RobotClaimedOnce
    /\ TaskClaimedOnce
    /\ QueuedOnce

\* What a transaction has read is still so where it relies on it.
ReadFresh(p) ==
    /\ txn[p].at \in CreateAt => status[txn[p].task] = "NEW"
    /\ txn[p].at = "cancel" =>
          /\ status[txn[p].task] \in {"QUEUED", "ASSIGNED", "FAILED"}
          /\ txn[p].robot = owner[txn[p].task]
          /\ \A q \in Proc : txn[q].claim[txn[p].task] = NoRobot
    /\ txn[p].at = "start" =>
          /\ status[txn[p].task] # "QUEUED"
          /\ owner[txn[p].task] \in {txn[p].robot, NoRobot}

CancelsApart == \A p, q \in Proc :
    p # q /\ txn[p].at = "cancel" /\ txn[q].at = "cancel" => txn[p].task # txn[q].task
CreatesApart == \A p, q \in Proc :
    p # q /\ txn[p].at \in CreateAt /\ txn[q].at \in CreateAt => txn[p].task # txn[q].task

ReadsHold ==
    /\ \A p \in Proc : ReadFresh(p)
    /\ CancelsApart
    /\ CreatesApart

FleetInv == FleetTypeInv /\ (Calm => RowsAgree /\ ClaimsHold /\ ReadsHold)

-----------------------------------------------------------------------------
(* Types.                                                                  *)

\* The first of a set of bins is one of them.
LEMMA MinIn ==
    ASSUME NEW S \in SUBSET Nat, S # {}
    PROVE  Min(S) \in S
<1> DEFINE Less == {pair \in Nat \X Nat : pair[1] < pair[2]}
<1>1. IsWellFoundedOn(Less, Nat)
  BY NatLessThanWellFounded, Zenon DEF OpToRel
<1> HIDE DEF Less
<1>2. \E x \in S : \A y \in S : <<y, x>> \notin Less
  BY <1>1, WFMin
<1>3. \E x \in S : \A y \in S : x <= y
  <2>1. PICK x \in S : \A y \in S : <<y, x>> \notin Less
    BY <1>2
  <2>2. ASSUME NEW y \in S
        PROVE  x <= y
    <3>1. <<y, x>> \in Nat \X Nat /\ <<y, x>>[1] = y /\ <<y, x>>[2] = x
      OBVIOUS
    <3>2. ~(<<y, x>>[1] < <<y, x>>[2])
      BY <2>1, <3>1, Zenon DEF Less
    <3> QED
      BY <3>1, <3>2
  <2> QED
    BY <2>1, <2>2
<1> QED
  BY <1>3, Zenon DEF Min

\* A plan is a set of bins.
LEMMA PlanBins ==
    ASSUME FleetTypeInv, NEW p \in Proc, txn[p].task \in Task
    PROVE  Plan(p) \in SUBSET Bin
<1>1. Wish[txn[p].task].bins \in SUBSET Bin
  BY FleetAssumption
<1> QED
  BY <1>1 DEF Plan, Fits

\* A transaction that ends, or does nothing yet, is typed.
LEMMA NoTxnTyped == NoTxn \in Txn
  BY FleetAssumption DEF NoTxn, Txn, TxnAt, NoClaim, NoTask, NoRobot, NoBin

\* A transaction that has ended is fine.
LEMMA NoTxnOK == TxnOK(NoTxn)
  BY NoTxnTyped DEF TxnOK, NoTxn, CreateAt, NoClaim

LEMMA TypesInit == FleetInit => FleetTypeInv
<1> SUFFICES ASSUME FleetInit
             PROVE  FleetTypeInv
  OBVIOUS
<1>1. day \in Days /\ day.made \in [Task -> Bin \cup {NoBin}]
  BY FleetAssumption DEF FleetInit, NoBin
<1>2. FleetTypeOK
  BY <1>1, FleetAssumption DEF FleetInit, FleetTypeOK, TaskStatus, TxnAt, NoTxn, NoRobot
<1>3. BinsKnown
  BY <1>1 DEF FleetInit, BinsKnown
<1>4. txn \in [Proc -> Txn] /\ \A p \in Proc : TxnOK(txn[p])
  BY NoTxnOK, NoTxnTyped DEF FleetInit
<1> QED
  BY <1>1, <1>2, <1>3, <1>4 DEF FleetTypeInv

\* A step of one thread that leaves the book alone.
LEMMA ThreadTypes ==
    ASSUME FleetTypeInv, NEW p \in Proc, UNCHANGED <<day, book>>, NEW x,
           txn' = [txn EXCEPT ![p] = x], TxnOK(x)
    PROVE  FleetTypeInv'
<1>1. x \in Txn /\ \A q \in Proc : txn'[q] \in {txn[q], x}
  BY DEF FleetTypeInv, TxnOK
<1>2. (\A q \in Proc : TxnOK(txn[q]))'
  <2>1. ASSUME NEW q \in Proc
        PROVE  TxnOK(txn[q])'
    <3>1. TxnOK(txn'[q])
      BY <1>1 DEF FleetTypeInv
    <3> QED
      BY <3>1 DEF TxnOK, HasRow, book
  <2> QED
    BY <2>1
<1>3. FleetTypeOK'
  BY <1>1 DEF FleetTypeInv, FleetTypeOK, book, TxnOK, Txn
<1> QED
  BY <1>1, <1>2, <1>3 DEF FleetTypeInv, BinsKnown, book

LEMMA CreateTypes ==
    ASSUME FleetTypeInv, NEW p \in Proc, NEW t \in Task,
           CreateRead(p, t) \/ CreateChoose(p) \/ CreateLock(p) \/ CreateAgain(p)
    PROVE  FleetTypeInv'
<1>0. txn \in [Proc -> Txn] /\ TxnOK(txn[p]) /\ stock \in [Bin -> Nat]
  BY DEF FleetTypeInv, FleetTypeOK
<1>1. CASE CreateRead(p, t)
  <2> DEFINE x == [NoTxn EXCEPT !.at = "choose", !.task = t, !.seen = stock]
  <2>1. TxnOK(x)
    BY <1>0, NoTxnTyped DEF NoTxn, TxnOK, Txn, TxnAt, CreateAt, NoClaim
  <2> QED
    BY <1>1, <2>1, ThreadTypes DEF CreateRead, Begin
<1>2. CASE CreateChoose(p)
  <2>1. Plan(p) # {} => Min(Plan(p)) \in Bin
    BY <1>0, <1>2, PlanBins, MinIn, FleetAssumption DEF CreateChoose, CreateAt, TxnOK
  <2> DEFINE x == [txn[p] EXCEPT !.at = "lock", !.bin = Min(Plan(p))]
  <2>2. Plan(p) # {} => TxnOK(x)
    BY <1>0, <1>2, <2>1 DEF CreateChoose, TxnOK, Txn, TxnAt, CreateAt
  <2>3. txn' = IF Plan(p) = {} THEN [txn EXCEPT ![p] = NoTxn] ELSE [txn EXCEPT ![p] = x]
    BY <1>0, <1>2 DEF CreateChoose, Done
  <2> QED
    BY <1>2, <2>2, <2>3, NoTxnOK, ThreadTypes DEF CreateChoose
<1>3. CASE CreateLock(p)
  <2>1. Wish[txn[p].task].op \in {"in", "out"}
    BY <1>0, <1>3, FleetAssumption DEF CreateLock, CreateAt, TxnOK
  <2> DEFINE x == [txn[p] EXCEPT !.at = "recheck", !.seen = stock,
                       !.held = @ \cup {<<Wish[txn[p].task].op, txn[p].bin>>}]
  <2>a. txn[p].held \cup {<<Wish[txn[p].task].op, txn[p].bin>>}
             \in SUBSET ({"in", "out"} \X (Bin \cup {NoBin}))
    BY <1>0, <1>3, <2>1 DEF CreateLock, TxnOK, Txn
  <2>2. TxnOK(x)
    BY <1>0, <1>3, <2>a DEF CreateLock, TxnOK, Txn, TxnAt, CreateAt
  <2>3. txn' = [txn EXCEPT ![p] = x]
    BY <1>0, <1>3 DEF CreateLock
  <2> QED
    BY <1>3, <2>2, <2>3, ThreadTypes DEF CreateLock
<1>4. CASE CreateAgain(p)
  <2> DEFINE x == [txn[p] EXCEPT !.at = "choose", !.seen = stock]
  <2>1. TxnOK(x)
    BY <1>0, <1>4 DEF CreateAgain, TxnOK, Txn, TxnAt, CreateAt
  <2>2. txn' = [txn EXCEPT ![p] = NoTxn] \/ txn' = [txn EXCEPT ![p] = x]
    BY <1>0, <1>4 DEF CreateAgain, Done
  <2> QED
    BY <1>4, <2>1, <2>2, NoTxnOK, ThreadTypes DEF CreateAgain
<1> QED
  BY <1>1, <1>2, <1>3, <1>4
\* The rows, without the transactions.
BookOK ==
    /\ day \in Days
    /\ status \in [Task -> TaskStatus]
    /\ owner \in [Task -> Robot \cup {NoRobot}]
    /\ prio \in [Task -> Priority]
    /\ bin \in [Task -> Bin \cup {NoBin}]
    /\ phase \in [Task -> {"NONE", "CHAINED", "RUNNING", "HELD", "EVIDENCE", "DONE"}]
    /\ rstat \in [Robot -> {"IDLE", "ASSIGNED", "RUNNING"}]
    /\ stock \in [Bin -> Nat]
    /\ staging \in Nat
    /\ BinsKnown

RowsKept == \A t \in Task : status[t] # "NEW" => status'[t] # "NEW"

LEMMA BookTyped == FleetTypeInv => BookOK
  BY DEF FleetTypeInv, FleetTypeOK, BookOK

\* A step on the rows that leaves the transactions alone.
LEMMA RowTypes ==
    ASSUME FleetTypeInv, UNCHANGED txn, BookOK', RowsKept
    PROVE  FleetTypeInv'
<1>1. (\A q \in Proc : TxnOK(txn[q]))'
  BY DEF FleetTypeInv, TxnOK, HasRow, RowsKept
<1>2. FleetTypeOK'
  BY DEF FleetTypeInv, FleetTypeOK, BookOK
<1> QED
  BY <1>1, <1>2 DEF FleetTypeInv, BookOK

\* A step of one thread on the rows.
LEMMA CommitTypes ==
    ASSUME FleetTypeInv, NEW p \in Proc, NEW x,
           txn' = [txn EXCEPT ![p] = x], TxnOK(x), BookOK', RowsKept
    PROVE  FleetTypeInv'
<1>1. x \in Txn /\ \A q \in Proc : txn'[q] \in {txn[q], x}
  BY DEF FleetTypeInv, TxnOK
<1>2. (\A q \in Proc : TxnOK(txn[q]))'
  <2>1. ASSUME NEW q \in Proc
        PROVE  TxnOK(txn[q])'
    <3>1. TxnOK(txn'[q])
      BY <1>1 DEF FleetTypeInv
    <3> QED
      BY <3>1 DEF TxnOK, HasRow, RowsKept
  <2> QED
    BY <2>1
<1>3. FleetTypeOK'
  BY <1>1 DEF FleetTypeInv, FleetTypeOK, BookOK, TxnOK, Txn
<1> QED
  BY <1>1, <1>2, <1>3 DEF FleetTypeInv, BookOK

\* The claims of a thread, once committed, are typed.
LEMMA ClaimsTyped ==
    ASSUME FleetTypeInv, NEW p \in Proc
    PROVE  /\ StatusWith(p) \in [Task -> TaskStatus]
           /\ OwnerWith(p) \in [Task -> Robot \cup {NoRobot}]
           /\ RstatWith(p) \in [Robot -> {"IDLE", "ASSIGNED", "RUNNING"}]
           /\ \A t \in Task : status[t] # "NEW" => StatusWith(p)[t] # "NEW"
<1>1. BookOK /\ txn[p].claim \in [Task -> Robot \cup {NoRobot}]
  BY BookTyped DEF FleetTypeInv, TxnOK, Txn
<1> QED
  BY <1>1 DEF BookOK, StatusWith, OwnerWith, RstatWith, TaskStatus

LEMMA InsertTypes ==
    ASSUME FleetTypeInv, NEW p \in Proc, NEW r \in Robot \cup {NoRobot}, CreateInsert(p, r)
    PROVE  FleetTypeInv'
<1>1. BookOK /\ txn[p].bin \in Bin /\ txn[p].task \in Task
  BY BookTyped DEF CreateInsert, FleetTypeInv, TxnOK, CreateAt
<1>2. BookOK' /\ RowsKept
  BY <1>1 DEF CreateInsert, BookOK, BinsKnown, TaskStatus, RowsKept
<1> QED
  BY <1>2, NoTxnOK, CommitTypes DEF CreateInsert, Done

LEMMA AssignTypes ==
    ASSUME FleetTypeInv, NEW p \in Proc, NEW t \in Task, NEW r \in Robot, NEW n \in Priority,
           Assign(p, t, r) \/ SetPriority(p, t, n)
    PROVE  FleetTypeInv'
<1>1. BookOK
  BY BookTyped
<1>2. BookOK' /\ RowsKept /\ UNCHANGED txn
  BY <1>1 DEF Assign, SetPriority, BookOK, BinsKnown, TaskStatus, RowsKept, Claimable
<1> QED
  BY <1>2, RowTypes

LEMMA TickTypes ==
    ASSUME FleetTypeInv, NEW p \in Proc,
           TickRead(p) \/ TickClaim(p) \/ TickDeadlock(p)
    PROVE  FleetTypeInv'
<1>0. txn \in [Proc -> Txn] /\ TxnOK(txn[p]) /\ BookOK
  BY BookTyped DEF FleetTypeInv
<1>1. CASE TickRead(p)
  <2> DEFINE queue == {<<t, prio[t]>> : t \in {t \in Task : status[t] = "QUEUED" /\ owner[t] = NoRobot}}
             x(ready) == [NoTxn EXCEPT !.at = "tick", !.free = ready, !.queue = queue]
  <2>1. queue \in SUBSET (Task \X Priority)
    BY <1>0 DEF BookOK
  <2> HIDE DEF queue
  <2>2. ASSUME NEW ready \in SUBSET Robot
        PROVE  TxnOK(x(ready))
    BY <2>1, NoTxnTyped DEF NoTxn, TxnOK, Txn, TxnAt, CreateAt, NoClaim
  <2>3. \E ready \in SUBSET Robot : txn' = [txn EXCEPT ![p] = x(ready)]
    BY <1>1 DEF TickRead, Begin, queue
  <2>4. UNCHANGED <<day, book>>
    BY <1>1 DEF TickRead
  <2> QED
    BY <2>2, <2>3, <2>4, ThreadTypes
<1>2. CASE TickClaim(p)
  <2>1. UNCHANGED <<day, book>> /\ txn[p].at = "tick"
    BY <1>2 DEF TickClaim
  <2>2. PICK e \in txn[p].queue : PassOver(p, e) \/ \E r \in Able(p, e) : ClaimOrLose(p, e, r)
    BY <1>2 DEF TickClaim
  <2>3. CASE PassOver(p, e)
    <3> DEFINE x == [txn[p] EXCEPT !.queue = @ \ {e}]
    <3>1. TxnOK(x)
      BY <1>0, <2>1 DEF TxnOK, Txn, CreateAt
    <3>2. txn' = [txn EXCEPT ![p] = x]
      BY <1>0, <2>3 DEF PassOver
    <3> QED
      BY <2>1, <3>1, <3>2, ThreadTypes
  <2>4. ASSUME NEW r \in Able(p, e), ClaimOrLose(p, e, r)
        PROVE  FleetTypeInv'
    <3>1. r \in Robot /\ e[1] \in Task
      BY <1>0, <2>4 DEF Able, TxnOK, Txn
    <3> DEFINE x == [txn[p] EXCEPT !.queue = @ \ {e}, !.free = @ \ {r}]
               y == [txn[p] EXCEPT !.queue = @ \ {e}, !.free = @ \ {r},
                                   !.claim[e[1]] = r, !.todo = @ \cup {e[1]}]
    <3>2. TxnOK(x)
      BY <1>0, <2>1 DEF TxnOK, Txn, CreateAt
    <3>3. Claimable(e[1], r) => TxnOK(y)
      BY <1>0, <2>1, <3>1 DEF TxnOK, Txn, CreateAt, Claimable, HasRow
    <3>4. \/ txn' = [txn EXCEPT ![p] = x]
          \/ txn' = [txn EXCEPT ![p] = y] /\ Claimable(e[1], r)
          \/ txn' = [txn EXCEPT ![p] = NoTxn]
      <4> HIDE DEF x, y
      <4>1. CASE txn' = [txn EXCEPT ![p].queue = @ \ {e}, ![p].free = @ \ {r}]
        BY <1>0, <4>1 DEF x
      <4>2. CASE /\ Claimable(e[1], r)
                 /\ txn' = [txn EXCEPT ![p].queue = @ \ {e}, ![p].free = @ \ {r},
                                       ![p].claim[e[1]] = r, ![p].todo = @ \cup {e[1]}]
        BY <1>0, <4>2 DEF y
      <4> QED
        BY <2>4, <4>1, <4>2 DEF ClaimOrLose, Done
    <3> QED
      BY <2>1, <3>2, <3>3, <3>4, NoTxnOK, ThreadTypes
  <2> QED
    BY <2>2, <2>3, <2>4
<1>3. CASE TickDeadlock(p)
  BY <1>3, NoTxnOK, ThreadTypes DEF TickDeadlock, Done
<1> QED
  BY <1>1, <1>2, <1>3
\* The claims of a thread, committed, leave the rows typed.
LEMMA ClaimsCommitted ==
    ASSUME FleetTypeInv, NEW p \in Proc,
           status' = StatusWith(p), owner' = OwnerWith(p), rstat' = RstatWith(p),
           UNCHANGED <<day, prio, bin, phase, stock, staging>>
    PROVE  BookOK' /\ RowsKept
<1>0. BookOK /\ \A t \in Task : txn[p].claim[t] # NoRobot => status[t] # "NEW"
  BY BookTyped DEF FleetTypeInv, TxnOK, HasRow
<1>1. RowsKept
  BY ClaimsTyped DEF RowsKept
<1>2. BinsKnown'
  BY <1>0 DEF BookOK, BinsKnown, StatusWith
<1> QED
  BY <1>0, <1>1, <1>2, ClaimsTyped DEF BookOK

LEMMA TickEndTypes ==
    ASSUME FleetTypeInv, NEW p \in Proc, TickEnd(p) \/ LaunchEnd(p)
    PROVE  FleetTypeInv'
<1>0. txn \in [Proc -> Txn] /\ TxnOK(txn[p])
  BY DEF FleetTypeInv
<1>1. CASE /\ status' = StatusWith(p) /\ owner' = OwnerWith(p) /\ rstat' = RstatWith(p)
           /\ Done(p) /\ UNCHANGED <<day, prio, bin, phase, stock, staging>>
  BY <1>1, ClaimsCommitted, NoTxnOK, CommitTypes DEF Done
<1>2. CASE /\ txn[p].at = "tick" /\ UNCHANGED <<day, book>>
           /\ txn' = [txn EXCEPT ![p].at = "launch", ![p].free = {}]
  <2> DEFINE x == [txn[p] EXCEPT !.at = "launch", !.free = {}]
  <2>1. TxnOK(x)
    BY <1>0, <1>2 DEF TxnOK, Txn, TxnAt, CreateAt
  <2>2. txn' = [txn EXCEPT ![p] = x]
    BY <1>0, <1>2
  <2> QED
    BY <1>2, <2>1, <2>2, ThreadTypes
<1> QED
  BY <1>1, <1>2 DEF TickEnd, LaunchEnd, book

LEMMA LaunchTypes ==
    ASSUME FleetTypeInv, NEW p \in Proc, NEW t \in Task,
           Launch(p, t) \/ LaunchRefused(p, t)
    PROVE  FleetTypeInv'
<1>0. txn \in [Proc -> Txn] /\ TxnOK(txn[p]) /\ BookOK
  BY BookTyped DEF FleetTypeInv
<1>1. CASE Launch(p, t)
  <2> DEFINE x == [txn[p] EXCEPT !.todo = @ \ {t}, !.claim = NoClaim]
  <2>1. TxnOK(x)
    BY <1>0, <1>1 DEF Launch, TxnOK, Txn, CreateAt, NoClaim
  <2>2. txn' = [txn EXCEPT ![p] = x]
    BY <1>0, <1>1 DEF Launch
  <2>3. RowsKept
    BY <1>1, ClaimsTyped DEF Launch, RowsKept
  <2>4. BinsKnown'
    BY <1>0, <1>1 DEF Launch, BookOK, BinsKnown, StatusWith, TxnOK, HasRow
  <2>5. BookOK'
    BY <1>0, <1>1, <2>4, ClaimsTyped DEF Launch, BookOK, TaskStatus
  <2> QED
    BY <2>1, <2>2, <2>3, <2>5, CommitTypes
<1>2. CASE LaunchRefused(p, t)
  <2> DEFINE x == [txn[p] EXCEPT !.todo = @ \ {t}]
  <2>1. TxnOK(x)
    BY <1>0, <1>2 DEF LaunchRefused, TxnOK, Txn, CreateAt
  <2>2. txn' = [txn EXCEPT ![p] = x]
    BY <1>0, <1>2 DEF LaunchRefused
  <2> QED
    BY <1>2, <2>1, <2>2, ThreadTypes DEF LaunchRefused
<1> QED
  BY <1>1, <1>2

LEMMA StartTypes ==
    ASSUME FleetTypeInv, NEW p \in Proc, NEW t \in Task,
           StartRead(p, t) \/ StartWrite(p) \/ StartRefused(p)
    PROVE  FleetTypeInv'
<1>0. txn \in [Proc -> Txn] /\ TxnOK(txn[p]) /\ BookOK
  BY BookTyped DEF FleetTypeInv
<1>1. CASE StartRead(p, t)
  <2> DEFINE x == [NoTxn EXCEPT !.at = "start", !.task = t, !.robot = owner[t]]
  <2>1. TxnOK(x)
    BY <1>0, <1>1, NoTxnTyped
       DEF StartRead, NoTxn, TxnOK, Txn, TxnAt, CreateAt, HasRow, BookOK, NoClaim
  <2> QED
    BY <1>1, <2>1, ThreadTypes DEF StartRead, Begin
<1>2. CASE StartWrite(p)
  <2>1. txn[p].task \in Task /\ txn[p].robot \in Robot /\ bin[txn[p].task] \in Bin
    BY <1>0, <1>2 DEF StartWrite, TxnOK, HasRow, BookOK, BinsKnown
  <2>2. BookOK' /\ RowsKept
    BY <1>0, <1>2, <2>1 DEF StartWrite, BookOK, BinsKnown, TaskStatus, RowsKept
  <2> QED
    BY <1>2, <2>2, NoTxnOK, CommitTypes DEF StartWrite, Done
<1>3. CASE StartRefused(p)
  BY <1>3, NoTxnOK, ThreadTypes DEF StartRefused, Done
<1> QED
  BY <1>1, <1>2, <1>3

LEMMA CancelTypes ==
    ASSUME FleetTypeInv, NEW p \in Proc, NEW t \in Task, CancelRead(p, t) \/ CancelWrite(p)
    PROVE  FleetTypeInv'
<1>0. txn \in [Proc -> Txn] /\ TxnOK(txn[p]) /\ BookOK
  BY BookTyped DEF FleetTypeInv
<1>1. CASE CancelRead(p, t)
  <2> DEFINE x == [NoTxn EXCEPT !.at = "cancel", !.task = t, !.robot = owner[t]]
  <2>1. TxnOK(x)
    BY <1>0, <1>1, NoTxnTyped
       DEF CancelRead, Cancelable, NoTxn, TxnOK, Txn, TxnAt, CreateAt, HasRow, BookOK, NoClaim
  <2> QED
    BY <1>1, <2>1, ThreadTypes DEF CancelRead, Begin
<1>2. CASE CancelWrite(p)
  <2>1. txn[p].task \in Task /\ bin[txn[p].task] \in Bin
    BY <1>0, <1>2 DEF CancelWrite, TxnOK, HasRow, BookOK, BinsKnown
  <2>2. BookOK' /\ RowsKept
    BY <1>0, <1>2, <2>1 DEF CancelWrite, BookOK, BinsKnown, TaskStatus, RowsKept
  <2> QED
    BY <1>2, <2>2, NoTxnOK, CommitTypes DEF CancelWrite, Done
<1> QED
  BY <1>1, <1>2

\* What is booked is there.
LEMMA BookTypes ==
    ASSUME FleetTypeInv, NEW t \in Task, Book(t)
    PROVE  stock' \in [Bin -> Nat] /\ staging' \in Nat
<1>1. Wish[t].qty \in Nat /\ bin[t] \in Bin /\ stock \in [Bin -> Nat] /\ staging \in Nat
  BY BookTyped, FleetAssumption DEF Book, BookOK, BinsKnown
<1>2. Wish[t].op # "in" => stock[bin[t]] - Wish[t].qty \in Nat
  BY <1>1 DEF Book, Bookable
<1> QED
  BY <1>1, <1>2 DEF Book, StockAfter, StagingAfter

\* The steps of an order that is carried out.
OrderStep(t) ==
    \/ Complete(t) \/ StartChained(t) \/ ChainRefused(t)
    \/ \E u \in Task : CompleteChained(t, u)
    \/ \E to \in {"FAILED", "CANCELLED"} : End(t, to)
    \/ Hold(t) \/ Resume(t)
    \/ \E r \in Robot : StartEvidence(t, r)
    \/ \E to \in {"COMPLETED", "CANCELLED"} : EndEvidence(t, to)

LEMMA OrderTypes ==
    ASSUME FleetTypeInv, NEW t \in Task, OrderStep(t)
    PROVE  FleetTypeInv'
<1>0. BookOK /\ \A v \in Task : bin[v] \in Bin \/ status[v] = "NEW"
  BY BookTyped DEF BookOK, BinsKnown
<1>1. ASSUME NEW u \in Task, Complete(t) \/ CompleteChained(t, u)
      PROVE  FleetTypeInv'
  <2>1. Book(t) /\ UNCHANGED txn
    BY <1>1 DEF Complete, CompleteChained
  <2>2. status[t] = "RUNNING" /\ (CompleteChained(t, u) => status[u] = "QUEUED")
    BY <2>1 DEF Book, CompleteChained, Chainable
  <2>3. BookOK' /\ RowsKept
    BY <1>0, <1>1, <2>1, <2>2, BookTypes
       DEF Complete, CompleteChained, BookOK, BinsKnown, TaskStatus, RowsKept
  <2> QED
    BY <2>1, <2>3, RowTypes
<1>2. CASE StartChained(t) \/ ChainRefused(t) \/ Hold(t) \/ Resume(t)
  <2>1. BookOK' /\ RowsKept /\ UNCHANGED txn
    BY <1>0, <1>2 DEF StartChained, ChainRefused, Hold, Resume, BookOK, BinsKnown,
       TaskStatus, RowsKept
  <2> QED
    BY <2>1, RowTypes
<1>3. ASSUME NEW r \in Robot, StartEvidence(t, r)
      PROVE  FleetTypeInv'
  <2>1. BookOK' /\ RowsKept /\ UNCHANGED txn
    BY <1>0, <1>3 DEF StartEvidence, BookOK, BinsKnown, TaskStatus, RowsKept
  <2> QED
    BY <2>1, RowTypes
<1>4. ASSUME NEW to \in {"FAILED", "CANCELLED", "COMPLETED"}, End(t, to) \/ EndEvidence(t, to)
      PROVE  FleetTypeInv'
  <2>1. status[t] # "NEW" /\ bin[t] \in Bin
    BY <1>0, <1>4 DEF BookOK, BinsKnown, End, EndEvidence
  <2>2. BookOK' /\ RowsKept /\ UNCHANGED txn
    BY <1>0, <1>4, <2>1 DEF End, EndEvidence, BookOK, BinsKnown, TaskStatus, RowsKept
  <2> QED
    BY <2>2, RowTypes
<1> QED
  BY <1>1, <1>2, <1>3, <1>4 DEF OrderStep

LEMMA TypesStep == FleetTypeInv /\ [FleetNext]_fleetVars => FleetTypeInv'
<1> SUFFICES ASSUME FleetTypeInv, [FleetNext]_fleetVars
             PROVE  FleetTypeInv'
  OBVIOUS
<1>1. CASE UNCHANGED fleetVars
  <2>1. BookOK' /\ RowsKept /\ UNCHANGED txn
    BY <1>1, BookTyped DEF fleetVars, BookOK, BinsKnown, RowsKept
  <2> QED
    BY <2>1, RowTypes
<1>2. ASSUME NEW p \in Proc, NEW t \in Task,
             CreateRead(p, t) \/ StartRead(p, t) \/ CancelRead(p, t)
      PROVE  FleetTypeInv'
  BY <1>2, CreateTypes, StartTypes, CancelTypes
<1>3. ASSUME NEW p \in Proc, CreateStep(p)
      PROVE  FleetTypeInv'
  <2>1. CASE CreateChoose(p) \/ CreateLock(p) \/ CreateAgain(p)
    <3>1. txn[p].task \in Task
      BY <2>1 DEF FleetTypeInv, TxnOK, CreateAt, CreateChoose, CreateLock, CreateAgain
    <3> QED
      BY <2>1, <3>1, CreateTypes
  <2> QED
    BY <1>3, <2>1, InsertTypes DEF CreateStep
<1>4. ASSUME NEW p \in Proc, NEW t \in Task, NEW r \in Robot, Assign(p, t, r)
      PROVE  FleetTypeInv'
  BY <1>4, AssignTypes, FleetAssumption
<1>5. ASSUME NEW p \in Proc, NEW t \in Task, NEW n \in Priority, SetPriority(p, t, n)
      PROVE  FleetTypeInv'
  <2>1. BookOK' /\ RowsKept /\ UNCHANGED txn
    BY <1>5, BookTyped DEF SetPriority, BookOK, BinsKnown, RowsKept
  <2> QED
    BY <2>1, RowTypes
<1>6. ASSUME NEW p \in Proc, TickRead(p) \/ TickClaim(p) \/ TickDeadlock(p) \/ TickEnd(p)
                               \/ LaunchStep(p) \/ LaunchEnd(p)
      PROVE  FleetTypeInv'
  BY <1>6, TickTypes, TickEndTypes, LaunchTypes DEF LaunchStep
<1>7. ASSUME NEW p \in Proc, StartWrite(p) \/ StartRefused(p) \/ CancelWrite(p)
      PROVE  FleetTypeInv'
  <2>1. txn[p].task \in Task
    BY <1>7 DEF FleetTypeInv, TxnOK, HasRow, StartWrite, StartRefused, CancelWrite
  <2> QED
    BY <1>7, <2>1, StartTypes, CancelTypes
<1>8. ASSUME NEW t \in Task, OrderStep(t)
      PROVE  FleetTypeInv'
  BY <1>8, OrderTypes
<1>9. ASSUME NEW r \in Robot, UpsertRobot(r)
      PROVE  FleetTypeInv'
  BY <1>9, BookTyped, RowTypes DEF UpsertRobot, BookOK, BinsKnown, RowsKept
<1> QED
  BY <1>1, <1>2, <1>3, <1>4, <1>5, <1>6, <1>7, <1>8, <1>9 DEF FleetNext, OrderStep

\* The rows of orders, robots and bins keep the values that the schema's checks
\* allow; in particular no booking takes more from a bin or from the inbound
\* location than is there (tasks.complete_task, inventory_ops).
THEOREM FleetTypeCorrect == FleetSpec => []FleetTypeOK
<1>1. FleetInit => FleetTypeInv
  BY TypesInit
<1>2. FleetTypeInv /\ [FleetNext]_fleetVars => FleetTypeInv'
  BY TypesStep
<1>3. FleetTypeInv => FleetTypeOK
  BY DEF FleetTypeInv
<1> QED
  BY <1>1, <1>2, <1>3, PTL DEF FleetSpec
-----------------------------------------------------------------------------
(* The rows of orders and robots agree.                                    *)

FleetSafe == RowsAgree /\ ClaimsHold /\ ReadsHold

\* A row that is free for p is not claimed and not being canceled by another.
LEMMA TaskRowFree ==
    ASSUME FleetTypeInv, Calm, NEW p \in Proc, NEW t \in Task, TaskFree(p, t)
    PROVE  \A q \in Proc \ {p} : /\ txn[q].claim[t] = NoRobot
                                 /\ txn[q].at = "cancel" => txn[q].task # t
  BY DEF TaskFree, TaskRows, Calm, Steady

LEMMA RobotRowFree ==
    ASSUME FleetTypeInv, Calm, NEW p \in Proc, NEW r \in Robot, RobotFree(p, r)
    PROVE  \A q \in Proc \ {p} : /\ \A t \in Task : txn[q].claim[t] # r
                                 /\ txn[q].at = "cancel" => txn[q].robot # r
  BY DEF RobotFree, RobotRows, Calm, Steady

LEMMA RowsUnlocked ==
    ASSUME FleetTypeInv, Calm, NEW t \in Task, NEW r \in Robot, Unlocked(t, r)
    PROVE  \A q \in Proc :
              /\ txn[q].claim[t] = NoRobot
              /\ \A u \in Task : txn[q].claim[u] # r
              /\ txn[q].at = "cancel" => txn[q].task # t /\ txn[q].robot # r
  BY DEF Unlocked, TaskRows, RobotRows, Calm, Steady

LEMMA SafeInit == FleetInit => FleetSafe
<1> SUFFICES ASSUME FleetInit
             PROVE  FleetSafe
  OBVIOUS
<1>1. \A p \in Proc : /\ txn[p].at = "idle" /\ txn[p].queue = {}
                      /\ \A t \in Task : txn[p].claim[t] = NoRobot
  BY DEF FleetInit, NoTxn, NoClaim
<1>2. RowsAgree
  BY DEF FleetInit, RowsAgree, Agree
<1> QED
  BY <1>1, <1>2 DEF FleetSafe, ClaimsHold, ClaimFresh, RobotClaimedOnce, TaskClaimedOnce, QueuedOnce, ReadsHold, ReadFresh, CancelsApart, CreatesApart, CreateAt

\* A thread that cancels or starts works on an order.
LEMMA WorkedOn ==
    ASSUME FleetTypeInv
    PROVE  \A p \in Proc :
              /\ txn[p].at \in {"cancel", "start"} \cup CreateAt => txn[p].task \in Task
              /\ txn[p].at \in {"cancel", "start"} => status[txn[p].task] # "NEW"
  BY DEF FleetTypeInv, TxnOK, HasRow

LEMMA SomeRobot == \A r \in Robot : r # NoRobot
  BY FleetAssumption DEF NoRobot

LEMMA ClaimRobots ==
    ASSUME FleetTypeInv
    PROVE  \A p \in Proc, t \in Task : txn[p].claim[t] \in Robot \cup {NoRobot}
  BY DEF FleetTypeInv, Txn

\* What NoTxn says of its thread.
LEMMA NoTxnSays ==
    /\ NoTxn.at = "idle" /\ NoTxn.queue = {} /\ NoTxn.free = {}
    /\ \A t \in Task : NoTxn.claim[t] = NoRobot
  BY DEF NoTxn, NoClaim

\* A thread that gives up leaves the others as they are.
LEMMA GivenUp ==
    ASSUME FleetTypeInv, FleetSafe, NEW p \in Proc, UNCHANGED <<day, book>>, Done(p)
    PROVE  FleetSafe'
<1>1. txn \in [Proc -> Txn] /\ txn' = [txn EXCEPT ![p] = NoTxn]
  BY DEF FleetTypeInv, Done
<1>2. RowsAgree'
  BY DEF FleetSafe, RowsAgree, Agree, book
<1>3. ClaimsHold'
  BY <1>1, NoTxnSays DEF FleetSafe, ClaimsHold, ClaimFresh, RobotClaimedOnce, TaskClaimedOnce, QueuedOnce, book
<1>4. ReadsHold'
  BY <1>1, NoTxnSays, WorkedOn DEF FleetSafe, ReadsHold, ReadFresh, CancelsApart, CreatesApart, CreateAt, book
<1> QED
  BY <1>2, <1>3, <1>4 DEF FleetSafe

LEMMA CreateSafe ==
    ASSUME FleetTypeInv, Calm, FleetSafe, NEW p \in Proc, NEW t \in Task,
           CreateRead(p, t) \/ CreateChoose(p) \/ CreateLock(p) \/ CreateAgain(p)
    PROVE  FleetSafe'
<1>0. txn \in [Proc -> Txn] /\ UNCHANGED <<day, book>>
  BY DEF FleetTypeInv, CreateRead, CreateChoose, CreateLock, CreateAgain
<1>1. CASE Done(p)
  BY <1>0, <1>1, GivenUp
<1>2. CASE CreateRead(p, t)
  <2>1. /\ txn' = [txn EXCEPT ![p] = [NoTxn EXCEPT !.at = "choose", !.task = t, !.seen = stock]]
        /\ status[t] = "NEW" /\ \A q \in Proc : txn[q].task # t
    BY <1>2 DEF CreateRead, Begin
  <2>2. /\ txn'[p].at = "choose" /\ txn'[p].task = t /\ txn'[p].queue = {}
        /\ \A u \in Task : txn'[p].claim[u] = NoRobot
        /\ \A q \in Proc \ {p} : txn'[q] = txn[q]
    BY <1>0, <2>1, NoTxnSays DEF NoTxn
  <2>3. RowsAgree' /\ ClaimsHold'
    BY <1>0, <2>2 DEF FleetSafe, RowsAgree, Agree, ClaimsHold, ClaimFresh, RobotClaimedOnce, TaskClaimedOnce, QueuedOnce, book
  <2>4. ReadsHold'
    BY <1>0, <2>1, <2>2, WorkedOn DEF FleetSafe, ReadsHold, ReadFresh, CancelsApart, CreatesApart, CreateAt, book
  <2> QED
    BY <2>3, <2>4 DEF FleetSafe
<1>3. CASE (CreateChoose(p) \/ CreateLock(p) \/ CreateAgain(p)) /\ ~Done(p)
  <2>1. /\ txn[p].at \in CreateAt /\ txn'[p].at \in CreateAt
        /\ txn'[p].task = txn[p].task /\ txn'[p].claim = txn[p].claim /\ txn'[p].queue = txn[p].queue
        /\ txn'[p].free = txn[p].free
        /\ \A q \in Proc \ {p} : txn'[q] = txn[q]
    BY <1>0, <1>3 DEF CreateChoose, CreateLock, CreateAgain, CreateAt, Txn
  <2>2. RowsAgree'
    BY <1>0 DEF FleetSafe, RowsAgree, Agree, book
  <2>3. ClaimsHold'
    BY <1>0, <2>1 DEF FleetSafe, ClaimsHold, ClaimFresh, RobotClaimedOnce, TaskClaimedOnce, QueuedOnce, book, CreateAt
  <2>4. ReadsHold'
    BY <1>0, <2>1 DEF FleetSafe, ReadsHold, ReadFresh, CancelsApart, CreatesApart, CreateAt, book
  <2> QED
    BY <2>2, <2>3, <2>4 DEF FleetSafe
<1> QED
  BY <1>1, <1>2, <1>3

LEMMA InsertSafe ==
    ASSUME FleetTypeInv, Calm, FleetSafe, NEW p \in Proc, NEW r \in Robot \cup {NoRobot},
           CreateInsert(p, r)
    PROVE  FleetSafe'
<1> DEFINE t == txn[p].task
<1>0. txn \in [Proc -> Txn] /\ txn' = [txn EXCEPT ![p] = NoTxn] /\ BookOK /\ t \in Task
  BY BookTyped DEF FleetTypeInv, CreateInsert, Done, TxnOK, CreateAt
<1>1. status[t] = "NEW" /\ owner[t] = NoRobot /\ txn[p].at \in CreateAt
  BY <1>0 DEF FleetSafe, ReadsHold, ReadFresh, CancelsApart, CreatesApart, RowsAgree, Agree, CreateInsert, CreateAt
<1>2. CASE UNCHANGED book
  BY <1>0, <1>2, GivenUp DEF CreateInsert, Done
<1>3. CASE r = NoRobot
  <2>1. status' = [status EXCEPT ![t] = "QUEUED"] /\ UNCHANGED <<owner, rstat, phase>>
    BY <1>3 DEF CreateInsert
  <2>2. RowsAgree'
    BY <1>0, <1>1, <2>1 DEF FleetSafe, RowsAgree, Agree, BookOK
  <2>3. ClaimsHold'
    BY <1>0, <1>1, <2>1, NoTxnSays DEF FleetSafe, ClaimsHold, ClaimFresh, RobotClaimedOnce, TaskClaimedOnce, QueuedOnce, BookOK
  <2>4. ReadsHold'
    BY <1>0, <1>1, <2>1, NoTxnSays, WorkedOn DEF FleetSafe, ReadsHold, ReadFresh, CancelsApart, CreatesApart, CreateAt, BookOK
  <2> QED
    BY <2>2, <2>3, <2>4 DEF FleetSafe
<1>4. CASE r # NoRobot /\ rstat[r] = "IDLE" /\ r \in CapableOf[t] /\ IndexAdmits(t, r)
  <2>1. /\ status' = [status EXCEPT ![t] = "ASSIGNED"] /\ owner' = [owner EXCEPT ![t] = r]
        /\ rstat' = [rstat EXCEPT ![r] = "ASSIGNED"] /\ UNCHANGED phase
    BY <1>4 DEF CreateInsert
  <2>2. r \in Robot /\ RobotFree(p, r)
    BY <1>4 DEF CreateInsert
  <2>3. \A u \in Task \ {t} : status[u] \in {"ASSIGNED", "RUNNING"} => owner[u] # r
    BY <1>4 DEF IndexAdmits, Live
  <2>4. RowsAgree'
    BY <1>0, <1>1, <2>1, <2>2, <2>3, <1>4 DEF FleetSafe, RowsAgree, Agree, BookOK
  <2>5. ClaimsHold'
    BY <1>0, <1>1, <2>1, <2>2, RobotRowFree, NoTxnSays DEF FleetSafe, ClaimsHold, ClaimFresh, RobotClaimedOnce, TaskClaimedOnce, QueuedOnce, BookOK
  <2>6. ReadsHold'
    BY <1>0, <1>1, <2>1, <2>2, NoTxnSays, WorkedOn
       DEF FleetSafe, ReadsHold, ReadFresh, CancelsApart, CreatesApart, CreateAt, BookOK
  <2> QED
    BY <2>4, <2>5, <2>6 DEF FleetSafe
<1> QED
  BY <1>2, <1>3, <1>4 DEF CreateInsert, book
LEMMA AssignSafe ==
    ASSUME FleetTypeInv, Calm, FleetSafe, NEW p \in Proc, NEW t \in Task, NEW r \in Robot,
           Assign(p, t, r)
    PROVE  FleetSafe'
<1>0. Unlocked(t, r)
  BY DEF Assign
<1>a. \A q \in Proc :
         /\ txn[q].claim[t] = NoRobot
         /\ \A u \in Task : txn[q].claim[u] # r
         /\ txn[q].at = "cancel" => txn[q].task # t /\ txn[q].robot # r
  BY <1>0, RowsUnlocked
<1>1. /\ BookOK /\ UNCHANGED <<txn, phase>> /\ status[t] = "QUEUED" /\ rstat[r] = "IDLE"
      /\ status' = [status EXCEPT ![t] = "ASSIGNED"] /\ owner' = [owner EXCEPT ![t] = r]
      /\ rstat' = [rstat EXCEPT ![r] = "ASSIGNED"]
  BY BookTyped DEF Assign, Claimable
<1>b. /\ UNCHANGED txn
      /\ \A v \in Task \ {t} : status'[v] = status[v] /\ owner'[v] = owner[v]
      /\ \A s \in Robot \ {r} : rstat'[s] = rstat[s]
      /\ status'[t] = "ASSIGNED" /\ owner'[t] = r
  BY <1>1 DEF BookOK
<1>2. RowsAgree'
  BY <1>1 DEF FleetSafe, RowsAgree, Agree, BookOK
<1>3. ClaimsHold'
  <2>1. ASSUME NEW q \in Proc, NEW u \in Task
        PROVE  ClaimFresh(q, u)'
    <3>1. ClaimFresh(q, u) /\ txn[q].claim[u] \in Robot \cup {NoRobot}
      BY ClaimRobots DEF FleetSafe, ClaimsHold
    <3>2. txn' = txn
      BY <1>b
    <3>0. txn[q].claim[t] = NoRobot /\ txn[q].claim[u] # r
      BY <1>a
    <3>3. txn[q].claim[u] # NoRobot => u # t /\ txn[q].claim[u] \in Robot \ {r}
      BY <3>0, <3>1
    <3>4. txn[q].claim[u] # NoRobot => status'[u] = status[u] /\ rstat'[txn[q].claim[u]] = rstat[txn[q].claim[u]]
      BY <1>b, <3>3
    <3> QED
      BY <3>1, <3>2, <3>4 DEF ClaimFresh
  <2> QED
    BY <1>1, <2>1 DEF FleetSafe, ClaimsHold, RobotClaimedOnce, TaskClaimedOnce, QueuedOnce
<1>4. ReadsHold'
  <2>1. ASSUME NEW q \in Proc
        PROVE  ReadFresh(q)'
    <3>1. ReadFresh(q)
      BY DEF FleetSafe, ReadsHold
    <3> QED
      BY <1>b, <1>1, <1>a, <3>1, WorkedOn DEF ReadFresh, CreateAt
  <2> QED
    BY <1>1, <2>1 DEF FleetSafe, ReadsHold, CancelsApart, CreatesApart
<1> QED
  BY <1>2, <1>3, <1>4 DEF FleetSafe

LEMMA PrioritySafe ==
    ASSUME FleetTypeInv, FleetSafe, NEW p \in Proc, NEW t \in Task, NEW n \in Priority,
           SetPriority(p, t, n)
    PROVE  FleetSafe'
  BY DEF SetPriority, FleetSafe, RowsAgree, Agree, ClaimsHold, ReadsHold, ReadFresh, CancelsApart, CreatesApart, ClaimFresh, RobotClaimedOnce, TaskClaimedOnce,
     QueuedOnce, ReadFresh, CancelsApart, CreatesApart

\* A tick that begins has claimed nothing, and its queue names a task once.
LEMMA TickReadSafe ==
    ASSUME FleetTypeInv, FleetSafe, NEW p \in Proc, TickRead(p)
    PROVE  FleetSafe'
<1> DEFINE queue == {<<t, prio[t]>> : t \in {t \in Task : status[t] = "QUEUED" /\ owner[t] = NoRobot}}
<1>0. txn \in [Proc -> Txn] /\ UNCHANGED <<day, book>>
  BY DEF FleetTypeInv, TickRead
<1>1. /\ txn'[p].at = "tick" /\ txn'[p].queue = queue
      /\ \A t \in Task : txn'[p].claim[t] = NoRobot
      /\ \A q \in Proc \ {p} : txn'[q] = txn[q]
  BY <1>0, NoTxnSays DEF TickRead, Begin, NoTxn
<1>2. \A e, f \in queue : e[1] = f[1] => e = f
  OBVIOUS
<1> HIDE DEF queue
<1>3. RowsAgree'
  BY <1>0 DEF FleetSafe, RowsAgree, Agree, book
<1>4. ClaimsHold'
  BY <1>0, <1>1, <1>2 DEF FleetSafe, ClaimsHold, ClaimFresh, RobotClaimedOnce, TaskClaimedOnce, QueuedOnce, book
<1>5. ReadsHold'
  BY <1>0, <1>1, WorkedOn DEF FleetSafe, ReadsHold, ReadFresh, CancelsApart, CreatesApart, CreateAt, book
<1> QED
  BY <1>3, <1>4, <1>5 DEF FleetSafe

\* A claim of the tick takes an idle robot for a queued order, both free.
LEMMA TickClaimSafe ==
    ASSUME FleetTypeInv, Calm, FleetSafe, NEW p \in Proc, TickClaim(p)
    PROVE  FleetSafe'
<1>0. /\ txn \in [Proc -> Txn] /\ UNCHANGED <<day, book>> /\ txn[p].at = "tick" /\ BookOK
      /\ txn[p] \in Txn
  BY BookTyped DEF FleetTypeInv, TickClaim
<1>1. RowsAgree'
  BY <1>0 DEF FleetSafe, RowsAgree, Agree, book
<1>2. PICK e \in txn[p].queue :
         \/ PassOver(p, e)
         \/ \E r \in Able(p, e) : TaskFree(p, e[1]) /\ RobotFree(p, r) /\ ClaimOrLose(p, e, r)
  BY DEF TickClaim
<1>3. e[1] \in Task
  BY <1>0 DEF Txn
<1>4. CASE /\ \A q \in Proc \ {p} : txn'[q] = txn[q]
           /\ txn'[p].queue \subseteq txn[p].queue /\ txn'[p].free \subseteq txn[p].free
           /\ txn'[p].claim = txn[p].claim /\ txn'[p].at = "tick"
  <2>1. ClaimsHold'
    BY <1>0, <1>4 DEF FleetSafe, ClaimsHold, ClaimFresh, RobotClaimedOnce, TaskClaimedOnce, QueuedOnce, book
  <2>2. ReadsHold'
    BY <1>0, <1>4, WorkedOn DEF FleetSafe, ReadsHold, ReadFresh, CancelsApart, CreatesApart, CreateAt, book
  <2> QED
    BY <1>1, <2>1, <2>2 DEF FleetSafe
<1>5. CASE PassOver(p, e)
  <2>1. /\ \A q \in Proc \ {p} : txn'[q] = txn[q]
        /\ txn'[p] = [txn[p] EXCEPT !.queue = @ \ {e}]
    BY <1>0, <1>5 DEF PassOver
  <2> QED
    BY <1>0, <1>4, <2>1 DEF Txn
<1>6. ASSUME NEW r \in Able(p, e), TaskFree(p, e[1]), RobotFree(p, r), ClaimOrLose(p, e, r)
      PROVE  FleetSafe'
  <2>1. r \in Robot /\ r \in txn[p].free
    BY <1>0 DEF Able, Txn
  <2>2. CASE ~Claimable(e[1], r)
    <3>1. /\ \A q \in Proc \ {p} : txn'[q] = txn[q]
          /\ txn'[p] = [txn[p] EXCEPT !.queue = @ \ {e}, !.free = @ \ {r}]
      BY <1>0, <1>6, <2>2 DEF ClaimOrLose
    <3> QED
      BY <1>0, <1>4, <3>1 DEF Txn
  <2>3. CASE Done(p)
    BY <1>0, <2>3, GivenUp
  <2>4. CASE /\ Claimable(e[1], r)
             /\ txn' = [txn EXCEPT ![p].queue = @ \ {e}, ![p].free = @ \ {r},
                                   ![p].claim[e[1]] = r, ![p].todo = @ \cup {e[1]}]
    <3>1. /\ \A q \in Proc \ {p} : txn'[q] = txn[q]
          /\ txn'[p] = [txn[p] EXCEPT !.queue = @ \ {e}, !.free = @ \ {r},
                                     !.claim[e[1]] = r, !.todo = @ \cup {e[1]}]
      BY <1>0, <2>4
    <3>2. /\ txn'[p].queue = txn[p].queue \ {e} /\ txn'[p].free = txn[p].free \ {r}
          /\ txn'[p].at = "tick" /\ txn'[p].claim = [txn[p].claim EXCEPT ![e[1]] = r]
          /\ txn[p].claim \in [Task -> Robot \cup {NoRobot}]
      BY <1>0, <3>1 DEF Txn
    <3>a. \A q \in Proc \ {p} : txn'[q] = txn[q]
      BY <3>1
    <3>3. status[e[1]] = "QUEUED" /\ rstat[r] = "IDLE" /\ UNCHANGED <<status, owner, rstat>>
      BY <1>0, <2>4 DEF Claimable, book
    <3>4. \A q \in Proc \ {p} : /\ txn[q].claim[e[1]] = NoRobot
                                /\ \A t \in Task : txn[q].claim[t] # r
                                /\ txn[q].at = "cancel" => txn[q].task # e[1]
      BY <1>3, <1>6, <2>1, TaskRowFree, RobotRowFree
    <3>5. \A t \in Task : txn[p].claim[t] # r
      <4>1. ASSUME NEW t \in Task, txn[p].claim[t] = r
            PROVE  FALSE
        <5>1. ClaimFresh(p, t)
          BY DEF FleetSafe, ClaimsHold
        <5> QED
          BY <2>1, <4>1, <5>1, SomeRobot DEF ClaimFresh
      <4> QED
        BY <4>1
    <3>6. ClaimsHold'
      <4>1. ASSUME NEW q \in Proc, NEW t \in Task
            PROVE  ClaimFresh(q, t)'
        <5>1. ClaimFresh(q, t)
          BY DEF FleetSafe, ClaimsHold
        <5>2. CASE q # p
          BY <3>a, <3>3, <5>1, <5>2 DEF ClaimFresh
        <5>3. CASE q = p /\ t # e[1]
          BY <3>2, <3>3, <5>1, <5>3 DEF ClaimFresh
        <5>4. CASE q = p /\ t = e[1]
          <6>1. \A f \in txn[p].queue : f[1] = e[1] => f = e
            BY DEF FleetSafe, ClaimsHold, QueuedOnce
          <6> QED
            BY <1>3, <3>2, <3>3, <5>4, <6>1 DEF ClaimFresh
        <5> QED
          BY <5>2, <5>3, <5>4
      <4>2. \A t \in Task : txn'[p].claim[t] = IF t = e[1] THEN r ELSE txn[p].claim[t]
        BY <3>2
      <4>3. RobotClaimedOnce'
        <5>1. RobotClaimedOnce
          BY DEF FleetSafe, ClaimsHold
        <5> QED
          BY <3>a, <3>4, <3>5, <4>2, <5>1 DEF RobotClaimedOnce
      <4>4. TaskClaimedOnce'
        <5>1. TaskClaimedOnce
          BY DEF FleetSafe, ClaimsHold
        <5> QED
          BY <3>a, <3>4, <4>2, <5>1 DEF TaskClaimedOnce
      <4>5. QueuedOnce'
        <5>1. QueuedOnce
          BY DEF FleetSafe, ClaimsHold
        <5> QED
          BY <3>a, <3>2, <5>1 DEF QueuedOnce
      <4> QED
        BY <4>1, <4>3, <4>4, <4>5 DEF ClaimsHold
    <3>7. ReadsHold'
      <4>1. ASSUME NEW q \in Proc
            PROVE  ReadFresh(q)'
        <5>1. ReadFresh(q)
          BY DEF FleetSafe, ReadsHold
        <5>2. CASE q = p
          BY <3>2, <5>2 DEF ReadFresh, CreateAt
        <5>3. CASE q # p
          <6>1. txn[q].at = "cancel" => txn'[p].claim[txn[q].task] = txn[p].claim[txn[q].task]
            BY <3>2, <3>4, <5>3, WorkedOn
          <6> QED
            BY <3>a, <3>3, <5>1, <5>3, <6>1 DEF ReadFresh
        <5> QED
          BY <5>2, <5>3
      <4>2. CancelsApart' /\ CreatesApart'
        <5>1. CancelsApart /\ CreatesApart
          BY DEF FleetSafe, ReadsHold
        <5> QED
          BY <3>a, <3>2, <5>1 DEF CancelsApart, CreatesApart, CreateAt
      <4> QED
        BY <4>1, <4>2 DEF ReadsHold
    <3> QED
      BY <1>1, <3>6, <3>7 DEF FleetSafe
  <2> QED
    BY <1>6, <2>2, <2>3, <2>4 DEF ClaimOrLose
<1> QED
  BY <1>2, <1>5, <1>6
\* The claims of p, as they are committed.
LEMMA ClaimsRead ==
    ASSUME FleetTypeInv, FleetSafe, NEW p \in Proc
    PROVE  /\ \A t \in Task : txn[p].claim[t] = NoRobot =>
                 StatusWith(p)[t] = status[t] /\ OwnerWith(p)[t] = owner[t]
           /\ \A t \in Task : txn[p].claim[t] # NoRobot =>
                 /\ txn[p].claim[t] \in Robot
                 /\ StatusWith(p)[t] = "ASSIGNED" /\ OwnerWith(p)[t] = txn[p].claim[t]
                 /\ RstatWith(p)[txn[p].claim[t]] = "ASSIGNED"
                 /\ status[t] = "QUEUED" /\ rstat[txn[p].claim[t]] = "IDLE"
           /\ \A r \in Robot : (\A t \in Task : txn[p].claim[t] # r) => RstatWith(p)[r] = rstat[r]
           /\ \A t, u \in Task : txn[p].claim[t] # NoRobot /\ txn[p].claim[t] = txn[p].claim[u] => t = u
<1>1. BookOK /\ \A t \in Task : txn[p].claim[t] \in Robot \cup {NoRobot}
  BY BookTyped, ClaimRobots
<1>2. \A t \in Task : ClaimFresh(p, t)
  BY DEF FleetSafe, ClaimsHold
<1>3. \A t, u \in Task : txn[p].claim[t] # NoRobot /\ txn[p].claim[t] = txn[p].claim[u] => t = u
  BY DEF FleetSafe, ClaimsHold, RobotClaimedOnce
<1>4. \A t \in Task : txn[p].claim[t] # NoRobot => RstatWith(p)[txn[p].claim[t]] = "ASSIGNED"
  BY <1>1 DEF RstatWith
<1>5. \A r \in Robot : (\A t \in Task : txn[p].claim[t] # r) => RstatWith(p)[r] = rstat[r]
  BY <1>1 DEF RstatWith
<1>6. \A t \in Task : txn[p].claim[t] # NoRobot => status[t] = "QUEUED" /\ rstat[txn[p].claim[t]] = "IDLE"
  BY <1>2 DEF ClaimFresh
<1> QED
  BY <1>1, <1>3, <1>4, <1>5, <1>6 DEF StatusWith, OwnerWith

\* Rows with the claims of a thread agree.
LEMMA ClaimsAgree ==
    ASSUME FleetTypeInv, FleetSafe, NEW p \in Proc
    PROVE  Agree(StatusWith(p), OwnerWith(p), RstatWith(p), phase)
<1> DEFINE st == StatusWith(p)  ow == OwnerWith(p)  rs == RstatWith(p)  cl == txn[p].claim
<1>0. /\ \A t \in Task : cl[t] = NoRobot => st[t] = status[t] /\ ow[t] = owner[t]
      /\ \A t \in Task : cl[t] # NoRobot =>
            /\ cl[t] \in Robot /\ st[t] = "ASSIGNED" /\ ow[t] = cl[t] /\ rs[cl[t]] = "ASSIGNED"
            /\ status[t] = "QUEUED" /\ rstat[cl[t]] = "IDLE"
      /\ \A r \in Robot : (\A t \in Task : cl[t] # r) => rs[r] = rstat[r]
      /\ \A t, u \in Task : cl[t] # NoRobot /\ cl[t] = cl[u] => t = u
  BY ClaimsRead
<1>1. Agree(status, owner, rstat, phase)
  BY DEF FleetSafe, RowsAgree
<1> HIDE DEF st, ow, rs, cl
<1>2. \A t, u \in Task : cl[t] # NoRobot /\ cl[u] = NoRobot
         /\ status[u] \in {"ASSIGNED", "RUNNING"} => cl[t] # owner[u]
  BY <1>0, <1>1 DEF Agree
<1>3. ASSUME NEW t \in Task
      PROVE  /\ st[t] \in {"ASSIGNED", "RUNNING"} => ow[t] \in Robot /\ rs[ow[t]] = st[t]
             /\ st[t] \in {"NEW", "QUEUED", "FAILED", "CANCELLED"} => ow[t] = NoRobot
             /\ phase[t] \in {"RUNNING", "HELD"} => st[t] = "RUNNING"
             /\ phase[t] # "EVIDENCE"
  <2>1. CASE cl[t] # NoRobot
    BY <1>0, <1>1, <2>1 DEF Agree
  <2>2. CASE cl[t] = NoRobot
    <3>1. status[t] \in {"ASSIGNED", "RUNNING"} =>
            owner[t] \in Robot /\ \A u \in Task : cl[u] # owner[t]
      BY <1>0, <1>1, <1>2, <2>2, SomeRobot DEF Agree
    <3> QED
      BY <1>0, <1>1, <2>2, <3>1 DEF Agree
  <2> QED
    BY <2>1, <2>2
<1>4. ASSUME NEW t \in Task, NEW u \in Task, st[t] \in {"ASSIGNED", "RUNNING"},
             st[u] \in {"ASSIGNED", "RUNNING"}, ow[t] = ow[u]
      PROVE  t = u
  BY <1>0, <1>1, <1>2, <1>4 DEF Agree
<1>5. ASSUME NEW r \in Robot, rs[r] # "IDLE"
      PROVE  \E t \in Task : ow[t] = r /\ st[t] \in {"ASSIGNED", "RUNNING"}
  <2>1. CASE \E t \in Task : cl[t] = r
    BY <1>0, <2>1, SomeRobot
  <2>2. CASE \A t \in Task : cl[t] # r
    <3>1. PICK t \in Task : owner[t] = r /\ status[t] \in {"ASSIGNED", "RUNNING"}
      BY <1>0, <1>1, <1>5, <2>2 DEF Agree
    <3>2. cl[t] = NoRobot
      BY <1>0, <3>1
    <3> QED
      BY <1>0, <3>1, <3>2
  <2> QED
    BY <2>1, <2>2
<1>6. Agree(st, ow, rs, phase)
  BY <1>3, <1>4, <1>5 DEF Agree
<1> QED
  BY <1>6 DEF st, ow, rs

\* Orders T and robots R are written.  Transaction q does not rely on them, or
\* it is over.
Away(q, T, R) ==
    /\ \A u \in T : txn[q].claim[u] = NoRobot
    /\ \A u \in Task : txn[q].claim[u] \notin R
    /\ txn[q].at = "cancel" => txn[q].task \notin T
Quiet(q) ==
    /\ txn'[q].at \notin CreateAt \cup {"cancel", "start"}
    /\ \A u \in Task : txn'[q].claim[u] = NoRobot
    /\ txn'[q].queue \subseteq txn[q].queue

OnlyWritten(T, R) ==
    /\ \A q \in Proc : Quiet(q) \/ (txn'[q] = txn[q] /\ Away(q, T, R))
    /\ \A u \in Task \ T : status'[u] = status[u] /\ owner'[u] = owner[u]
    /\ \A s \in Robot \ R : rstat'[s] = rstat[s]
    /\ \A u \in T : /\ status[u] # "NEW" /\ status'[u] # "QUEUED"
                    /\ status[u] = "QUEUED" \/ owner'[u] \in {owner[u], NoRobot}

\* Then what the transactions rely on is as it was.
LEMMA Written ==
    ASSUME FleetTypeInv, FleetSafe, NEW T \in SUBSET Task, NEW R \in SUBSET Robot,
           OnlyWritten(T, R)
    PROVE  ClaimsHold' /\ ReadsHold'
<1>0. /\ \A q \in Proc : Quiet(q) \/ (txn'[q] = txn[q] /\ Away(q, T, R))
      /\ \A u \in Task \ T : status'[u] = status[u] /\ owner'[u] = owner[u]
      /\ \A s \in Robot \ R : rstat'[s] = rstat[s]
      /\ \A u \in T : /\ status[u] # "NEW" /\ status'[u] # "QUEUED"
                      /\ status[u] = "QUEUED" \/ owner'[u] \in {owner[u], NoRobot}
  BY DEF OnlyWritten
<1>1. ASSUME NEW q \in Proc, NEW u \in Task
      PROVE  ClaimFresh(q, u)'
  <2>1. ClaimFresh(q, u) /\ txn[q].claim[u] \in Robot \cup {NoRobot}
    BY ClaimRobots DEF FleetSafe, ClaimsHold
  <2>2. CASE Quiet(q)
    BY <2>2 DEF Quiet, ClaimFresh
  <2>3. CASE txn'[q] = txn[q] /\ Away(q, T, R) /\ txn[q].claim[u] # NoRobot
    <3>1. u \notin T /\ txn[q].claim[u] \in Robot \ R
      BY <2>1, <2>3 DEF Away
    <3>2. status'[u] = status[u] /\ rstat'[txn[q].claim[u]] = rstat[txn[q].claim[u]]
      BY <1>0, <3>1
    <3> QED
      BY <2>1, <2>3, <3>2 DEF ClaimFresh
  <2>4. CASE txn'[q] = txn[q] /\ txn[q].claim[u] = NoRobot
    BY <2>4 DEF ClaimFresh
  <2> QED
    BY <1>0, <2>2, <2>3, <2>4
<1>2. \A q \in Proc, u \in Task : txn'[q].claim[u] # NoRobot => txn'[q].claim[u] = txn[q].claim[u]
  BY <1>0 DEF Quiet
<1>3. RobotClaimedOnce' /\ TaskClaimedOnce'
  <2>1. RobotClaimedOnce /\ TaskClaimedOnce
    BY DEF FleetSafe, ClaimsHold
  <2> QED
    BY <1>2, <2>1 DEF RobotClaimedOnce, TaskClaimedOnce
<1>4. QueuedOnce'
  <2>1. QueuedOnce /\ \A q \in Proc : txn'[q].queue \subseteq txn[q].queue
    BY <1>0 DEF FleetSafe, ClaimsHold, Quiet
  <2> QED
    BY <2>1 DEF QueuedOnce
<1>5. ASSUME NEW q \in Proc
      PROVE  ReadFresh(q)'
  <2>1. ReadFresh(q)
    BY DEF FleetSafe, ReadsHold
  <2>2. CASE Quiet(q)
    BY <2>2 DEF Quiet, ReadFresh
  <2>3. CASE txn'[q] = txn[q] /\ Away(q, T, R)
    <3>1. txn[q].at \in {"cancel", "start"} \cup CreateAt => txn[q].task \in Task
      BY WorkedOn
    <3>2. txn[q].at = "cancel" => \A s \in Proc : txn'[s].claim[txn[q].task] = NoRobot
      BY <1>2, <2>1, <3>1 DEF ReadFresh
    <3>3. CASE txn[q].task \in T
      <4>1. PICK u \in T : u = txn[q].task
        BY <3>3
      <4>2. /\ status[u] # "NEW" /\ status'[u] # "QUEUED"
            /\ status[u] = "QUEUED" \/ owner'[u] \in {owner[u], NoRobot}
        BY <1>0
      <4>3. txn[q].at \notin CreateAt /\ txn[q].at # "cancel"
        BY <2>1, <2>3, <4>1, <4>2 DEF ReadFresh, Away
      <4> QED
        BY <2>1, <2>3, <4>1, <4>2, <4>3 DEF ReadFresh
    <3>4. CASE txn[q].task \in Task \ T
      <4>1. status'[txn[q].task] = status[txn[q].task] /\ owner'[txn[q].task] = owner[txn[q].task]
        BY <1>0, <3>4
      <4> QED
        BY <2>1, <2>3, <3>2, <4>1 DEF ReadFresh
    <3>5. CASE txn[q].at \notin {"cancel", "start"} \cup CreateAt
      BY <2>3, <3>5 DEF ReadFresh
    <3> QED
      BY <3>1, <3>3, <3>4, <3>5
  <2> QED
    BY <1>0, <2>2, <2>3
<1>6. CancelsApart' /\ CreatesApart'
  <2>1. CancelsApart /\ CreatesApart
    BY DEF FleetSafe, ReadsHold
  <2>2. \A q \in Proc : txn'[q].at \in {"cancel"} \cup CreateAt => txn'[q] = txn[q]
    BY <1>0 DEF Quiet
  <2> QED
    BY <2>1, <2>2 DEF CancelsApart, CreatesApart
<1> QED
  BY <1>1, <1>3, <1>4, <1>5, <1>6 DEF ClaimsHold, ReadsHold

\* A thread that goes on with what it has claimed.
LEMMA ClaimsKept ==
    ASSUME FleetTypeInv, FleetSafe, NEW p \in Proc, UNCHANGED <<day, book>>,
           \A q \in Proc \ {p} : txn'[q] = txn[q],
           txn'[p].at = "launch", txn'[p].claim = txn[p].claim,
           txn'[p].queue \subseteq txn[p].queue, txn'[p].free \subseteq txn[p].free
    PROVE  FleetSafe'
<1>1. RowsAgree'
  BY DEF FleetSafe, RowsAgree, Agree, book
<1>2. ClaimsHold'
  BY DEF FleetSafe, ClaimsHold, ClaimFresh, RobotClaimedOnce, TaskClaimedOnce, QueuedOnce, book
<1>3. ReadsHold'
  BY WorkedOn DEF FleetSafe, ReadsHold, ReadFresh, CancelsApart, CreatesApart, CreateAt, book
<1> QED
  BY <1>1, <1>2, <1>3 DEF FleetSafe

\* What p has claimed nobody else relies on.
LEMMA ClaimedAlone ==
    ASSUME FleetTypeInv, FleetSafe, NEW p \in Proc, NEW q \in Proc \ {p}
    PROVE  Away(q, {t \in Task : txn[p].claim[t] # NoRobot},
                   {r \in Robot : \E t \in Task : txn[p].claim[t] = r})
<1>1. RobotClaimedOnce /\ TaskClaimedOnce /\ ReadFresh(q)
  BY DEF FleetSafe, ClaimsHold, ReadsHold
<1>2. \A u \in Task : txn[p].claim[u] # NoRobot => txn[q].claim[u] = NoRobot
  BY <1>1 DEF TaskClaimedOnce
<1>3. \A u, t \in Task : txn[p].claim[t] \in Robot => txn[q].claim[u] # txn[p].claim[t]
  BY <1>1, SomeRobot DEF RobotClaimedOnce
<1>4. txn[q].at = "cancel" => txn[p].claim[txn[q].task] = NoRobot
  BY <1>1 DEF ReadFresh
<1> QED
  BY <1>2, <1>3, <1>4 DEF Away

\* A thread commits what it has claimed.
LEMMA CommitSafe ==
    ASSUME FleetTypeInv, FleetSafe, NEW p \in Proc, Done(p), UNCHANGED phase,
           status' = StatusWith(p), owner' = OwnerWith(p), rstat' = RstatWith(p)
    PROVE  FleetSafe'
<1>0. PICK T \in SUBSET Task, R \in SUBSET Robot :
         /\ T = {t \in Task : txn[p].claim[t] # NoRobot}
         /\ R = {r \in Robot : \E t \in Task : txn[p].claim[t] = r}
  OBVIOUS
<1>1. RowsAgree'
  BY ClaimsAgree DEF RowsAgree, Agree
<1>2. \A q \in Proc : Quiet(q) \/ (txn'[q] = txn[q] /\ Away(q, T, R))
  <2>1. txn \in [Proc -> Txn] /\ txn' = [txn EXCEPT ![p] = NoTxn]
    BY DEF FleetTypeInv, Done
  <2>2. Quiet(p)
    BY <2>1, NoTxnSays DEF Quiet, CreateAt
  <2>3. \A q \in Proc \ {p} : txn'[q] = txn[q] /\ Away(q, T, R)
    BY <1>0, <2>1, ClaimedAlone
  <2> QED
    BY <2>2, <2>3
<1>3. \A u \in Task \ T : status'[u] = status[u] /\ owner'[u] = owner[u]
  BY <1>0, ClaimsRead
<1>4. \A s \in Robot \ R : rstat'[s] = rstat[s]
  BY <1>0, ClaimsRead
<1>5. \A u \in T : /\ status[u] # "NEW" /\ status'[u] # "QUEUED"
                   /\ status[u] = "QUEUED" \/ owner'[u] \in {owner[u], NoRobot}
  BY <1>0, ClaimsRead
<1>6. ClaimsHold' /\ ReadsHold'
  <2>1. OnlyWritten(T, R)
    BY <1>2, <1>3, <1>4, <1>5 DEF OnlyWritten
  <2> QED
    BY <2>1, Written
<1> QED
  BY <1>1, <1>6 DEF FleetSafe

LEMMA TickEndSafe ==
    ASSUME FleetTypeInv, FleetSafe, NEW p \in Proc, TickEnd(p)
    PROVE  FleetSafe'
<1>1. CASE Done(p) /\ status' = StatusWith(p) /\ owner' = OwnerWith(p) /\ rstat' = RstatWith(p)
  BY <1>1, CommitSafe DEF TickEnd
<1>2. CASE txn' = [txn EXCEPT ![p].at = "launch", ![p].free = {}] /\ UNCHANGED <<status, owner, rstat>>
  <2>1. txn \in [Proc -> Txn] /\ txn[p] \in Txn /\ UNCHANGED <<day, book>>
    BY <1>2 DEF FleetTypeInv, TickEnd, book
  <2>2. /\ \A q \in Proc \ {p} : txn'[q] = txn[q]
        /\ txn'[p] = [txn[p] EXCEPT !.at = "launch", !.free = {}]
    BY <1>2, <2>1
  <2>3. /\ txn'[p].at = "launch" /\ txn'[p].claim = txn[p].claim
        /\ txn'[p].queue = txn[p].queue /\ txn'[p].free = {}
    BY <2>1, <2>2 DEF Txn
  <2> QED
    BY <2>1, <2>2, <2>3, ClaimsKept
<1> QED
  BY <1>1, <1>2 DEF TickEnd, Done

\* An order that has a robot of its own begins to run.
LEMMA RunAgrees ==
    ASSUME NEW st \in [Task -> TaskStatus], NEW ow \in [Task -> Robot \cup {NoRobot}],
           NEW rs \in [Robot -> {"IDLE", "ASSIGNED", "RUNNING"}],
           NEW ph \in [Task -> {"NONE", "CHAINED", "RUNNING", "HELD", "EVIDENCE", "DONE"}],
           Agree(st, ow, rs, ph), NEW t \in Task, ow[t] \in Robot,
           \A u \in Task \ {t} : st[u] \in {"ASSIGNED", "RUNNING"} => ow[u] # ow[t]
    PROVE  Agree([st EXCEPT ![t] = "RUNNING"], ow, [rs EXCEPT ![ow[t]] = "RUNNING"],
                 [ph EXCEPT ![t] = "RUNNING"])
  BY DEF Agree

\* An order that has a robot ends and leaves it.
LEMMA EndAgrees ==
    ASSUME NEW st \in [Task -> TaskStatus], NEW ow \in [Task -> Robot \cup {NoRobot}],
           NEW rs \in [Robot -> {"IDLE", "ASSIGNED", "RUNNING"}],
           NEW ph \in [Task -> {"NONE", "CHAINED", "RUNNING", "HELD", "EVIDENCE", "DONE"}],
           Agree(st, ow, rs, ph), NEW t \in Task, st[t] \in {"ASSIGNED", "RUNNING"},
           NEW to \in {"COMPLETED", "FAILED", "CANCELLED"}, NEW r \in {ow[t], NoRobot},
           to \in {"FAILED", "CANCELLED"} => r = NoRobot,
           NEW at \in {"DONE", "NONE", "CHAINED"}
    PROVE  Agree([st EXCEPT ![t] = to], [ow EXCEPT ![t] = r], [rs EXCEPT ![ow[t]] = "IDLE"],
                 [ph EXCEPT ![t] = at])
<1>1. ow[t] \in Robot /\ \A u \in Task \ {t} : st[u] \in {"ASSIGNED", "RUNNING"} => ow[u] # ow[t]
  BY DEF Agree
<1> QED
  BY <1>1 DEF Agree

LEMMA StartSafe ==
    ASSUME FleetTypeInv, Calm, FleetSafe, NEW p \in Proc, NEW t \in Task,
           StartRead(p, t) \/ StartWrite(p) \/ StartRefused(p)
    PROVE  FleetSafe'
<1>0. /\ txn \in [Proc -> Txn] /\ BookOK /\ RowsAgree /\ ReadFresh(p)
      /\ \A u \in Task : ClaimFresh(p, u)
  BY BookTyped DEF FleetTypeInv, FleetSafe, ReadsHold, ClaimsHold
<1>1. CASE Done(p) /\ UNCHANGED <<day, book>>
  BY <1>1, GivenUp
<1>2. CASE StartRead(p, t)
  <2>1. /\ txn' = [txn EXCEPT ![p] = [NoTxn EXCEPT !.at = "start", !.task = t, !.robot = owner[t]]]
        /\ status[t] = "ASSIGNED" /\ UNCHANGED <<day, book>>
    BY <1>2 DEF StartRead, Begin
  <2>2. /\ txn'[p].at = "start" /\ txn'[p].task = t /\ txn'[p].robot = owner[t] /\ txn'[p].queue = {}
        /\ \A u \in Task : txn'[p].claim[u] = NoRobot
        /\ \A q \in Proc \ {p} : txn'[q] = txn[q]
    BY <1>0, <2>1, NoTxnSays DEF NoTxn
  <2>3. RowsAgree' /\ ClaimsHold'
    BY <2>1, <2>2 DEF FleetSafe, RowsAgree, Agree, ClaimsHold, ClaimFresh, RobotClaimedOnce, TaskClaimedOnce, QueuedOnce, book
  <2>4. ReadsHold'
    BY <2>1, <2>2, WorkedOn DEF FleetSafe, ReadsHold, ReadFresh, CancelsApart, CreatesApart, CreateAt, book
  <2> QED
    BY <2>3, <2>4 DEF FleetSafe
<1>3. CASE StartWrite(p) /\ ~UNCHANGED <<status, rstat, phase>>
  <2>1. PICK u \in Task, r \in Robot : u = txn[p].task /\ r = owner[u] /\ r = txn[p].robot
    BY <1>0, <1>3, WorkedOn DEF StartWrite, ReadFresh, BookOK
  <2>2. /\ status' = [status EXCEPT ![u] = "RUNNING"] /\ rstat' = [rstat EXCEPT ![r] = "RUNNING"]
        /\ phase' = [phase EXCEPT ![u] = "RUNNING"] /\ owner' = owner
        /\ txn' = [txn EXCEPT ![p] = NoTxn]
        /\ IndexAdmits(u, r) /\ TaskFree(p, u) /\ RobotFree(p, r)
    BY <1>3, <2>1 DEF StartWrite, Done
  <2>3. Agree(status', owner', rstat', phase')
    <3>1. \A v \in Task \ {u} : status[v] \in {"ASSIGNED", "RUNNING"} => owner[v] # owner[u]
      BY <2>1, <2>2 DEF IndexAdmits, Live
    <3>2. Agree(status, owner, rstat, phase)
      BY <1>0 DEF RowsAgree
    <3> QED
      BY <1>0, <2>1, <2>2, <3>1, <3>2, RunAgrees DEF BookOK
  <2>4. \A q \in Proc : Quiet(q) \/ (txn'[q] = txn[q] /\ Away(q, {u}, {r}))
    <3>1. Quiet(p)
      BY <1>0, <2>2, NoTxnSays DEF Quiet, CreateAt
    <3>2. \A q \in Proc \ {p} : txn'[q] = txn[q] /\ Away(q, {u}, {r})
      BY <1>0, <2>2, TaskRowFree, RobotRowFree DEF Away
    <3> QED
      BY <3>1, <3>2
  <2>5. status[u] # "NEW" /\ status'[u] = "RUNNING"
    BY <1>0, <1>3, <2>1, <2>2, WorkedOn DEF StartWrite, BookOK
  <2>6. ClaimsHold' /\ ReadsHold'
    <3>1. \A v \in Task \ {u} : status'[v] = status[v] /\ owner'[v] = owner[v]
      BY <1>0, <2>2 DEF BookOK
    <3>2. \A s \in Robot \ {r} : rstat'[s] = rstat[s]
      BY <1>0, <2>2 DEF BookOK
    <3>3. \A v \in {u} : /\ status[v] # "NEW" /\ status'[v] # "QUEUED"
                         /\ status[v] = "QUEUED" \/ owner'[v] \in {owner[v], NoRobot}
      BY <2>2, <2>5
    <3> QED
      BY <2>4, <3>1, <3>2, <3>3, Written DEF OnlyWritten
  <2> QED
    BY <2>3, <2>6 DEF FleetSafe, RowsAgree
<1> QED
  BY <1>1, <1>2, <1>3 DEF StartWrite, StartRefused, book

\* The first start of the poller commits the claims and its own order.
LEMMA LaunchSafe ==
    ASSUME FleetTypeInv, Calm, FleetSafe, NEW p \in Proc, NEW t \in Task, Launch(p, t)
    PROVE  FleetSafe'
<1>0. /\ txn \in [Proc -> Txn] /\ txn[p] \in Txn /\ BookOK /\ RowsAgree /\ TaskFree(p, t)
      /\ Agree(StatusWith(p), OwnerWith(p), RstatWith(p), phase)
      /\ StatusWith(p) \in [Task -> TaskStatus] /\ OwnerWith(p) \in [Task -> Robot \cup {NoRobot}]
      /\ RstatWith(p) \in [Robot -> {"IDLE", "ASSIGNED", "RUNNING"}]
  BY BookTyped, ClaimsAgree, ClaimsTyped DEF FleetTypeInv, FleetSafe, Launch
<1>1. /\ StatusWith(p)[t] = "ASSIGNED" /\ RobotFree(p, OwnerWith(p)[t])
      /\ status' = [StatusWith(p) EXCEPT ![t] = "RUNNING"] /\ owner' = OwnerWith(p)
      /\ rstat' = [RstatWith(p) EXCEPT ![OwnerWith(p)[t]] = "RUNNING"]
      /\ phase' = [phase EXCEPT ![t] = "RUNNING"]
      /\ txn' = [txn EXCEPT ![p].todo = @ \ {t}, ![p].claim = NoClaim]
  BY DEF Launch
<1>2. PICK r \in Robot : r = OwnerWith(p)[t]
  BY <1>0, <1>1 DEF Agree
<1>3. \A u \in Task \ {t} : StatusWith(p)[u] \in {"ASSIGNED", "RUNNING"} => OwnerWith(p)[u] # r
  BY <1>0, <1>1, <1>2 DEF Agree
<1>4. Agree(status', owner', rstat', phase')
  BY <1>0, <1>1, <1>2, <1>3, RunAgrees DEF BookOK
<1>5. PICK T \in SUBSET Task, R \in SUBSET Robot :
         /\ T = {u \in Task : txn[p].claim[u] # NoRobot}
         /\ R = {s \in Robot : \E u \in Task : txn[p].claim[u] = s}
  OBVIOUS
<1>6. \A q \in Proc : Quiet(q) \/ (txn'[q] = txn[q] /\ Away(q, T \cup {t}, R \cup {r}))
  <2>1. txn'[p].claim = NoClaim /\ txn'[p].queue = txn[p].queue /\ txn'[p].at = "launch"
    BY <1>0, <1>1 DEF Launch, Txn
  <2>2. Quiet(p)
    BY <2>1 DEF Quiet, CreateAt, NoClaim
  <2>3. ASSUME NEW q \in Proc \ {p}
        PROVE  txn'[q] = txn[q] /\ Away(q, T \cup {t}, R \cup {r})
    <3>1. Away(q, T, R)
      BY <1>5, ClaimedAlone
    <3>2. /\ txn[q].claim[t] = NoRobot /\ \A u \in Task : txn[q].claim[u] # r
          /\ txn[q].at = "cancel" => txn[q].task # t
      BY <1>0, <1>1, <1>2, TaskRowFree, RobotRowFree
    <3>3. txn'[q] = txn[q]
      BY <1>0, <1>1
    <3> QED
      BY <3>1, <3>2, <3>3 DEF Away
  <2> QED
    BY <2>2, <2>3
<1>7. \A u \in Task \ (T \cup {t}) : status'[u] = status[u] /\ owner'[u] = owner[u]
  BY <1>0, <1>1, <1>5, ClaimsRead
<1>8. \A s \in Robot \ (R \cup {r}) : rstat'[s] = rstat[s]
  <2>1. \A s \in Robot \ {r} : rstat'[s] = RstatWith(p)[s]
    BY <1>0, <1>1, <1>2
  <2>2. \A s \in Robot \ R : RstatWith(p)[s] = rstat[s]
    BY <1>5, ClaimsRead
  <2> QED
    BY <2>1, <2>2
<1>9. \A u \in T \cup {t} : /\ status[u] # "NEW" /\ status'[u] # "QUEUED"
                            /\ status[u] = "QUEUED" \/ owner'[u] \in {owner[u], NoRobot}
  <2>1. ASSUME NEW u \in Task, txn[p].claim[u] # NoRobot
        PROVE  status[u] = "QUEUED" /\ status'[u] \in {"ASSIGNED", "RUNNING"}
    BY <1>0, <1>1, <2>1, ClaimsRead
  <2>2. CASE txn[p].claim[t] = NoRobot
    <3>1. status[t] = "ASSIGNED" /\ status'[t] = "RUNNING" /\ owner'[t] = owner[t]
      BY <1>0, <1>1, <2>2, ClaimsRead
    <3> QED
      BY <1>5, <2>1, <3>1
  <2>3. CASE txn[p].claim[t] # NoRobot
    BY <1>5, <2>1, <2>3
  <2> QED
    BY <2>2, <2>3
<1>10. ClaimsHold' /\ ReadsHold'
  <2>1. OnlyWritten(T \cup {t}, R \cup {r})
    BY <1>6, <1>7, <1>8, <1>9 DEF OnlyWritten
  <2> QED
    BY <2>1, Written
<1> QED
  BY <1>4, <1>10 DEF FleetSafe, RowsAgree

LEMMA LaunchOthers ==
    ASSUME FleetTypeInv, FleetSafe, NEW p \in Proc, NEW t \in Task,
           LaunchRefused(p, t) \/ LaunchEnd(p)
    PROVE  FleetSafe'
<1>1. CASE LaunchEnd(p)
  BY <1>1, CommitSafe DEF LaunchEnd
<1>2. CASE LaunchRefused(p, t)
  <2>1. txn \in [Proc -> Txn] /\ txn[p] \in Txn /\ txn[p].at = "launch" /\ UNCHANGED <<day, book>>
    BY <1>2 DEF FleetTypeInv, LaunchRefused
  <2>2. /\ \A q \in Proc \ {p} : txn'[q] = txn[q]
        /\ txn'[p] = [txn[p] EXCEPT !.todo = @ \ {t}]
    BY <1>2, <2>1 DEF LaunchRefused
  <2>3. /\ txn'[p].at = "launch" /\ txn'[p].claim = txn[p].claim
        /\ txn'[p].queue = txn[p].queue /\ txn'[p].free = txn[p].free
    BY <2>1, <2>2 DEF Txn
  <2> QED
    BY <2>1, <2>2, <2>3, ClaimsKept
<1> QED
  BY <1>1, <1>2

LEMMA CancelSafe ==
    ASSUME FleetTypeInv, Calm, FleetSafe, NEW p \in Proc, NEW t \in Task,
           CancelRead(p, t) \/ CancelWrite(p)
    PROVE  FleetSafe'
<1>0. /\ txn \in [Proc -> Txn] /\ BookOK /\ RowsAgree /\ ReadFresh(p)
      /\ Agree(status, owner, rstat, phase)
  BY BookTyped DEF FleetTypeInv, FleetSafe, ReadsHold, RowsAgree
<1>1. CASE CancelRead(p, t)
  <2>1. /\ txn' = [txn EXCEPT ![p] = [NoTxn EXCEPT !.at = "cancel", !.task = t, !.robot = owner[t]]]
        /\ status[t] \in {"QUEUED", "ASSIGNED", "FAILED"} /\ UNCHANGED <<day, book>>
        /\ txn[p].at = "idle"
    BY <1>1 DEF CancelRead, Cancelable, Begin, Asked
  <2>2. /\ txn'[p].at = "cancel" /\ txn'[p].task = t /\ txn'[p].robot = owner[t] /\ txn'[p].queue = {}
        /\ \A u \in Task : txn'[p].claim[u] = NoRobot
        /\ \A q \in Proc \ {p} : txn'[q] = txn[q]
    BY <1>0, <2>1, NoTxnSays DEF NoTxn
  <2>3. TaskFree(p, t)
    BY <1>1 DEF CancelRead, Calm, Steady
  <2>4. \A q \in Proc \ {p} : txn[q].claim[t] = NoRobot /\ (txn[q].at = "cancel" => txn[q].task # t)
    BY <2>3, TaskRowFree
  <2>5. RowsAgree' /\ ClaimsHold'
    BY <2>1, <2>2 DEF FleetSafe, RowsAgree, Agree, ClaimsHold, ClaimFresh, RobotClaimedOnce, TaskClaimedOnce, QueuedOnce, book
  <2>6. ASSUME NEW q \in Proc
        PROVE  ReadFresh(q)'
    <3>1. ReadFresh(q)
      BY DEF FleetSafe, ReadsHold
    <3>2. CASE q = p
      <4>1. \A s \in Proc : txn'[s].claim[t] = NoRobot
        BY <2>2, <2>4
      <4> QED
        BY <2>1, <2>2, <3>2, <4>1 DEF ReadFresh, CreateAt, book
    <3>3. CASE q # p
      <4>1. txn[q].at = "cancel" => \A s \in Proc : txn'[s].claim[txn[q].task] = NoRobot
        BY <2>2, <3>1, WorkedOn DEF ReadFresh
      <4> QED
        BY <2>1, <2>2, <3>1, <3>3, <4>1 DEF ReadFresh, book
    <3> QED
      BY <3>2, <3>3
  <2>7. CancelsApart' /\ CreatesApart'
    BY <2>2, <2>4 DEF FleetSafe, ReadsHold, CancelsApart, CreatesApart, CreateAt
  <2> QED
    BY <2>5, <2>6, <2>7 DEF FleetSafe, ReadsHold
<1>2. CASE CancelWrite(p)
  <2>1. PICK u \in Task : u = txn[p].task
    BY <1>2, WorkedOn DEF CancelWrite
  <2>2. /\ status[u] \in {"QUEUED", "ASSIGNED", "FAILED"} /\ txn[p].robot = owner[u]
        /\ status' = [status EXCEPT ![u] = "CANCELLED"] /\ txn' = [txn EXCEPT ![p] = NoTxn]
        /\ UNCHANGED phase /\ TaskFree(p, u)
    BY <1>0, <1>2, <2>1 DEF CancelWrite, ReadFresh, Done
  <2>3. Quiet(p) /\ \A q \in Proc \ {p} : txn'[q] = txn[q]
    BY <1>0, <2>2, NoTxnSays DEF Quiet, CreateAt
  <2>4. \A q \in Proc \ {p} : txn[q].claim[u] = NoRobot /\ (txn[q].at = "cancel" => txn[q].task # u)
    BY <2>2, TaskRowFree
  <2>5. CASE owner[u] = NoRobot
    <3>1. UNCHANGED <<owner, rstat>> /\ status[u] # "ASSIGNED"
      BY <1>0, <1>2, <2>1, <2>2, <2>5, SomeRobot DEF CancelWrite, Agree
    <3>2. Agree(status', owner', rstat', phase')
      BY <1>0, <2>2, <2>5, <3>1 DEF Agree, BookOK
    <3>3. OnlyWritten({u}, {})
      <4>1. \A q \in Proc \ {p} : Away(q, {u}, {})
        BY <2>4 DEF Away
      <4> QED
        BY <1>0, <2>2, <2>3, <3>1, <4>1 DEF OnlyWritten, BookOK
    <3> QED
      BY <3>2, <3>3, Written DEF FleetSafe, RowsAgree
  <2>6. CASE owner[u] # NoRobot
    <3>1. PICK r \in Robot : r = owner[u]
      BY <1>0, <2>6 DEF BookOK
    <3>2. /\ owner' = [owner EXCEPT ![u] = NoRobot] /\ rstat' = [rstat EXCEPT ![r] = "IDLE"]
          /\ RobotFree(p, r)
      BY <1>2, <2>1, <2>2, <2>6, <3>1 DEF CancelWrite
    <3>3. status[u] = "ASSIGNED" /\ phase[u] \in {"DONE", "NONE", "CHAINED"}
      BY <1>0, <2>2, <2>6 DEF Agree, BookOK
    <3>4. Agree(status', owner', rstat', phase')
      <4>1. PICK at \in {"DONE", "NONE", "CHAINED"} : phase' = [phase EXCEPT ![u] = at]
        <5>1. phase' = [phase EXCEPT ![u] = phase[u]]
          BY <1>0, <2>2 DEF BookOK
        <5> QED
          BY <3>3, <5>1
      <4>2. Agree([status EXCEPT ![u] = "CANCELLED"], [owner EXCEPT ![u] = NoRobot],
                  [rstat EXCEPT ![owner[u]] = "IDLE"], [phase EXCEPT ![u] = at])
        BY <1>0, <3>3, EndAgrees DEF BookOK
      <4> QED
        BY <2>2, <3>1, <3>2, <4>1, <4>2
    <3>5. OnlyWritten({u}, {r})
      <4>1. \A q \in Proc \ {p} : Away(q, {u}, {r})
        BY <2>4, <3>2, RobotRowFree DEF Away
      <4> QED
        BY <1>0, <2>2, <2>3, <3>2, <3>3, <4>1 DEF OnlyWritten, BookOK
    <3> QED
      BY <3>4, <3>5, Written DEF FleetSafe, RowsAgree
  <2> QED
    BY <2>5, <2>6
<1> QED
  BY <1>1, <1>2

\* Every step of an order writes its row, its robot's, and that of the order
\* chained to it.
LEMMA OrderWrites ==
    ASSUME FleetTypeInv, Calm, FleetSafe, NEW T \in SUBSET Task, T # {}, NEW r \in Robot,
           \A u \in T : Unlocked(u, r) /\ status[u] # "NEW",
           UNCHANGED txn,
           \A u \in Task \ T : status'[u] = status[u] /\ owner'[u] = owner[u],
           \A s \in Robot \ {r} : rstat'[s] = rstat[s],
           \A u \in T : status'[u] # "QUEUED" /\ (status[u] = "QUEUED" \/ owner'[u] \in {owner[u], NoRobot})
    PROVE  ClaimsHold' /\ ReadsHold'
<1>1. \A q \in Proc : Away(q, T, {r})
  BY RowsUnlocked DEF Away
<1>2. OnlyWritten(T, {r})
  BY <1>1 DEF OnlyWritten
<1> QED
  BY <1>2, Written

LEMMA EndSafe ==
    ASSUME FleetTypeInv, Calm, FleetSafe, NEW t \in Task, NEW to \in {"FAILED", "CANCELLED"},
           Complete(t) \/ End(t, to)
    PROVE  FleetSafe'
<1>0. BookOK /\ Agree(status, owner, rstat, phase)
  BY BookTyped DEF FleetSafe, RowsAgree
<1>1. status[t] = "RUNNING"
  BY <1>0 DEF Complete, Book, End, Agree
<1>2. PICK r \in Robot : r = owner[t]
  BY <1>0, <1>1 DEF Agree
<1>3. Unlocked(t, r)
  BY <1>2 DEF Complete, Book, End, Unlocked
<1>4. PICK k \in {"COMPLETED", "FAILED", "CANCELLED"}, s \in {r, NoRobot} :
         /\ status' = [status EXCEPT ![t] = k] /\ owner' = [owner EXCEPT ![t] = s]
         /\ rstat' = [rstat EXCEPT ![r] = "IDLE"] /\ phase' = [phase EXCEPT ![t] = "DONE"]
         /\ k \in {"FAILED", "CANCELLED"} => s = NoRobot
         /\ UNCHANGED txn
  <2>1. CASE Complete(t)
    <3>1. owner' = [owner EXCEPT ![t] = r]
      BY <1>0, <1>2, <2>1 DEF Complete, BookOK
    <3> QED
      BY <1>2, <2>1, <3>1 DEF Complete
  <2>2. CASE End(t, to)
    BY <1>2, <2>2, SomeRobot DEF End
  <2> QED
    BY <2>1, <2>2
<1>5. Agree(status', owner', rstat', phase')
  <2>1. Agree([status EXCEPT ![t] = k], [owner EXCEPT ![t] = s],
              [rstat EXCEPT ![owner[t]] = "IDLE"], [phase EXCEPT ![t] = "DONE"])
    BY <1>0, <1>1, <1>2, <1>4, EndAgrees DEF BookOK
  <2> QED
    BY <1>2, <1>4, <2>1
<1>6. ClaimsHold' /\ ReadsHold'
  <2>1. PICK T \in SUBSET Task : T # {} /\ T = {t}
    OBVIOUS
  <2>2. \A u \in Task \ T : status'[u] = status[u] /\ owner'[u] = owner[u]
    BY <1>0, <1>4, <2>1 DEF BookOK
  <2>3. \A x \in Robot \ {r} : rstat'[x] = rstat[x]
    BY <1>0, <1>4 DEF BookOK
  <2>4. \A u \in T : status'[u] # "QUEUED" /\ (status[u] = "QUEUED" \/ owner'[u] \in {owner[u], NoRobot})
    BY <1>0, <1>2, <1>4, <2>1 DEF BookOK
  <2>5. \A v \in T : Unlocked(v, r) /\ status[v] # "NEW"
    BY <1>1, <1>3, <2>1
  <2> QED
    BY <1>4, <2>1, <2>2, <2>3, <2>4, <2>5, OrderWrites
<1> QED
  BY <1>5, <1>6 DEF FleetSafe, RowsAgree

LEMMA StartChainedSafe ==
    ASSUME FleetTypeInv, Calm, FleetSafe, NEW u \in Task, StartChained(u)
    PROVE  FleetSafe'
<1>0. BookOK /\ Agree(status, owner, rstat, phase) /\ status[u] = "ASSIGNED"
  BY BookTyped DEF FleetSafe, RowsAgree, StartChained
<1>1. PICK r \in Robot : r = owner[u]
  BY <1>0 DEF Agree
<1>2. /\ status' = [status EXCEPT ![u] = "RUNNING"] /\ UNCHANGED <<owner, txn>>
      /\ rstat' = [rstat EXCEPT ![r] = "RUNNING"] /\ phase' = [phase EXCEPT ![u] = "RUNNING"]
      /\ Unlocked(u, r)
  BY <1>1 DEF StartChained
<1>3. Agree(status', owner', rstat', phase')
  <2>1. \A v \in Task \ {u} : status[v] \in {"ASSIGNED", "RUNNING"} => owner[v] # owner[u]
    BY <1>0 DEF Agree
  <2> QED
    BY <1>0, <1>1, <1>2, <2>1, RunAgrees DEF BookOK
<1>4. ClaimsHold' /\ ReadsHold'
  <2>1. PICK T \in SUBSET Task : T # {} /\ T = {u}
    OBVIOUS
  <2>2. \A v \in Task \ T : status'[v] = status[v] /\ owner'[v] = owner[v]
    BY <1>0, <1>2, <2>1 DEF BookOK
  <2>3. \A x \in Robot \ {r} : rstat'[x] = rstat[x]
    BY <1>0, <1>2 DEF BookOK
  <2>4. \A v \in T : status'[v] # "QUEUED" /\ (status[v] = "QUEUED" \/ owner'[v] \in {owner[v], NoRobot})
    BY <1>0, <1>2, <2>1 DEF BookOK
  <2>5. \A v \in T : Unlocked(v, r) /\ status[v] # "NEW"
    BY <1>0, <1>2, <2>1
  <2> QED
    BY <1>2, <2>1, <2>2, <2>3, <2>4, <2>5, OrderWrites
<1> QED
  BY <1>3, <1>4 DEF FleetSafe, RowsAgree

\* The robot goes over from t to u: one order leaves it as the other takes it.
LEMMA ChainAgrees ==
    ASSUME BookOK, Agree(status, owner, rstat, phase), NEW t \in Task, NEW u \in Task \ {t},
           NEW r \in Robot, status[t] = "RUNNING", owner[t] = r, status[u] = "QUEUED"
    PROVE  Agree([status EXCEPT ![t] = "COMPLETED", ![u] = "ASSIGNED"], [owner EXCEPT ![u] = r],
                 [rstat EXCEPT ![r] = "ASSIGNED"], [phase EXCEPT ![t] = "DONE", ![u] = "CHAINED"])
<1>1. \A v \in Task \ {t} : status[v] \in {"ASSIGNED", "RUNNING"} => owner[v] \in Robot \ {r}
  BY DEF Agree
<1> QED
  BY <1>1 DEF Agree, BookOK

LEMMA ChainSafe ==
    ASSUME FleetTypeInv, Calm, FleetSafe, NEW t \in Task, NEW u \in Task, CompleteChained(t, u)
    PROVE  FleetSafe'
<1>0. /\ BookOK /\ Agree(status, owner, rstat, phase) /\ status[t] = "RUNNING" /\ u # t
      /\ status[u] = "QUEUED"
  BY BookTyped DEF FleetSafe, RowsAgree, CompleteChained, Book, Chainable
<1>1. PICK r \in Robot : r = owner[t]
  BY <1>0 DEF Agree
<1>2. /\ status' = [status EXCEPT ![t] = "COMPLETED", ![u] = "ASSIGNED"]
      /\ owner' = [owner EXCEPT ![u] = r] /\ rstat' = [rstat EXCEPT ![r] = "ASSIGNED"]
      /\ phase' = [phase EXCEPT ![t] = "DONE", ![u] = "CHAINED"]
      /\ Unlocked(t, r) /\ Unlocked(u, r) /\ UNCHANGED txn
  BY <1>1 DEF CompleteChained, Book
<1>3. Agree(status', owner', rstat', phase')
  BY <1>0, <1>1, <1>2, ChainAgrees
<1>4. ClaimsHold' /\ ReadsHold'
  <2>1. PICK T \in SUBSET Task : T # {} /\ T = {t, u}
    OBVIOUS
  <2>2. \A v \in Task \ T : status'[v] = status[v] /\ owner'[v] = owner[v]
    BY <1>0, <1>2, <2>1 DEF BookOK
  <2>3. \A x \in Robot \ {r} : rstat'[x] = rstat[x]
    BY <1>0, <1>2 DEF BookOK
  <2>4. \A v \in T : status'[v] # "QUEUED" /\ (status[v] = "QUEUED" \/ owner'[v] \in {owner[v], NoRobot})
    BY <1>0, <1>2, <2>1 DEF BookOK
  <2>5. \A v \in T : Unlocked(v, r) /\ status[v] # "NEW"
    BY <1>0, <1>2, <2>1
  <2> QED
    BY <1>2, <2>1, <2>2, <2>3, <2>4, <2>5, OrderWrites
<1> QED
  BY <1>3, <1>4 DEF FleetSafe, RowsAgree

LEMMA OrderSafe ==
    ASSUME FleetTypeInv, Calm, FleetSafe, NEW t \in Task, OrderStep(t)
    PROVE  FleetSafe'
<1>0. BookOK /\ RowsAgree
  BY BookTyped DEF FleetSafe
<1>1. CASE ChainRefused(t) \/ Hold(t) \/ Resume(t)
  <2>1. /\ UNCHANGED <<status, owner, rstat, txn>>
        /\ \E at \in {"NONE", "HELD", "RUNNING"} : phase' = [phase EXCEPT ![t] = at]
        /\ phase'[t] \in {"RUNNING", "HELD"} => phase[t] \in {"RUNNING", "HELD"}
    BY <1>0, <1>1 DEF ChainRefused, Hold, Resume, BookOK
  <2>2. RowsAgree'
    BY <1>0, <2>1 DEF RowsAgree, Agree, BookOK
  <2>3. ClaimsHold' /\ ReadsHold'
    BY <2>1 DEF FleetSafe, ClaimsHold, ReadsHold, ClaimFresh, RobotClaimedOnce, TaskClaimedOnce, QueuedOnce,
       ReadFresh, CancelsApart, CreatesApart
  <2> QED
    BY <2>2, <2>3 DEF FleetSafe
<1>2. CASE (\E r \in Robot : StartEvidence(t, r)) \/ \E to \in {"COMPLETED", "CANCELLED"} : EndEvidence(t, to)
  BY <1>0, <1>2 DEF StartEvidence, EndEvidence, Calm, RowsAgree, Agree
<1> QED
  BY <1>1, <1>2, EndSafe, StartChainedSafe, ChainSafe DEF OrderStep

LEMMA SafeStep ==
    ASSUME FleetTypeInv, Calm, FleetSafe, [FleetNext]_fleetVars
    PROVE  FleetSafe'
<1>1. CASE UNCHANGED fleetVars
  BY <1>1 DEF fleetVars, FleetSafe, RowsAgree, Agree, ClaimsHold, ReadsHold, ClaimFresh, RobotClaimedOnce,
     TaskClaimedOnce, QueuedOnce, ReadFresh, CancelsApart, CreatesApart
<1>2. ASSUME NEW p \in Proc, NEW t \in Task, CreateRead(p, t) \/ StartRead(p, t) \/ CancelRead(p, t)
      PROVE  FleetSafe'
  BY <1>2, CreateSafe, StartSafe, CancelSafe
<1>3. ASSUME NEW p \in Proc, CreateStep(p)
      PROVE  FleetSafe'
  <2>1. CASE CreateChoose(p) \/ CreateLock(p) \/ CreateAgain(p)
    <3>1. PICK t \in Task : t = txn[p].task
      BY <2>1, WorkedOn DEF CreateChoose, CreateLock, CreateAgain, CreateAt
    <3> QED
      BY <2>1, CreateSafe
  <2> QED
    BY <1>3, <2>1, InsertSafe DEF CreateStep
<1>4. ASSUME NEW p \in Proc, NEW t \in Task, NEW n \in Priority, SetPriority(p, t, n)
      PROVE  FleetSafe'
  BY <1>4, PrioritySafe
<1>5. ASSUME NEW p \in Proc, NEW t \in Task, NEW r \in Robot, Assign(p, t, r)
      PROVE  FleetSafe'
  BY <1>5, AssignSafe
<1>6. ASSUME NEW p \in Proc, TickRead(p) \/ TickClaim(p) \/ TickDeadlock(p) \/ TickEnd(p)
      PROVE  FleetSafe'
  BY <1>6, TickReadSafe, TickClaimSafe, TickEndSafe, GivenUp DEF TickDeadlock
<1>7. ASSUME NEW p \in Proc, LaunchStep(p) \/ LaunchEnd(p)
      PROVE  FleetSafe'
  <2>1. CASE LaunchEnd(p)
    BY <2>1, CommitSafe DEF LaunchEnd
  <2> QED
    BY <1>7, <2>1, LaunchSafe, LaunchOthers DEF LaunchStep
<1>8. ASSUME NEW p \in Proc, StartWrite(p) \/ StartRefused(p) \/ CancelWrite(p)
      PROVE  FleetSafe'
  <2>1. PICK t \in Task : t = txn[p].task
    BY <1>8, WorkedOn DEF StartWrite, StartRefused, CancelWrite
  <2> QED
    BY <1>8, StartSafe, CancelSafe
<1>9. ASSUME NEW t \in Task, OrderStep(t)
      PROVE  FleetSafe'
  BY <1>9, OrderSafe
<1>10. ASSUME NEW r \in Robot, UpsertRobot(r)
       PROVE  FleetSafe'
  BY <1>10 DEF UpsertRobot, Calm
<1> QED
  BY <1>1, <1>2, <1>3, <1>4, <1>5, <1>6, <1>7, <1>8, <1>9, <1>10 DEF FleetNext, OrderStep

\* A behaviour is one day.
LEMMA DayKept ==
    ASSUME [FleetNext]_fleetVars
    PROVE  day' = day
<1>1. ASSUME NEW p \in Proc, NEW t \in Task, CreateRead(p, t) \/ StartRead(p, t) \/ CancelRead(p, t)
      PROVE  day' = day
  BY <1>1 DEF CreateRead, StartRead, CancelRead
<1>2. ASSUME NEW p \in Proc, CreateStep(p)
      PROVE  day' = day
  BY <1>2 DEF CreateStep, CreateChoose, CreateLock, CreateAgain, CreateInsert
<1>3. ASSUME NEW p \in Proc, NEW t \in Task,
             (\E n \in Priority : SetPriority(p, t, n)) \/ \E r \in Robot : Assign(p, t, r)
      PROVE  day' = day
  BY <1>3 DEF SetPriority, Assign
<1>4. ASSUME NEW p \in Proc, TickRead(p) \/ TickClaim(p) \/ TickDeadlock(p) \/ TickEnd(p)
      PROVE  day' = day
  BY <1>4 DEF TickRead, TickClaim, TickDeadlock, TickEnd
<1>5. ASSUME NEW p \in Proc, LaunchStep(p) \/ LaunchEnd(p)
      PROVE  day' = day
  BY <1>5 DEF LaunchStep, Launch, LaunchRefused, LaunchEnd
<1>6. ASSUME NEW p \in Proc, StartWrite(p) \/ StartRefused(p) \/ CancelWrite(p)
      PROVE  day' = day
  BY <1>6 DEF StartWrite, StartRefused, CancelWrite
<1>7. ASSUME NEW t \in Task, OrderStep(t)
      PROVE  day' = day
  BY <1>7 DEF OrderStep, Complete, StartChained, ChainRefused, CompleteChained, End, Hold, Resume,
     StartEvidence, EndEvidence
<1>8. ASSUME NEW r \in Robot, UpsertRobot(r)
      PROVE  day' = day
  BY <1>8 DEF UpsertRobot
<1>9. CASE UNCHANGED fleetVars
  BY <1>9 DEF fleetVars
<1> QED
  BY <1>1, <1>2, <1>3, <1>4, <1>5, <1>6, <1>7, <1>8, <1>9 DEF FleetNext, OrderStep

LEMMA FleetInvariant == FleetSpec => []FleetInv
<1>1. FleetInit => FleetInv
  BY TypesInit, SafeInit DEF FleetInv, FleetSafe
<1>2. FleetInv /\ [FleetNext]_fleetVars => FleetInv'
  <2> SUFFICES ASSUME FleetInv, [FleetNext]_fleetVars
               PROVE  FleetInv'
    OBVIOUS
  <2>1. FleetTypeInv'
    BY TypesStep DEF FleetInv
  <2>2. day' = day
    BY DayKept
  <2>3. CASE Calm
    BY <2>1, <2>3, SafeStep DEF FleetInv, FleetSafe
  <2>4. CASE ~Calm
    BY <2>1, <2>2, <2>4 DEF FleetInv, Calm
  <2> QED
    BY <2>3, <2>4
<1> QED
  BY <1>1, <1>2, PTL DEF FleetSpec

\* As long as no cancel is overtaken between its look at the order and its
\* writes, no robot is saved as idle and no evidence-only run takes one (Calm),
\* the status of every robot is that of the one order that has it, in every
\* interleaving of ticks, requests and ends of orders (tasks, orchestrator,
\* queries).
THEOREM RobotsAgree == FleetSpec => []RobotAgrees
<1>1. FleetInv => RobotAgrees
  <2> SUFFICES ASSUME FleetInv, Calm
               PROVE  RobotAgrees
    BY DEF RobotAgrees, Calm
  <2>1. BookOK /\ Agree(status, owner, rstat, phase)
    BY BookTyped DEF FleetInv, RowsAgree
  <2>2. \A t \in Task : status[t] \in Live /\ owner[t] # NoRobot => status[t] \in {"ASSIGNED", "RUNNING"}
    BY <2>1 DEF Agree, Live
  <2> QED
    BY <2>1, <2>2, SomeRobot DEF Agree, RobotAgrees
<1> QED
  BY <1>1, FleetInvariant, PTL

\* With the same exceptions no order that was canceled is carried out
\* afterwards: a tick or a start that had read it as assigned is turned away
\* (cancel_task, claim_assignment, start_task_orchestration).
THEOREM CancelsEnd == FleetSpec => []CancelledIsOver
<1>1. FleetInv => CancelledIsOver
  BY DEF FleetInv, RowsAgree, Agree, CancelledIsOver, Calm
<1> QED
  BY <1>1, FleetInvariant, PTL

-----------------------------------------------------------------------------
(* What the orders of a set ask for together.                              *)

Qty(t) == Wish[t].qty
First(s) == CHOOSE x \in s : TRUE

\* What MapThenSumSet computes on the way to the sum of S.
IsSum(S, f) == f = [s \in SUBSET S |-> IF s = {} THEN 0 ELSE Qty(First(s)) + f[s \ {First(s)}]]
Sum(S) == (CHOOSE f : IsSum(S, f))[S]

LEMMA MapThenSumIs ==
    ASSUME NEW S
    PROVE  MapThenSumSet(LAMBDA t : Wish[t].qty, S) = Sum(S)
  BY DEF MapThenSumSet, MapThenFoldSet, Sum, IsSum, Qty, First

LEMMA ClaimedIsSum ==
    ASSUME NEW op, NEW b
    PROVE  Claimed(op, b) = Sum(ClaimsOn(op, b))
  BY DEF Claimed, MapThenSumSet, MapThenFoldSet, Sum, IsSum, Qty, First

\* Among sets of orders there is one that includes no other.
LEMMA LeastSet ==
    ASSUME NEW D \in SUBSET (SUBSET Task), D # {}
    PROVE  \E s \in D : \A u \in SUBSET s : u # s => u \notin D
<1>1. FiniteSubsetsOf(Task) = SUBSET Task
  BY FleetAssumption, FS_FiniteSubsetsOfFinite
<1>2. IsWellFoundedOn(StrictSubsetOrdering(Task), SUBSET Task)
  BY <1>1, FS_StrictSubsetOrderingWellFounded, Zenon
<1>3. \E s \in D : \A u \in D : ~(<<u, s>> \in StrictSubsetOrdering(Task))
  BY <1>2, WFMin
<1>4. PICK s \in D : \A u \in D : ~(<<u, s>> \in StrictSubsetOrdering(Task))
  BY <1>3
<1>5. ASSUME NEW u \in SUBSET s, u # s, u \in D
      PROVE  FALSE
  <2>1. <<u, s>> \in (SUBSET Task) \X (SUBSET Task)
    BY <1>5
  <2>2. <<u, s>> \in StrictSubsetOrdering(Task)
    BY <1>5, <2>1 DEF StrictSubsetOrdering
  <2> QED
    BY <1>4, <1>5, <2>2
<1> QED
  BY <1>5

LEMMA QtyType == \A t \in Task : Qty(t) \in Nat \ {0}
  BY FleetAssumption DEF Qty

LEMMA FirstIn == \A s \in SUBSET Task : s # {} => First(s) \in s
  BY DEF First

LEMMA SumEquation ==
    ASSUME NEW S, NEW f, IsSum(S, f), NEW s \in SUBSET S
    PROVE  f[s] = IF s = {} THEN 0 ELSE Qty(First(s)) + f[s \ {First(s)}]
<1> DEFINE g == [x \in SUBSET S |-> IF x = {} THEN 0 ELSE Qty(First(x)) + f[x \ {First(x)}]]
<1>1. f = g
  BY DEF IsSum
<1>2. g[s] = IF s = {} THEN 0 ELSE Qty(First(s)) + f[s \ {First(s)}]
  OBVIOUS
<1> QED
  BY <1>1, <1>2, Zenon

\* Two ways of summing agree where both are defined.
LEMMA SumUnique ==
    ASSUME NEW S \in SUBSET Task, NEW T \in SUBSET Task, NEW f, NEW g, IsSum(S, f), IsSum(T, g)
    PROVE  \A s \in (SUBSET S) \cap (SUBSET T) : f[s] = g[s]
<1> DEFINE D == {s \in (SUBSET S) \cap (SUBSET T) : f[s] # g[s]}
<1>1. SUFFICES ASSUME D # {} PROVE FALSE
  OBVIOUS
<1>2. PICK s \in D : \A u \in SUBSET s : u # s => u \notin D
  <2>1. D \in SUBSET (SUBSET Task)
    OBVIOUS
  <2> HIDE DEF D
  <2> QED
    BY <1>1, <2>1, LeastSet
<1>3. /\ f[s] = IF s = {} THEN 0 ELSE Qty(First(s)) + f[s \ {First(s)}]
      /\ g[s] = IF s = {} THEN 0 ELSE Qty(First(s)) + g[s \ {First(s)}]
  BY SumEquation
<1>4. s # {} => f[s \ {First(s)}] = g[s \ {First(s)}]
  <2>1. s # {} => s \ {First(s)} \in SUBSET s /\ s \ {First(s)} # s
    BY FirstIn
  <2> QED
    BY <1>2, <2>1
<1> QED
  BY <1>3, <1>4

\* The recursion has a solution, and its values are natural numbers.
LEMMA SumExists == \A S \in SUBSET Task : \E f \in [SUBSET S -> Nat] : IsSum(S, f)
<1> DEFINE D == {S \in SUBSET Task : ~\E f \in [SUBSET S -> Nat] : IsSum(S, f)}
<1>1. SUFFICES ASSUME D # {} PROVE FALSE
  OBVIOUS
<1>2. PICK S \in D : \A u \in SUBSET S : u # S => u \notin D
  <2>1. D \in SUBSET (SUBSET Task)
    OBVIOUS
  <2> HIDE DEF D
  <2> QED
    BY <1>1, <2>1, LeastSet
<1>3. \A u \in SUBSET S : u # S => \E f \in [SUBSET u -> Nat] : IsSum(u, f)
  BY <1>2
<1>4. ASSUME NEW u \in SUBSET S, u # S
      PROVE  /\ Sum(u) \in Nat
             /\ Sum(u) = IF u = {} THEN 0 ELSE Qty(First(u)) + Sum(u \ {First(u)})
  <2>1. ASSUME NEW v \in SUBSET S, v # S, NEW f \in [SUBSET v -> Nat], IsSum(v, f)
        PROVE  Sum(v) = f[v]
    <3> DEFINE h == CHOOSE g : IsSum(v, g)
    <3>1. IsSum(v, h)
      BY <2>1, Zenon
    <3>2. v \in SUBSET Task /\ v \in (SUBSET v) \cap (SUBSET v)
      OBVIOUS
    <3>3. Sum(v) = h[v]
      BY DEF Sum
    <3> HIDE DEF h
    <3>4. h[v] = f[v]
      BY <2>1, <3>1, <3>2, SumUnique
    <3> QED
      BY <3>3, <3>4
  <2>2. PICK f \in [SUBSET u -> Nat] : IsSum(u, f)
    BY <1>3, <1>4
  <2>3. Sum(u) = f[u] /\ f[u] = IF u = {} THEN 0 ELSE Qty(First(u)) + f[u \ {First(u)}]
    <3>1. u \in SUBSET u
      OBVIOUS
    <3>2. f[u] = IF u = {} THEN 0 ELSE Qty(First(u)) + f[u \ {First(u)}]
      BY <2>2, <3>1, SumEquation
    <3> QED
      BY <1>4, <2>1, <2>2, <3>2
  <2>4. ASSUME u # {}
        PROVE  f[u \ {First(u)}] = Sum(u \ {First(u)})
    <3> DEFINE w == u \ {First(u)}
    <3>1. w \in SUBSET u /\ w # S /\ w \in SUBSET S /\ w \in SUBSET Task
      BY <1>4, <2>4, FirstIn
    <3> HIDE DEF w
    <3>2. PICK g \in [SUBSET w -> Nat] : IsSum(w, g)
      BY <1>3, <3>1
    <3>3. Sum(w) = g[w]
      BY <2>1, <3>1, <3>2
    <3>4. f[w] = g[w]
      BY <2>2, <3>1, <3>2, SumUnique
    <3> QED
      BY <3>3, <3>4 DEF w
  <2> QED
    BY <2>2, <2>3, <2>4
<1> DEFINE f == [u \in SUBSET S |->
                   IF u = {} THEN 0
                   ELSE IF u = S THEN Qty(First(S)) + Sum(S \ {First(S)}) ELSE Sum(u)]
<1>5. \A u \in SUBSET S : u # {} => u \ {First(u)} \in SUBSET S /\ u \ {First(u)} # S
  BY FirstIn
<1>6. \A u \in SUBSET S : f[u] = IF u = {} THEN 0 ELSE Qty(First(u)) + f[u \ {First(u)}]
  <2>1. ASSUME NEW u \in SUBSET S, u # {}
        PROVE  f[u] = Qty(First(u)) + f[u \ {First(u)}]
    <3> DEFINE w == u \ {First(u)}
    <3>1. w \in SUBSET S /\ w # S
      BY <1>5, <2>1
    <3>2. f[w] = Sum(w)
      <4> HIDE DEF w
      <4>1. w = {} => Sum(w) = 0
        BY <1>4, <3>1
      <4> QED
        BY <3>1, <4>1
    <3>3. f[u] = Qty(First(u)) + Sum(w)
      <4>1. CASE u = S
        BY <2>1, <4>1
      <4>2. CASE u # S
        BY <1>4, <2>1, <4>2
      <4> QED
        BY <4>1, <4>2
    <3> QED
      BY <3>2, <3>3
  <2> QED
    BY <2>1
<1>7. IsSum(S, f)
  <2>1. f = [u \in SUBSET S |-> f[u]]
    OBVIOUS
  <2>2. [u \in SUBSET S |-> f[u]]
          = [u \in SUBSET S |-> IF u = {} THEN 0 ELSE Qty(First(u)) + f[u \ {First(u)}]]
    <3> HIDE DEF f
    <3> QED
      BY <1>6, Zenon
  <2> HIDE DEF f
  <2> QED
    BY <2>1, <2>2, Zenon DEF IsSum
<1>8. f \in [SUBSET S -> Nat]
  <2>1. ASSUME NEW u \in SUBSET S
        PROVE  f[u] \in Nat
    <3>1. CASE u = S /\ u # {}
      <4>1. Qty(First(S)) \in Nat
        BY <3>1, FirstIn, QtyType
      <4>2. Sum(S \ {First(S)}) \in Nat
        BY <1>4, <1>5, <3>1
      <4> QED
        BY <3>1, <4>1, <4>2
    <3> QED
      BY <1>4, <3>1
  <2> HIDE DEF f
  <2>2. f = [u \in SUBSET S |-> f[u]]
    BY DEF f
  <2> QED
    BY <2>1, <2>2, Zenon
<1> QED
  BY <1>2, <1>7, <1>8

LEMMA SumValue ==
    ASSUME NEW S \in SUBSET Task
    PROVE  /\ Sum(S) \in Nat
           /\ Sum(S) = IF S = {} THEN 0 ELSE Qty(First(S)) + Sum(S \ {First(S)})
<1>1. ASSUME NEW T \in SUBSET Task, NEW f, IsSum(T, f)
      PROVE  Sum(T) = f[T]
  <2> DEFINE h == CHOOSE g : IsSum(T, g)
  <2>1. IsSum(T, h)
    BY <1>1, Zenon
  <2>2. T \in (SUBSET T) \cap (SUBSET T)
    OBVIOUS
  <2>3. Sum(T) = h[T]
    BY DEF Sum
  <2> HIDE DEF h
  <2>4. h[T] = f[T]
    BY <1>1, <2>1, <2>2, SumUnique
  <2> QED
    BY <2>3, <2>4
<1>2. PICK f \in [SUBSET S -> Nat] : IsSum(S, f)
  BY SumExists
<1>3. f[S] \in Nat /\ f[S] = IF S = {} THEN 0 ELSE Qty(First(S)) + f[S \ {First(S)}]
  <2>1. S \in SUBSET S
    OBVIOUS
  <2> QED
    BY <1>2, <2>1, SumEquation
<1>4. ASSUME S # {}
      PROVE  f[S \ {First(S)}] = Sum(S \ {First(S)})
  <2> DEFINE T == S \ {First(S)}
  <2>1. T \in SUBSET Task /\ T \in (SUBSET S) \cap (SUBSET T)
    OBVIOUS
  <2> HIDE DEF T
  <2>2. PICK g \in [SUBSET T -> Nat] : IsSum(T, g)
    BY <2>1, SumExists
  <2>3. Sum(T) = g[T]
    BY <1>1, <2>1, <2>2
  <2>4. f[T] = g[T]
    BY <1>2, <2>1, <2>2, SumUnique
  <2> QED
    BY <2>3, <2>4 DEF T
<1> QED
  BY <1>1, <1>2, <1>3, <1>4

\* Whichever order is taken out first, the sum is the same.
LEMMA SumSplit == \A S \in SUBSET Task : \A x \in S : Sum(S) = Qty(x) + Sum(S \ {x})
<1> DEFINE D == {S \in SUBSET Task : \E x \in S : Sum(S) # Qty(x) + Sum(S \ {x})}
<1>1. SUFFICES ASSUME D # {} PROVE FALSE
  OBVIOUS
<1>2. PICK S \in D : \A u \in SUBSET S : u # S => u \notin D
  <2>1. D \in SUBSET (SUBSET Task)
    OBVIOUS
  <2> HIDE DEF D
  <2> QED
    BY <1>1, <2>1, LeastSet
<1>3. PICK x \in S : Sum(S) # Qty(x) + Sum(S \ {x})
  OBVIOUS
<1>4. ASSUME NEW u \in SUBSET S, u # S, NEW y \in u
      PROVE  Sum(u) = Qty(y) + Sum(u \ {y})
  BY <1>2, <1>4
<1>5. PICK c \in S : c = First(S)
  BY FirstIn
<1>6. Sum(S) = Qty(c) + Sum(S \ {c})
  BY <1>5, SumValue
<1>7. x # c
  BY <1>3, <1>6
<1> DEFINE Without == (S \ {x}) \ {c}
<1>8. Sum(S \ {c}) = Qty(x) + Sum(Without)
  <2>1. S \ {c} \in SUBSET S /\ S \ {c} # S /\ x \in S \ {c}
    BY <1>7
  <2>2. (S \ {c}) \ {x} = Without
    OBVIOUS
  <2> QED
    BY <1>4, <2>1, <2>2
<1>9. Sum(S \ {x}) = Qty(c) + Sum(Without)
  <2>1. S \ {x} \in SUBSET S /\ S \ {x} # S /\ c \in S \ {x}
    BY <1>7
  <2> QED
    BY <1>4, <2>1
<1>10. Without \in SUBSET Task /\ x \in Task /\ c \in Task
  OBVIOUS
<1> HIDE DEF Without
<1>11. Sum(Without) \in Nat /\ Qty(x) \in Nat /\ Qty(c) \in Nat
  BY <1>10, SumValue, QtyType
<1> QED
  BY <1>3, <1>6, <1>8, <1>9, <1>11

\* Fewer orders do not ask for more.
LEMMA SumMonotone == \A T \in SUBSET Task : \A S \in SUBSET T : Sum(S) <= Sum(T)
<1> DEFINE D == {T \in SUBSET Task : \E S \in SUBSET T : ~(Sum(S) <= Sum(T))}
<1>1. SUFFICES ASSUME D # {} PROVE FALSE
  OBVIOUS
<1>2. PICK T \in D : \A u \in SUBSET T : u # T => u \notin D
  <2>1. D \in SUBSET (SUBSET Task)
    OBVIOUS
  <2> HIDE DEF D
  <2> QED
    BY <1>1, <2>1, LeastSet
<1>3. PICK S \in SUBSET T : ~(Sum(S) <= Sum(T))
  OBVIOUS
<1>4. Sum(S) \in Nat /\ Sum(T) \in Nat
  BY SumValue
<1>5. PICK x \in T : x \notin S
  BY <1>3, <1>4
<1>6. T \ {x} \in SUBSET T /\ T \ {x} # T /\ T \ {x} \in SUBSET Task /\ S \in SUBSET (T \ {x})
  BY <1>5
<1>7. Sum(S) <= Sum(T \ {x})
  BY <1>2, <1>6
<1>8. Sum(T) = Qty(x) + Sum(T \ {x}) /\ Qty(x) \in Nat /\ Sum(T \ {x}) \in Nat
  BY <1>6, SumSplit, SumValue, QtyType
<1> QED
  BY <1>3, <1>4, <1>7, <1>8

LEMMA SumAdd ==
    ASSUME NEW S \in SUBSET Task, NEW x \in Task \ S
    PROVE  Sum(S \cup {x}) = Qty(x) + Sum(S)
<1>1. S \cup {x} \in SUBSET Task /\ x \in S \cup {x} /\ (S \cup {x}) \ {x} = S
  OBVIOUS
<1> QED
  BY <1>1, SumSplit

\* Every order asks for something.
LEMMA SumPositive == \A S \in SUBSET Task : S # {} => Sum(S) > 0
<1> SUFFICES ASSUME NEW S \in SUBSET Task, NEW x \in S
             PROVE  Sum(S) > 0
  OBVIOUS
<1>1. Sum(S) = Qty(x) + Sum(S \ {x})
  BY SumSplit
<1>2. Qty(x) \in Nat \ {0} /\ Sum(S \ {x}) \in Nat
  <2>1. S \ {x} \in SUBSET Task
    OBVIOUS
  <2> QED
    BY <2>1, QtyType, SumValue
<1> QED
  BY <1>1, <1>2

-----------------------------------------------------------------------------
(* What the bins hold, and what is claimed of them.                        *)

Covered(b) ==
    /\ Sum(ClaimsOn("out", b)) <= stock[b]
    /\ ClaimsOn("in", b) # {} => stock[b] = 0
    /\ \A t, u \in ClaimsOn("in", b) : t = u

AllCovered == \A b \in Bin : Covered(b)

\* An order that a transaction has claimed, or is about to start, is not over:
\* its row is locked.
WorkLive ==
    /\ \A p \in Proc, t \in Task : txn[p].claim[t] # NoRobot => status[t] \in Live
    /\ \A p \in Proc : txn[p].at = "start" => status[txn[p].task] \in Live

CoverInv == FleetTypeInv /\ (Firm => AllCovered /\ WorkLive)

LEMMA ClaimsAreOrders == \A op, b : ClaimsOn(op, b) \in SUBSET Task
  BY DEF ClaimsOn

\* A bin whose claims only become fewer, and that holds no less.
LEMMA FewerClaims ==
    ASSUME FleetTypeInv, NEW b \in Bin, Covered(b),
           ClaimsOn("out", b)' \in SUBSET ClaimsOn("out", b),
           ClaimsOn("in", b)' \in SUBSET ClaimsOn("in", b),
           stock'[b] = stock[b]
    PROVE  Covered(b)'
<1>1. stock[b] \in Nat
  BY DEF FleetTypeInv, FleetTypeOK
<1>2. Sum(ClaimsOn("out", b)') <= Sum(ClaimsOn("out", b))
  BY ClaimsAreOrders, SumMonotone
<1>3. Sum(ClaimsOn("out", b)') \in Nat /\ Sum(ClaimsOn("out", b)) \in Nat
  BY ClaimsAreOrders, SumValue
<1>4. Sum(ClaimsOn("out", b))' = Sum(ClaimsOn("out", b)')
  BY DEF Sum, IsSum, Qty, First
<1>5. Sum(ClaimsOn("out", b))' <= stock[b]
  BY <1>1, <1>2, <1>3, <1>4 DEF Covered
<1>6. (ClaimsOn("in", b))' # {} => stock[b] = 0
  BY DEF Covered
<1>7. \A t, u \in (ClaimsOn("in", b))' : t = u
  BY DEF Covered
<1> QED
  BY <1>5, <1>6, <1>7 DEF Covered

\* A step that makes no claim and leaves the stock alone.
LEMMA NoNewClaim ==
    ASSUME FleetTypeInv, AllCovered, UNCHANGED stock,
           \A t \in Task : status'[t] \in Live => status[t] \in Live /\ bin'[t] = bin[t]
    PROVE  AllCovered'
<1> SUFFICES ASSUME NEW b \in Bin
             PROVE  Covered(b)'
  BY DEF AllCovered
<1>1. \A op : ClaimsOn(op, b)' \in SUBSET ClaimsOn(op, b)
  BY DEF ClaimsOn
<1> QED
  BY <1>1, FewerClaims DEF AllCovered

\* The order that ends, if one does, is in no transaction's hands.
LEMMA WorkStays ==
    ASSUME FleetTypeInv, FleetTypeInv', WorkLive, NEW X \in SUBSET Task,
           \A t \in Task \ X : status[t] \in Live => status'[t] \in Live,
           \A q \in Proc : \A t \in X :
              txn'[q].claim[t] = NoRobot /\ (txn'[q].at = "start" => txn'[q].task # t),
           \A q \in Proc :
              /\ \A t \in Task : txn'[q].claim[t] # NoRobot =>
                    txn[q].claim[t] # NoRobot \/ status[t] \in Live
              /\ txn'[q].at = "start" =>
                    \/ txn[q].at = "start" /\ txn'[q].task = txn[q].task
                    \/ status[txn'[q].task] \in Live
    PROVE  WorkLive'
<1>1. \A q \in Proc : txn'[q].at = "start" => txn'[q].task \in Task
  BY DEF FleetTypeInv, TxnOK, HasRow
<1> QED
  BY <1>1 DEF WorkLive

\* A step of one thread that leaves the book alone.
LEMMA ThreadCovered ==
    ASSUME FleetTypeInv, FleetTypeInv', AllCovered, WorkLive, NEW p \in Proc,
           UNCHANGED <<day, book>>, txn' = [txn EXCEPT ![p] = txn'[p]],
           \A t \in Task : txn'[p].claim[t] # NoRobot =>
              txn[p].claim[t] # NoRobot \/ status[t] \in Live,
           txn'[p].at = "start" => status[txn'[p].task] \in Live
    PROVE  AllCovered' /\ WorkLive'
<1>1. AllCovered'
  BY NoNewClaim DEF book
<1>2. \A q \in Proc : q = p \/ txn'[q] = txn[q]
  BY DEF FleetTypeInv
<1>3. \A t \in Task : status'[t] = status[t]
  BY DEF book
<1>4. WorkLive'
  <2>1. {} \in SUBSET Task
    OBVIOUS
  <2> QED
    BY <1>2, <1>3, <2>1, WorkStays
<1> QED
  BY <1>1, <1>4

\* An order goes to a bin that has enough for it, or stands empty for it.
LEMMA ClaimCovered ==
    ASSUME FleetTypeInv, AllCovered, NEW t \in Task, NEW b \in Bin, b \in Fits(t, stock),
           UNCHANGED stock, bin' = [bin EXCEPT ![t] = b],
           \A u \in Task \ {t} : status'[u] = status[u]
    PROVE  AllCovered'
<1>0. bin \in [Task -> Bin \cup {NoBin}] /\ stock \in [Bin -> Nat]
  BY DEF FleetTypeInv, FleetTypeOK
<1>1. ASSUME NEW c \in Bin, c # b
      PROVE  Covered(c)'
  <2>1. \A op : ClaimsOn(op, c)' \in SUBSET ClaimsOn(op, c)
    BY <1>0, <1>1 DEF ClaimsOn
  <2> QED
    BY <2>1, FewerClaims DEF AllCovered
<1>2. \A op : /\ ClaimsOn(op, b)' \in SUBSET (ClaimsOn(op, b) \cup {t})
              /\ Wish[t].op # op => ClaimsOn(op, b)' \in SUBSET ClaimsOn(op, b)
  BY <1>0 DEF ClaimsOn
<1>3. Covered(b) /\ stock[b] \in Nat
  BY <1>0 DEF AllCovered
<1>4. Sum(ClaimsOn("out", b))' = Sum(ClaimsOn("out", b)')
  BY DEF Sum, IsSum, Qty, First
<1>5. ASSUME Wish[t].op = "in"
      PROVE  Covered(b)'
  <2>1. stock[b] = 0 /\ Sum(ClaimsOn("in", b)) = 0
    BY <1>5, ClaimedIsSum DEF Fits
  <2>2. ClaimsOn("in", b) = {}
    BY <2>1, ClaimsAreOrders, SumPositive
  <2>3. Sum(ClaimsOn("out", b)') <= Sum(ClaimsOn("out", b))
    BY <1>2, <1>5, ClaimsAreOrders, SumMonotone
  <2>4. Sum(ClaimsOn("out", b)') \in Nat /\ Sum(ClaimsOn("out", b)) \in Nat
    BY <1>2, <1>5, ClaimsAreOrders, SumValue
  <2>5. Sum(ClaimsOn("out", b))' <= stock[b]
    BY <1>3, <1>4, <2>3, <2>4 DEF Covered
  <2>6. \A u, v \in (ClaimsOn("in", b))' : u = v
    BY <1>2, <2>2
  <2> QED
    BY <2>1, <2>5, <2>6 DEF Covered
<1>6. ASSUME Wish[t].op = "out"
      PROVE  Covered(b)'
  <2>1. stock[b] > 0 /\ Left(b, stock) >= Wish[t].qty
    BY <1>6 DEF Fits
  <2>2. Sum(ClaimsOn("out", b)) \in Nat /\ Qty(t) \in Nat \ {0}
    BY ClaimsAreOrders, SumValue, QtyType
  <2>3. Qty(t) + Sum(ClaimsOn("out", b)) <= stock[b]
    BY <1>3, <2>1, <2>2, ClaimedIsSum DEF Left, Qty
  <2>4. Sum(ClaimsOn("out", b) \cup {t}) <= Qty(t) + Sum(ClaimsOn("out", b))
    <3>1. CASE t \in ClaimsOn("out", b)
      <4>1. ClaimsOn("out", b) \cup {t} = ClaimsOn("out", b)
        BY <3>1
      <4>2. Sum(ClaimsOn("out", b) \cup {t}) = Sum(ClaimsOn("out", b))
        BY <4>1, Zenon
      <4> QED
        BY <2>2, <4>2
    <3>2. CASE t \notin ClaimsOn("out", b)
      <4>1. Sum(ClaimsOn("out", b) \cup {t}) = Qty(t) + Sum(ClaimsOn("out", b))
        BY <3>2, ClaimsAreOrders, SumAdd
      <4> QED
        BY <2>2, <4>1
    <3> QED
      BY <3>1, <3>2
  <2>5. ClaimsOn("out", b) \cup {t} \in SUBSET Task /\ ClaimsOn("out", b)' \in SUBSET Task
    BY <1>2, ClaimsAreOrders
  <2>6. Sum(ClaimsOn("out", b)') <= Sum(ClaimsOn("out", b) \cup {t})
    BY <1>2, <2>5, SumMonotone
  <2>7. Sum(ClaimsOn("out", b)') \in Nat /\ Sum(ClaimsOn("out", b) \cup {t}) \in Nat
    BY <2>5, SumValue
  <2>8. Sum(ClaimsOn("out", b))' <= stock[b]
    BY <1>3, <1>4, <2>2, <2>3, <2>4, <2>6, <2>7
  <2>9. (ClaimsOn("in", b))' = {}
    BY <1>2, <1>3, <1>6, <2>1 DEF Covered
  <2> QED
    BY <2>8, <2>9 DEF Covered
<1>7. Wish[t].op \in {"in", "out"}
  BY FleetAssumption
<1> QED
  BY <1>1, <1>5, <1>6, <1>7 DEF AllCovered

\* What is booked leaves the bin together with its claim, or fills the bin that
\* stood empty for it.
LEMMA BookCovered ==
    ASSUME FleetTypeInv, AllCovered, NEW t \in Task, Book(t), UNCHANGED bin,
           status'[t] = "COMPLETED",
           \A u \in Task : status'[u] \in Live => status[u] \in Live
    PROVE  AllCovered'
<1>a. PICK b \in Bin : b = bin[t]
  BY DEF FleetTypeInv, FleetTypeOK, BinsKnown, Book
<1>0. /\ bin \in [Task -> Bin \cup {NoBin}] /\ stock \in [Bin -> Nat] /\ bin[t] = b
      /\ status[t] = "RUNNING" /\ Bookable(t) /\ stock' = StockAfter(t)
  BY <1>a DEF FleetTypeInv, FleetTypeOK, Book
<1>1. \A op : \A c \in Bin : ClaimsOn(op, c)' \in SUBSET ClaimsOn(op, c) /\ t \notin ClaimsOn(op, c)'
  BY DEF ClaimsOn, Live
<1>2. ASSUME NEW c \in Bin, c # b
      PROVE  Covered(c)'
  <2>1. stock'[c] = stock[c]
    BY <1>0, <1>2 DEF StockAfter
  <2> QED
    BY <1>1, <2>1, FewerClaims DEF AllCovered
<1>3. t \in ClaimsOn(Wish[t].op, b)
  BY <1>0 DEF ClaimsOn, Live
<1>4. Covered(b) /\ stock[b] \in Nat
  BY <1>0 DEF AllCovered
<1>5. Sum(ClaimsOn("out", b))' = Sum(ClaimsOn("out", b)')
  BY DEF Sum, IsSum, Qty, First
<1>6. Sum(ClaimsOn("out", b)') \in Nat /\ Sum(ClaimsOn("out", b)) \in Nat /\ Qty(t) \in Nat \ {0}
  BY <1>0, <1>1, ClaimsAreOrders, SumValue, QtyType
<1>7. ASSUME Wish[t].op = "in"
      PROVE  Covered(b)'
  <2>1. stock[b] = 0 /\ stock'[b] = Qty(t)
    BY <1>0, <1>3, <1>4, <1>7, QtyType DEF Covered, StockAfter, Qty
  <2>2. ClaimsOn("in", b)' = {}
    BY <1>0, <1>1, <1>3, <1>4, <1>7 DEF Covered
  <2>3. Sum(ClaimsOn("out", b)') <= Sum(ClaimsOn("out", b))
    BY <1>0, <1>1, ClaimsAreOrders, SumMonotone
  <2>4. Sum(ClaimsOn("out", b)') <= stock'[b]
    BY <1>4, <1>6, <2>1, <2>3 DEF Covered
  <2> QED
    BY <1>5, <2>2, <2>4 DEF Covered
<1>8. ASSUME Wish[t].op = "out"
      PROVE  Covered(b)'
  <2>1. stock[b] >= Qty(t) /\ stock'[b] = stock[b] - Qty(t)
    BY <1>0, <1>8 DEF Bookable, StockAfter, Qty
  <2>2. ClaimsOn("out", b)' \in SUBSET (ClaimsOn("out", b) \ {t})
    BY <1>0, <1>1
  <2>3. ClaimsOn("out", b) \ {t} \in SUBSET Task
    BY ClaimsAreOrders
  <2>4. Sum(ClaimsOn("out", b)') <= Sum(ClaimsOn("out", b) \ {t})
    BY <2>2, <2>3, SumMonotone
  <2>5. Sum(ClaimsOn("out", b)) = Qty(t) + Sum(ClaimsOn("out", b) \ {t})
    BY <1>3, <1>8, ClaimsAreOrders, SumSplit
  <2>6. Sum(ClaimsOn("out", b) \ {t}) \in Nat
    BY <2>3, SumValue
  <2>7. Sum(ClaimsOn("out", b)') <= stock'[b]
    BY <1>4, <1>6, <2>1, <2>4, <2>5, <2>6 DEF Covered
  <2>8. ClaimsOn("in", b)' = {}
    <3>1. stock[b] # 0
      BY <1>4, <1>6, <2>1
    <3> QED
      BY <1>0, <1>1, <1>4, <3>1 DEF Covered
  <2> QED
    BY <1>5, <2>7, <2>8 DEF Covered
<1>9. Wish[t].op \in {"in", "out"}
  BY FleetAssumption
<1> QED
  BY <1>2, <1>7, <1>8, <1>9 DEF AllCovered

LEMMA CreateCovered ==
    ASSUME FleetTypeInv, FleetTypeInv', AllCovered, WorkLive, NEW p \in Proc, NEW t \in Task,
           CreateRead(p, t) \/ CreateChoose(p) \/ CreateLock(p) \/ CreateAgain(p)
    PROVE  AllCovered' /\ WorkLive'
<1>0. txn \in [Proc -> Txn]
  BY DEF FleetTypeInv
<1>1. txn' = [txn EXCEPT ![p] = txn'[p]] /\ UNCHANGED <<day, book>>
  BY <1>0 DEF CreateRead, CreateChoose, CreateLock, CreateAgain, Begin, Done
<1>2. txn'[p].at # "start" /\ \A u \in Task : txn'[p].claim[u] \in {txn[p].claim[u], NoRobot}
  <2>1. CASE CreateRead(p, t)
    BY <1>0, <2>1 DEF CreateRead, Begin, NoTxn, NoClaim
  <2>2. CASE CreateChoose(p)
    BY <1>0, <2>2, NoTxnSays DEF CreateChoose, Done, Txn
  <2>3. CASE CreateLock(p)
    BY <1>0, <2>3 DEF CreateLock, Txn
  <2>4. CASE CreateAgain(p)
    BY <1>0, <2>4, NoTxnSays DEF CreateAgain, Done, Txn
  <2> QED
    BY <2>1, <2>2, <2>3, <2>4
<1> QED
  BY <1>1, <1>2, ThreadCovered

LEMMA InsertCovered ==
    ASSUME FleetTypeInv, FleetTypeInv', Firm, AllCovered, WorkLive, NEW p \in Proc,
           NEW r \in Robot \cup {NoRobot}, CreateInsert(p, r)
    PROVE  AllCovered' /\ WorkLive'
<1>0. txn \in [Proc -> Txn] /\ status \in [Task -> TaskStatus] /\ stock \in [Bin -> Nat]
  BY DEF FleetTypeInv, FleetTypeOK
<1>1. PICK t \in Task : t = txn[p].task
  BY WorkedOn DEF CreateInsert, CreateAt
<1>2. PICK b \in Bin : b = txn[p].bin
  BY DEF FleetTypeInv, TxnOK, CreateInsert
<1>3. b \in Fits(t, stock)
  <2>1. Plan(p) \in SUBSET Nat /\ Plan(p) # {}
    BY <1>1, PlanBins, FleetAssumption DEF CreateInsert, Settles
  <2>2. b \in Plan(p)
    BY <1>2, <2>1, MinIn DEF CreateInsert, Settles
  <2> QED
    BY <1>1, <2>2 DEF Plan, Steady, Firm
<1>4. /\ txn' = [txn EXCEPT ![p] = NoTxn] /\ UNCHANGED stock
      /\ \A u \in Task \ {t} : status'[u] = status[u]
      /\ status'[t] \in {status[t], "QUEUED", "ASSIGNED"}
  BY <1>0, <1>1 DEF CreateInsert, Done
<1>5. AllCovered'
  <2>1. CASE bin' = [bin EXCEPT ![t] = b]
    BY <1>3, <1>4, <2>1, ClaimCovered
  <2>2. CASE UNCHANGED <<status, bin>>
    BY <1>4, <2>2, NoNewClaim
  <2> QED
    BY <1>1, <1>2, <2>1, <2>2 DEF CreateInsert
<1>6. \A u \in Task : status[u] \in Live => status'[u] \in Live
  BY <1>4 DEF Live
<1>7. WorkLive'
  <2>1. {} \in SUBSET Task
    OBVIOUS
  <2> QED
    BY <1>0, <1>4, <1>6, <2>1, NoTxnSays, WorkStays
<1> QED
  BY <1>5, <1>7

LEMMA TickCovered ==
    ASSUME FleetTypeInv, FleetTypeInv', AllCovered, WorkLive, NEW p \in Proc,
           TickRead(p) \/ TickClaim(p) \/ TickDeadlock(p)
    PROVE  AllCovered' /\ WorkLive'
<1>0. txn \in [Proc -> Txn]
  BY DEF FleetTypeInv
<1>1. CASE TickRead(p) \/ TickDeadlock(p)
  <2>1. txn' = [txn EXCEPT ![p] = txn'[p]] /\ UNCHANGED <<day, book>>
    BY <1>0, <1>1 DEF TickRead, TickDeadlock, Begin, Done
  <2>2. txn'[p].at # "start" /\ \A u \in Task : txn'[p].claim[u] = NoRobot
    <3>1. CASE TickRead(p)
      <4>1. \E ready, queue : txn' = [txn EXCEPT ![p] =
                   [NoTxn EXCEPT !.at = "tick", !.free = ready, !.queue = queue]]
        BY <3>1, Zenon DEF TickRead, Begin
      <4> QED
        BY <1>0, <4>1 DEF NoTxn, NoClaim
    <3>2. CASE TickDeadlock(p)
      BY <1>0, <3>2, NoTxnSays DEF TickDeadlock, Done
    <3> QED
      BY <1>1, <3>1, <3>2
  <2> QED
    BY <2>1, <2>2, ThreadCovered
<1>2. CASE TickClaim(p)
  <2>1. UNCHANGED <<day, book>> /\ txn[p].at = "tick"
    BY <1>2 DEF TickClaim
  <2>2. PICK e \in txn[p].queue : PassOver(p, e) \/ \E r \in Able(p, e) : ClaimOrLose(p, e, r)
    BY <1>2 DEF TickClaim
  <2>3. e[1] \in Task
    BY <1>0 DEF Txn
  <2>4. CASE PassOver(p, e)
    <3>1. txn' = [txn EXCEPT ![p] = txn'[p]] /\ txn'[p].at = "tick" /\ \A u \in Task : txn'[p].claim[u] = txn[p].claim[u]
      BY <1>0, <2>1, <2>4 DEF PassOver, Txn
    <3> QED
      BY <2>1, <3>1, ThreadCovered
  <2>5. ASSUME NEW r \in Able(p, e), ClaimOrLose(p, e, r)
        PROVE  AllCovered' /\ WorkLive'
    <3>1. txn' = [txn EXCEPT ![p] = txn'[p]]
      BY <1>0, <2>5 DEF ClaimOrLose, Done
    <3>2. CASE txn' = [txn EXCEPT ![p].queue = @ \ {e}, ![p].free = @ \ {r}]
      <4>1. txn'[p].at = "tick" /\ \A u \in Task : txn'[p].claim[u] = txn[p].claim[u]
        BY <1>0, <2>1, <3>2 DEF Txn
      <4> QED
        BY <2>1, <3>1, <4>1, ThreadCovered
    <3>3. CASE Done(p)
      <4>1. txn'[p].at = "idle" /\ \A u \in Task : txn'[p].claim[u] = NoRobot
        BY <1>0, <3>3, NoTxnSays DEF Done
      <4> QED
        BY <2>1, <3>1, <4>1, ThreadCovered
    <3>4. CASE /\ Claimable(e[1], r)
               /\ txn' = [txn EXCEPT ![p].queue = @ \ {e}, ![p].free = @ \ {r},
                                     ![p].claim[e[1]] = r, ![p].todo = @ \cup {e[1]}]
      <4>1. txn'[p].at = "tick" /\ \A u \in Task \ {e[1]} : txn'[p].claim[u] = txn[p].claim[u]
        BY <1>0, <2>1, <2>3, <3>4 DEF Txn
      <4>2. status[e[1]] \in Live
        BY <3>4 DEF Claimable, Live
      <4> QED
        BY <2>1, <3>1, <4>1, <4>2, ThreadCovered
    <3> QED
      BY <2>5, <3>2, <3>3, <3>4 DEF ClaimOrLose
  <2> QED
    BY <2>2, <2>4, <2>5
<1> QED
  BY <1>1, <1>2

\* What a transaction has claimed stays claimed when it commits.
LEMMA CommitCovered ==
    ASSUME FleetTypeInv, FleetTypeInv', AllCovered, WorkLive, NEW p \in Proc,
           UNCHANGED <<bin, stock>>, txn' = [txn EXCEPT ![p] = txn'[p]], txn'[p].at # "start",
           \A t \in Task : txn'[p].claim[t] # NoRobot => txn[p].claim[t] # NoRobot,
           \A t \in Task : status'[t] \in {status[t], StatusWith(p)[t]}
                \/ (StatusWith(p)[t] \in Live /\ status'[t] \in Live)
    PROVE  AllCovered' /\ WorkLive'
<1>1. \A t \in Task : StatusWith(p)[t] = status[t] \/ (StatusWith(p)[t] \in Live /\ status[t] \in Live)
  BY DEF StatusWith, WorkLive, Live
<1>2. \A t \in Task : status'[t] \in Live <=> status[t] \in Live
  BY <1>1
<1>3. AllCovered'
  BY <1>2, NoNewClaim
<1>4. \A q \in Proc : q = p \/ txn'[q] = txn[q]
  BY DEF FleetTypeInv
<1>5. WorkLive'
  <2>1. {} \in SUBSET Task
    OBVIOUS
  <2> QED
    BY <1>2, <1>4, <2>1, WorkStays
<1> QED
  BY <1>3, <1>5

LEMMA LaunchCovered ==
    ASSUME FleetTypeInv, FleetTypeInv', AllCovered, WorkLive, NEW p \in Proc,
           TickEnd(p) \/ LaunchEnd(p) \/ LaunchStep(p)
    PROVE  AllCovered' /\ WorkLive'
<1>0. txn \in [Proc -> Txn] /\ txn' \in [Proc -> Txn] /\ StatusWith(p) \in [Task -> TaskStatus]
  BY ClaimsTyped DEF FleetTypeInv
<1>1. UNCHANGED <<bin, stock>>
  BY DEF TickEnd, LaunchEnd, LaunchStep, Launch, LaunchRefused, book
<1>2. CASE /\ status' = StatusWith(p)
           /\ Done(p)
  <2>1. txn' = [txn EXCEPT ![p] = txn'[p]] /\ txn'[p] = NoTxn
    BY <1>0, <1>2 DEF Done
  <2>2. txn'[p].at # "start" /\ \A t \in Task : txn'[p].claim[t] = NoRobot
    BY <2>1, NoTxnSays
  <2> QED
    BY <1>1, <1>2, <2>1, <2>2, CommitCovered
<1>3. CASE UNCHANGED status /\ txn' = [txn EXCEPT ![p].at = "launch", ![p].free = {}]
  <2>1. /\ txn' = [txn EXCEPT ![p] = txn'[p]] /\ txn'[p].at = "launch"
        /\ \A t \in Task : txn'[p].claim[t] = txn[p].claim[t]
    <3>1. txn'[p] = [txn[p] EXCEPT !.at = "launch", !.free = {}] /\ txn[p] \in Txn
      BY <1>0, <1>3
    <3>2. txn'[p].at = "launch" /\ txn'[p].claim = txn[p].claim
      BY <3>1 DEF Txn
    <3>3. txn' = [txn EXCEPT ![p] = txn'[p]]
      BY <1>0, <1>3, <3>1
    <3> QED
      BY <3>2, <3>3
  <2> QED
    BY <1>1, <1>3, <2>1, CommitCovered
<1>4. ASSUME NEW t \in Task, Launch(p, t)
      PROVE  AllCovered' /\ WorkLive'
  <2>1. /\ txn' = [txn EXCEPT ![p] = txn'[p]] /\ txn'[p].at = "launch"
        /\ \A u \in Task : txn'[p].claim[u] = NoRobot
    BY <1>0, <1>4 DEF Launch, Txn, NoClaim
  <2>2. \A u \in Task \ {t} : status'[u] = StatusWith(p)[u]
    BY <1>0, <1>4 DEF Launch
  <2>3. StatusWith(p)[t] \in Live /\ status'[t] \in Live
    BY <1>0, <1>4 DEF Launch, Live
  <2> QED
    BY <1>1, <2>1, <2>2, <2>3, CommitCovered
<1>5. ASSUME NEW t \in Task, LaunchRefused(p, t)
      PROVE  AllCovered' /\ WorkLive'
  <2>1. /\ txn' = [txn EXCEPT ![p] = txn'[p]] /\ txn'[p].at = "launch" /\ UNCHANGED status
        /\ \A u \in Task : txn'[p].claim[u] = txn[p].claim[u]
    BY <1>0, <1>5 DEF LaunchRefused, Txn, book
  <2> QED
    BY <1>1, <2>1, CommitCovered
<1> QED
  BY <1>2, <1>3, <1>4, <1>5 DEF TickEnd, LaunchEnd, LaunchStep

\* A row that is free for p is not claimed and not being started by another.
LEMMA FirmRows ==
    ASSUME FleetTypeInv, Firm, NEW p \in Proc, NEW t \in Task, TaskFree(p, t)
    PROVE  \A q \in Proc \ {p} : /\ txn[q].claim[t] = NoRobot
                                 /\ txn[q].at = "start" => txn[q].task # t
  BY DEF TaskFree, TaskRows, Firm, Steady

LEMMA StartCovered ==
    ASSUME FleetTypeInv, FleetTypeInv', Firm, AllCovered, WorkLive, NEW p \in Proc, NEW t \in Task,
           StartRead(p, t) \/ StartWrite(p) \/ StartRefused(p)
    PROVE  AllCovered' /\ WorkLive'
<1>0. txn \in [Proc -> Txn] /\ status \in [Task -> TaskStatus]
  BY DEF FleetTypeInv, FleetTypeOK
<1>1. CASE StartRead(p, t) \/ StartRefused(p)
  <2>1. txn' = [txn EXCEPT ![p] = txn'[p]] /\ UNCHANGED <<day, book>>
    BY <1>0, <1>1 DEF StartRead, StartRefused, Begin, Done
  <2>2. \A u \in Task : txn'[p].claim[u] = NoRobot
    <3>1. CASE StartRead(p, t)
      BY <1>0, <3>1 DEF StartRead, Begin, NoTxn, NoClaim
    <3>2. CASE StartRefused(p)
      BY <1>0, <3>2, NoTxnSays DEF StartRefused, Done
    <3> QED
      BY <1>1, <3>1, <3>2
  <2>3. txn'[p].at = "start" => status[txn'[p].task] \in Live
    <3>1. CASE StartRead(p, t)
      BY <1>0, <3>1 DEF StartRead, Begin, NoTxn, Live
    <3>2. CASE StartRefused(p)
      BY <1>0, <3>2, NoTxnSays DEF StartRefused, Done
    <3> QED
      BY <1>1, <3>1, <3>2
  <2> QED
    BY <2>1, <2>2, <2>3, ThreadCovered
<1>2. CASE StartWrite(p)
  <2>1. PICK u \in Task : u = txn[p].task
    BY <1>2, WorkedOn DEF StartWrite
  <2>2. status[u] \in Live
    BY <1>2, <2>1 DEF WorkLive, StartWrite
  <2>3. txn' = [txn EXCEPT ![p] = NoTxn] /\ UNCHANGED <<bin, stock>>
    BY <1>2 DEF StartWrite, Done
  <2>4. \A v \in Task : status'[v] \in Live <=> status[v] \in Live
    BY <1>0, <1>2, <2>1, <2>2 DEF StartWrite, Live
  <2>5. AllCovered'
    BY <2>3, <2>4, NoNewClaim
  <2>6. WorkLive'
    <3>1. {} \in SUBSET Task
      OBVIOUS
    <3> QED
      BY <1>0, <2>3, <2>4, <3>1, NoTxnSays, WorkStays
  <2> QED
    BY <2>5, <2>6
<1> QED
  BY <1>1, <1>2

LEMMA CancelCovered ==
    ASSUME FleetTypeInv, FleetTypeInv', Firm, AllCovered, WorkLive, NEW p \in Proc, NEW t \in Task,
           CancelRead(p, t) \/ CancelWrite(p)
    PROVE  AllCovered' /\ WorkLive'
<1>0. txn \in [Proc -> Txn] /\ status \in [Task -> TaskStatus]
  BY DEF FleetTypeInv, FleetTypeOK
<1>1. CASE CancelRead(p, t)
  <2>1. /\ txn' = [txn EXCEPT ![p] = txn'[p]] /\ UNCHANGED <<day, book>> /\ txn'[p].at = "cancel"
        /\ \A u \in Task : txn'[p].claim[u] = NoRobot
    BY <1>0, <1>1 DEF CancelRead, Begin, NoTxn, NoClaim
  <2> QED
    BY <2>1, ThreadCovered
<1>2. CASE CancelWrite(p)
  <2>1. PICK u \in Task : u = txn[p].task
    BY <1>2, WorkedOn DEF CancelWrite
  <2>2. /\ status' = [status EXCEPT ![u] = "CANCELLED"] /\ txn' = [txn EXCEPT ![p] = NoTxn]
        /\ UNCHANGED <<bin, stock>> /\ TaskFree(p, u)
    BY <1>2, <2>1 DEF CancelWrite, Done
  <2>3. AllCovered'
    BY <1>0, <2>2, NoNewClaim DEF Live
  <2>4. WorkLive'
    <3>1. PICK X \in SUBSET Task : X = {u}
      OBVIOUS
    <3>2. \A q \in Proc \ {p} : txn[q].claim[u] = NoRobot /\ (txn[q].at = "start" => txn[q].task # u)
      BY <2>2, FirmRows
    <3>3. \A v \in Task \ X : status'[v] = status[v]
      BY <1>0, <2>2, <3>1
    <3>4. \A q \in Proc : IF q = p THEN txn'[q] = NoTxn ELSE txn'[q] = txn[q]
      BY <1>0, <2>2
    <3>5. \A q \in Proc : txn'[q].claim[u] = NoRobot /\ (txn'[q].at = "start" => txn'[q].task # u)
      BY <3>2, <3>4, NoTxnSays
    <3>6. \A q \in Proc :
             /\ \A v \in Task : txn'[q].claim[v] # NoRobot => txn[q].claim[v] # NoRobot
             /\ txn'[q].at = "start" => txn[q].at = "start" /\ txn'[q].task = txn[q].task
      BY <3>4, NoTxnSays
    <3> QED
      BY <3>1, <3>3, <3>5, <3>6, WorkStays
  <2> QED
    BY <2>3, <2>4
<1> QED
  BY <1>1, <1>2

\* The row of an order that ends is locked by nobody.
LEMMA OrderOver ==
    ASSUME FleetTypeInv, FleetTypeInv', Firm, WorkLive, NEW t \in Task, UNCHANGED txn,
           \A q \in Proc : t \notin TaskRows(q),
           \A u \in Task \ {t} : status[u] \in Live => status'[u] \in Live
    PROVE  WorkLive'
<1>1. \A q \in Proc : txn[q].claim[t] = NoRobot /\ (txn[q].at = "start" => txn[q].task # t)
  BY DEF TaskRows, Firm, Steady
<1>2. PICK X \in SUBSET Task : X = {t}
  OBVIOUS
<1> QED
  BY <1>1, <1>2, WorkStays

LEMMA EndCovered ==
    ASSUME FleetTypeInv, FleetTypeInv', Firm, AllCovered, WorkLive, NEW t \in Task, OrderStep(t)
    PROVE  AllCovered' /\ WorkLive'
<1>0. status \in [Task -> TaskStatus] /\ UNCHANGED <<bin, txn>>
  BY DEF FleetTypeInv, FleetTypeOK, OrderStep, Complete, StartChained, ChainRefused, CompleteChained,
     End, Hold, Resume, StartEvidence, EndEvidence
<1>1. ASSUME NEW u \in Task, Complete(t) \/ CompleteChained(t, u)
      PROVE  AllCovered' /\ WorkLive'
  <2>1. Book(t)
    BY <1>1 DEF Complete, CompleteChained
  <2>2. /\ status'[t] = "COMPLETED"
        /\ \A v \in Task \ {t} : status'[v] \in Live <=> status[v] \in Live
    BY <1>0, <1>1 DEF Complete, CompleteChained, Chainable, Live
  <2>3. \A v \in Task : status'[v] \in Live => status[v] \in Live
    BY <2>1, <2>2 DEF Book, Live
  <2>4. AllCovered'
    BY <1>0, <2>1, <2>2, <2>3, BookCovered
  <2>5. \A q \in Proc : t \notin TaskRows(q)
    BY <2>1 DEF Book, Unlocked
  <2> QED
    BY <1>0, <2>2, <2>4, <2>5, OrderOver
<1>2. CASE StartChained(t) \/ \E r \in Robot : StartEvidence(t, r)
  <2>1. /\ UNCHANGED stock
        /\ \A v \in Task : status'[v] \in Live <=> status[v] \in Live
    BY <1>0, <1>2 DEF StartChained, StartEvidence, Live
  <2>2. {} \in SUBSET Task
    OBVIOUS
  <2>3. AllCovered'
    BY <1>0, <2>1, NoNewClaim
  <2> QED
    BY <1>0, <2>1, <2>2, <2>3, WorkStays
<1>3. CASE ChainRefused(t) \/ Hold(t) \/ Resume(t)
  <2>1. UNCHANGED <<stock, status>>
    BY <1>3 DEF ChainRefused, Hold, Resume
  <2>2. AllCovered'
    BY <1>0, <2>1, NoNewClaim
  <2>3. WorkLive'
    BY <1>0, <2>1 DEF WorkLive
  <2> QED
    BY <2>2, <2>3
<1>4. CASE \/ \E to \in {"FAILED", "CANCELLED"} : End(t, to)
           \/ \E to \in {"COMPLETED", "CANCELLED"} : EndEvidence(t, to)
  <2>1. PICK to \in {"FAILED", "CANCELLED", "COMPLETED"} : status' = [status EXCEPT ![t] = to]
    BY <1>4 DEF End, EndEvidence
  <2>2. UNCHANGED stock /\ \A q \in Proc : t \notin TaskRows(q)
    BY <1>4 DEF End, EndEvidence, Unlocked
  <2>3. \A v \in Task : v = t \/ status'[v] = status[v]
    BY <1>0, <2>1
  <2>4. status'[t] \notin Live
    BY <1>0, <2>1 DEF Live
  <2>5. AllCovered'
    BY <1>0, <2>2, <2>3, <2>4, NoNewClaim
  <2>6. WorkLive'
    BY <1>0, <2>2, <2>3, OrderOver
  <2> QED
    BY <2>5, <2>6
<1> QED
  BY <1>1, <1>2, <1>3, <1>4 DEF OrderStep

LEMMA CoveredInit == FleetInit => AllCovered /\ WorkLive
<1> SUFFICES ASSUME FleetInit
             PROVE  AllCovered /\ WorkLive
  OBVIOUS
<1>1. WorkLive
  BY NoTxnSays DEF FleetInit, WorkLive
<1>2. ASSUME NEW b \in Bin
      PROVE  Covered(b)
  <2> DEFINE made(op) == {t \in Task : Wish[t].op = op /\ day.made[t] = b}
  <2>1. day \in Days /\ b # NoBin /\ stock[b] = InitStock[b]
    BY FleetAssumption DEF FleetInit, NoBin
  <2>2. \A op : ClaimsOn(op, b) = made(op)
    BY <2>1 DEF FleetInit, ClaimsOn, Live
  <2>3. /\ Sum(made("out")) <= InitStock[b]
        /\ made("in") # {} => InitStock[b] = 0 /\ Cardinality(made("in")) = 1
    BY <2>1, MapThenSumIs, MadeAssumption
  <2> HIDE DEF made
  <2>4. \A t, u \in made("in") : t = u
    <3>1. made("in") \in SUBSET Task
      BY DEF made
    <3>2. IsFiniteSet(made("in"))
      BY <3>1, FS_Subset, FleetAssumption
    <3>3. made("in") # {} => \E x : made("in") = {x}
      BY <2>3, <3>2, FS_Singleton
    <3> QED
      BY <3>3
  <2> QED
    BY <2>1, <2>2, <2>3, <2>4, Zenon DEF Covered
<1> QED
  BY <1>1, <1>2 DEF AllCovered

LEMMA CoveredStep ==
    ASSUME FleetTypeInv, FleetTypeInv', Firm, AllCovered, WorkLive, [FleetNext]_fleetVars
    PROVE  AllCovered' /\ WorkLive'
<1>1. CASE UNCHANGED fleetVars
  <2>1. AllCovered'
    BY <1>1, NoNewClaim DEF fleetVars
  <2>2. WorkLive'
    BY <1>1 DEF fleetVars, WorkLive
  <2> QED
    BY <2>1, <2>2
<1>2. ASSUME NEW p \in Proc, NEW t \in Task, CreateRead(p, t) \/ StartRead(p, t) \/ CancelRead(p, t)
      PROVE  AllCovered' /\ WorkLive'
  BY <1>2, CreateCovered, StartCovered, CancelCovered
<1>3. ASSUME NEW p \in Proc, CreateStep(p)
      PROVE  AllCovered' /\ WorkLive'
  <2>1. CASE CreateChoose(p) \/ CreateLock(p) \/ CreateAgain(p)
    <3>1. PICK t \in Task : t = txn[p].task
      BY <2>1, WorkedOn DEF CreateChoose, CreateLock, CreateAgain, CreateAt
    <3> QED
      BY <2>1, CreateCovered
  <2> QED
    BY <1>3, <2>1, InsertCovered DEF CreateStep
<1>4. ASSUME NEW p \in Proc, NEW t \in Task,
             (\E n \in Priority : SetPriority(p, t, n)) \/ \E r \in Robot : Assign(p, t, r)
      PROVE  AllCovered' /\ WorkLive'
  <2>1. UNCHANGED <<stock, bin, txn>> /\ \A u \in Task : status'[u] \in Live <=> status[u] \in Live
    BY <1>4 DEF SetPriority, Assign, Claimable, Live, FleetTypeInv, FleetTypeOK
  <2>2. AllCovered'
    BY <2>1, NoNewClaim
  <2>3. WorkLive'
    <3>1. {} \in SUBSET Task
      OBVIOUS
    <3> QED
      BY <2>1, <3>1, WorkStays
  <2> QED
    BY <2>2, <2>3
<1>5. ASSUME NEW p \in Proc, TickRead(p) \/ TickClaim(p) \/ TickDeadlock(p) \/ TickEnd(p)
                               \/ LaunchStep(p) \/ LaunchEnd(p)
      PROVE  AllCovered' /\ WorkLive'
  BY <1>5, TickCovered, LaunchCovered
<1>6. ASSUME NEW p \in Proc, StartWrite(p) \/ StartRefused(p) \/ CancelWrite(p)
      PROVE  AllCovered' /\ WorkLive'
  <2>1. PICK t \in Task : t = txn[p].task
    BY <1>6, WorkedOn DEF StartWrite, StartRefused, CancelWrite
  <2> QED
    BY <1>6, StartCovered, CancelCovered
<1>7. ASSUME NEW t \in Task, OrderStep(t)
      PROVE  AllCovered' /\ WorkLive'
  BY <1>7, EndCovered
<1>8. ASSUME NEW r \in Robot, UpsertRobot(r)
      PROVE  AllCovered' /\ WorkLive'
  <2>1. UNCHANGED <<status, stock, bin, txn>>
    BY <1>8 DEF UpsertRobot
  <2>2. AllCovered'
    BY <2>1, NoNewClaim
  <2>3. WorkLive'
    BY <2>1 DEF WorkLive
  <2> QED
    BY <2>2, <2>3
<1> QED
  BY <1>1, <1>2, <1>3, <1>4, <1>5, <1>6, <1>7, <1>8 DEF FleetNext, OrderStep

LEMMA CoverInvariant == FleetSpec => []CoverInv
<1>1. FleetInit => CoverInv
  BY TypesInit, CoveredInit DEF CoverInv
<1>2. CoverInv /\ [FleetNext]_fleetVars => CoverInv'
  <2> SUFFICES ASSUME CoverInv, [FleetNext]_fleetVars
               PROVE  CoverInv'
    OBVIOUS
  <2>1. FleetTypeInv /\ FleetTypeInv' /\ day' = day
    BY TypesStep, DayKept DEF CoverInv
  <2>2. CASE Firm
    BY <2>1, <2>2, CoveredStep DEF CoverInv
  <2>3. CASE ~Firm
    BY <2>1, <2>3 DEF CoverInv, Firm
  <2> QED
    BY <2>2, <2>3
<1> QED
  BY <1>1, <1>2, PTL DEF FleetSpec

\* As long as no booking comes between the reads of a plan and no start is
\* overtaken between its look at the order and its writes (Firm), no bin is
\* promised twice: whoever creates, cancels and books orders at the same time, a
\* bin holds what all orders together will take from it, and the bin that an
\* order will fill stands empty and is claimed by no other (create_work_order,
\* lock_work_order_resource, apply_on_task_complete).
THEOREM BinsCovered == FleetSpec => []ClaimsCovered
<1>1. CoverInv => ClaimsCovered
  <2> SUFFICES ASSUME CoverInv, Firm, NEW b \in Bin
               PROVE  /\ Claimed("out", b) <= stock[b]
                      /\ ClaimsOn("in", b) # {} =>
                            stock[b] = 0 /\ Cardinality(ClaimsOn("in", b)) = 1
    BY DEF ClaimsCovered, Firm
  <2>1. Covered(b)
    BY DEF CoverInv, AllCovered
  <2>2. ClaimsOn("in", b) # {} => \E x : ClaimsOn("in", b) = {x}
    BY <2>1 DEF Covered
  <2>3. IsFiniteSet(ClaimsOn("in", b))
    BY ClaimsAreOrders, FS_Subset, FleetAssumption
  <2>4. ClaimsOn("in", b) # {} => Cardinality(ClaimsOn("in", b)) = 1
    BY <2>2, <2>3, FS_Singleton
  <2> QED
    BY <2>1, <2>4, ClaimedIsSum DEF Covered
<1> QED
  BY <1>1, CoverInvariant, PTL
=============================================================================
