------------------------------ MODULE MCFleet ------------------------------
(* A small instance of Fleet: four orders, two robots, three bins.          *)
EXTENDS Fleet, TLC

CONSTANTS h1, h2, poller

MCTask == 1 .. 4
MCRobot == 1 .. 2
MCBin == 1 .. 3
MCWish == [t \in MCTask |->
    CASE t = 1 -> [op |-> "out", qty |-> 1, bins |-> MCBin, named |-> FALSE]
      [] t = 2 -> [op |-> "out", qty |-> 1, bins |-> MCBin, named |-> FALSE]
      [] t = 3 -> [op |-> "in", qty |-> 1, bins |-> {1, 2}, named |-> TRUE]
      [] t = 4 -> [op |-> "in", qty |-> 1, bins |-> {2, 3}, named |-> TRUE]]
MCCapableOf == [t \in MCTask |-> IF t = 1 THEN {2} ELSE {1, 2}]
MCStock == [b \in MCBin |-> IF b = 1 THEN 1 ELSE 0]
MCPriority == {0, 1}
Day(m, n, a, b, u) ==
    [made |-> m, asks |-> n, upset |-> u,
     serves |-> (h1 :> a) @@ (h2 :> b) @@ (poller :> {"poll"})]
None == <<0, 0, 0, 0>>
OneOut == <<1, 0, 0, 0>>
OutAndIn == <<1, 0, 2, 0>>
CancelDays == {Day(OutAndIn, {}, {"cancel", "start"}, {}, {"cancel", "refused"})}
MCDays ==
    CancelDays \cup
    {Day(None, {1, 2, 3}, {"create", "cancel"}, {"create"}, {}),
     Day(OneOut, {3, 4}, {"create"}, {"create", "cancel"}, {}),
     Day(OutAndIn, {}, {"priority", "tick"}, {"assign"}, {}),
     Day(OutAndIn, {4}, {"create", "assign"}, {}, {}),
     Day(OutAndIn, {}, {"start", "cancel"}, {"start"}, {"start", "held", "refused", "unready"}),
     Day(OneOut, {2, 3}, {"create"}, {"create"}, {"plan"}),
     Day(OutAndIn, {}, {}, {}, {"upsert", "evidence", "unready"})}
=============================================================================
