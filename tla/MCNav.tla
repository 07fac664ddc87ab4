------------------------------- MODULE MCNav -------------------------------
(* Small instances of NavServer: two robots that meet on two segments.     *)
EXTENDS NavServer, TLC

CONSTANTS r1, r2, move1, dock1, move2, s1, s2

MCRobot == {r1, r2}
MCNavCmd == {move1, dock1, move2}
MCRobotOf == (move1 :> r1) @@ (dock1 :> r1) @@ (move2 :> r2)
MCStepsOf == (move1 :> <<"nav", "dock">>) @@ (dock1 :> <<"dock">>) @@ (move2 :> <<"wait">>)
MCDisturbed == {r1}
MCDocks == {dock1}
MCSegment == {s1, s2}
MCSegsOf == (move1 :> <<s1, s2>>) @@ (dock1 :> <<>>) @@ (move2 :> <<s2>>)
=============================================================================
