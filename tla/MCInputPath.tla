----------------------------- MODULE MCInputPath -----------------------------
(***************************************************************************)
(* Instances of InputPath for TLC: on one screen the user does Inputs      *)
(* things, on every other one of at most MaxSide by MaxSide pixels only    *)
(* one, which may reach the edge.                                          *)
(***************************************************************************)
EXTENDS InputPath

CONSTANTS MaxSide, MaxZone

Wide == [w |-> 7, h |-> 3, dz |-> 1]

MCScreens == [w : 1 .. MaxSide, h : 1 .. MaxSide, dz : 0 .. MaxZone]

(* Two ways to capture, one of them with two ways to read a keyboard, and  *)
(* two ways to replay.                                                     *)
MCPaths == {p \in Path : p.capture = "evdev" => ~p.kbd}

Still == [dx |-> 0, dy |-> 0, wheel |-> 0, tilt |-> 0, button |-> 0]

(* With Unit = 2: a fast and a slow motion, with and without something     *)
(* else in the same report.                                                *)
MCGestures ==
    {[Still EXCEPT !.dx = 6], [Still EXCEPT !.dx = -6], [Still EXCEPT !.dy = 6],
     [Still EXCEPT !.dy = -6],
     [Still EXCEPT !.dx = 2, !.wheel = 1], [Still EXCEPT !.dx = 2, !.dy = -2, !.button = 273],
     [Still EXCEPT !.dx = -3, !.dy = 1], [Still EXCEPT !.wheel = -2, !.tilt = 1],
     [Still EXCEPT !.button = 275]}

MCInit == /\ screen \in Screens /\ Start
          /\ inputs = IF screen = Wide THEN Inputs ELSE 1

MCSpec == MCInit /\ [][Next]_vars
=============================================================================
