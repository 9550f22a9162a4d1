---------------------------- MODULE EdgeDetector ----------------------------
(***************************************************************************)
(* The screen-edge detector of kmflow-daemon (edge.rs) and the cursor      *)
(* arithmetic its callers wrap around it (lib.rs).                         *)
(*                                                                         *)
(* A screen is a record [w, h, dz]: its logical width and height and the   *)
(* width of the corner dead zone, all in pixels.  A position is a record   *)
(* [x, y], a displacement a record [dx, dy].  The module has no state.     *)
(***************************************************************************)
EXTENDS Integers

Edges == {"Left", "Right", "Top", "Bottom"}

(* The edge on which the other machine sees us, given ours.                *)
Opposite == [e \in Edges |-> CASE e = "Right"  -> "Left"
                               [] e = "Left"   -> "Right"
                               [] e = "Top"    -> "Bottom"
                               [] e = "Bottom" -> "Top"]

(* At least one pixel: clamp panics on an empty range.                     *)
IsScreen(s) == s.w \in Nat \ {0} /\ s.h \in Nat \ {0} /\ s.dz \in Nat

Positions(s) == [x : 0 .. s.w - 1, y : 0 .. s.h - 1]

Centre(s) == [x |-> s.w \div 2, y |-> s.h \div 2]

(* Mistake: clamp to the size of the screen instead of its last pixel.     *)
ClampLate(v, max) == IF v < 0 THEN 0 ELSE IF v > max + 1 THEN max + 1 ELSE v

(* i32::clamp(0, max): the callers pass width - 1 and height - 1.          *)
Clamp(v, max) == IF v < 0 THEN 0 ELSE IF v > max THEN max ELSE v

MoveCursor(s, p, d) == [x |-> Clamp(p.x + d.dx, s.w - 1),
                        y |-> Clamp(p.y + d.dy, s.h - 1)]

(* Mistake: a band along every edge instead of the intersection of two.    *)
BlockedBand(s, p) == \/ p.y < s.dz
                     \/ p.y > s.h - s.dz
                     \/ p.x < s.dz
                     \/ p.x > s.w - s.dz

(* The dead zone: the intersection of two bands, in in_corner's own terms. *)
InCorner(s, p) == /\ p.y < s.dz \/ p.y > s.h - s.dz
                  /\ p.x < s.dz \/ p.x > s.w - s.dz

(* The border a target edge stands for.                                    *)
AtBorder(s, edge, p) == \/ edge = "Right"  /\ p.x >= s.w - 1
                        \/ edge = "Left"   /\ p.x <= 0
                        \/ edge = "Top"    /\ p.y <= 0
                        \/ edge = "Bottom" /\ p.y >= s.h - 1

(* check(): does the cursor at p trigger the target edge?                  *)
Hits(s, edge, p) == ~InCorner(s, p) /\ AtBorder(s, edge, p)
=============================================================================
