------------------------- MODULE EdgeDetectorProofs -------------------------
(***************************************************************************)
(* What holds of the edge detector and the cursor on every screen.         *)
(***************************************************************************)
EXTENDS EdgeDetector, TLAPS

(* Re-centring puts the cursor on the screen.                              *)
LEMMA CentreOnScreen ==
    ASSUME NEW s, IsScreen(s)
    PROVE  Centre(s) \in Positions(s)
BY DEF IsScreen, Centre, Positions

(* Whatever the displacement, a moved cursor stays on the screen: the      *)
(* bounds given to clamp are the last column and the last row.             *)
THEOREM MoveStaysOnScreen ==
    ASSUME NEW s, IsScreen(s), NEW p \in Positions(s), NEW d,
           d.dx \in Int, d.dy \in Int
    PROVE  MoveCursor(s, p, d) \in Positions(s)
BY DEF IsScreen, MoveCursor, Clamp, Positions

(* On any screen of at least three pixels a side the centre triggers no    *)
(* edge, whatever the dead zone: a cursor re-centred by a focus switch     *)
(* never switches focus again without moving (lib.rs:671 "so next switch   *)
(* requires reaching edge again").                                         *)
THEOREM CentreIsQuiet ==
    ASSUME NEW s, IsScreen(s), s.w >= 3, s.h >= 3, NEW edge \in Edges
    PROVE  ~Hits(s, edge, Centre(s))
BY DEF IsScreen, Hits, AtBorder, Centre, Edges

(* An edge at least two dead zones long keeps a pixel that triggers it.    *)
THEOREM LongEdgeIsReachable ==
    ASSUME NEW s, IsScreen(s), NEW edge \in Edges,
           edge \in {"Left", "Right"} => s.h >= 2 * s.dz,
           edge \in {"Top", "Bottom"} => s.w >= 2 * s.dz
    PROVE  \E p \in Positions(s) : Hits(s, edge, p)
<1>. DEFINE lo(k) == IF s.dz < k THEN s.dz ELSE k - 1
<1>1. CASE edge = "Left"
  <2>. DEFINE p == [x |-> 0, y |-> lo(s.h)]
  <2>1. p \in Positions(s) /\ Hits(s, edge, p)
    BY <1>1 DEF IsScreen, Positions, Hits, InCorner, AtBorder
  <2>. QED  BY <2>1
<1>2. CASE edge = "Right"
  <2>. DEFINE p == [x |-> s.w - 1, y |-> lo(s.h)]
  <2>1. p \in Positions(s) /\ Hits(s, edge, p)
    BY <1>2 DEF IsScreen, Positions, Hits, InCorner, AtBorder
  <2>. QED  BY <2>1
<1>3. CASE edge = "Top"
  <2>. DEFINE p == [x |-> lo(s.w), y |-> 0]
  <2>1. p \in Positions(s) /\ Hits(s, edge, p)
    BY <1>3 DEF IsScreen, Positions, Hits, InCorner, AtBorder
  <2>. QED  BY <2>1
<1>4. CASE edge = "Bottom"
  <2>. DEFINE p == [x |-> lo(s.w), y |-> s.h - 1]
  <2>1. p \in Positions(s) /\ Hits(s, edge, p)
    BY <1>4 DEF IsScreen, Positions, Hits, InCorner, AtBorder
  <2>. QED  BY <2>1
<1>. QED  BY <1>1, <1>2, <1>3, <1>4 DEF Edges
=============================================================================
