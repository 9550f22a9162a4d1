--------------------------- MODULE MCSharedState ---------------------------
(***************************************************************************)
(* Instances of SharedState for TLC.                                       *)
(***************************************************************************)
EXTENDS SharedState, TLC

(* The sessions of a daemon are alike.                                     *)
Sym == Permutations(Sessions)

-----------------------------------------------------------------------------
(* README.md:85: the chord gives the devices back.  The code only looks at *)
(* its own session: it is of no use while another one has the devices.     *)
ChordGivesBack ==
    [][~ChordHeld(pressed) /\ ChordHeld(pressed') =>
          \A s \in Sessions : Running(s) /\ capture[s] = "running" => ~asked'[s]]_vars
=============================================================================
