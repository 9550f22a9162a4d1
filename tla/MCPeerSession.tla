--------------------------- MODULE MCPeerSession ---------------------------
(***************************************************************************)
(* Instances of PeerSession for TLC.  The two screens are strips of three  *)
(* pixels, side by side: the centre, the shared border and the far one.    *)
(***************************************************************************)
EXTENDS PeerSession

Strip == [w |-> 3, h |-> 1, dz |-> 0]

MCScreen == [n \in Nodes |-> Strip]

(* The acceptor infers the edge opposite to the one it is told.            *)
MCTargetEdge == [n \in Nodes |-> IF n = Initiator THEN "Right" ELSE Opposite["Right"]]

MCMoves == [dx : {-1, 1}, dy : {0}]

(* A first session: Daemon::new puts the cursor in the centre, no key is   *)
(* down and the cooldown that starts with the daemon is over.              *)
FreshInit == /\ Init
             /\ cursor = [n \in Nodes |-> Centre(Screen[n])]
             /\ phys = [n \in Nodes |-> {}]
             /\ cooling = [n \in Nodes |-> FALSE]

(* A later session of which one user is idle.  The keyboard that nobody    *)
(* touches, and the cooldown of the machine that is sent no motion, do not *)
(* matter.                                                                 *)
OneTypes ==
    /\ Init
    /\ \A n \in Nodes : IF budget[n] = 0 THEN phys[n] = {} ELSE ~cooling[n]

OneTypesSpec == OneTypes /\ [][Next]_vars

FreshSpec == FreshInit /\ [][Next]_vars

FairFreshSpec == FreshSpec /\ Fairness

(* How many events the users cause.  One is a crossing, the second one a   *)
(* frame, a third one queued behind it makes the frame a batch.            *)
Inputs(i, a) == [n \in Nodes |-> IF n = Initiator THEN i ELSE a]

AcceptorActs  == {Inputs(0, 3)}
InitiatorActs == {Inputs(3, 0)}
BothAct       == {Inputs(2, 1)}

-----------------------------------------------------------------------------
(* What a document of the repository says of the program, and the program  *)
(* does not do.                                                            *)
Quiet == /\ up
         /\ \A n \in Nodes : /\ mode[n] = "full" /\ captured[n] = <<>>
                             /\ ctrl[n] = <<>> /\ dgram[n] = {}
                             /\ ~torn[n] /\ ~missed[n]

(* PLAN.html:587: when focus switches, releases are sent for every tracked *)
(* key.  Once everything in flight was handled, a machine whose input is   *)
(* local holds no key down on its peer.                                    *)
SwitchReleasesKeys ==
    Quiet => \A n \in Nodes : ~focus[n] => held[Peer(n)] = {}
=============================================================================
