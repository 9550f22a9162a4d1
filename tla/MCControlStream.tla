-------------------------- MODULE MCControlStream --------------------------
(***************************************************************************)
(* Instances of ControlStream for TLC.  With four values of a byte, the    *)
(* greetings are three bytes long and the focus messages two and one, so   *)
(* that a wrong length is made up by two or three messages.                *)
(***************************************************************************)
EXTENDS ControlStream

MCSize == [k \in Kinds |-> CASE k = "SwitchFocus"  -> 2
                             [] k = "ReleaseFocus" -> 1
                             [] OTHER              -> 3]

CONSTANTS InitiatorTurns, AcceptorTurns

MCTurns == [n \in Nodes |-> IF n = Initiator THEN InitiatorTurns ELSE AcceptorTurns]

(* Neither, one or both machines were configured; or their builds differ.  *)
MCInit ==
    /\ Init
    /\ \/ version[Initiator] # version[Acceptor]
          /\ \A n \in Nodes : configured[n] = NoEdge
       \/ version[Initiator] = version[Acceptor]
          /\ configured[Initiator] \in {NoEdge, "Right"}
          /\ configured[Acceptor] \in {NoEdge, "Top"}
    /\ \A n \in Nodes : version[n] <= version[Acceptor]
    /\ version[Initiator] = CHOOSE v \in Versions : \A u \in Versions : v <= u

MCSpec == MCInit /\ [][Next]_vars

FairMCSpec == MCSpec /\ Fairness

-----------------------------------------------------------------------------
(* README.md:98: control messages are "ordered, reliable".  A message sent *)
(* to a session on a live connection is heard, or the session leaves its   *)
(* loop.                                                                   *)
IsHeard(n, k) ==
    /\ k <= Len(sent[n])
    /\ \E i \in 1 .. Len(heard[n]) : heard[n][i].to = sent[n][k].to

SentIsHeard ==
    \A n \in Nodes : \A k \in 1 .. Turns[Peer(n)] + 1 :
        Len(sent[n]) >= k ~> \/ IsHeard(n, k)
                             \/ phase[n] \in {"draining", "ended"}
                             \/ ~up
=============================================================================
