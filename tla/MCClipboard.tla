---------------------------- MODULE MCClipboard ----------------------------
(***************************************************************************)
(* Instances of Clipboard for TLC: how the session finds the clipboards.   *)
(***************************************************************************)
EXTENDS Clipboard

(* Nothing was copied before the session.                                  *)
Empty == Init /\ board = [n \in Peers |-> Nothing]

(* With one slot a channel: on both machines a small text, a large one and *)
(* the large one again (after one from the peer) were copied, faster than  *)
(* they are read, so that each has the small one in its channel, the large *)
(* one on a stream that is still being written, and one to send; and then  *)
(* the clipboards got lost.                                                *)
Busy == \E x \in [Peers -> Large], y \in [Peers -> Texts \ Large] :
          /\ board = x /\ hash = x
          /\ poller = [n \in Peers |-> Asleep]
          /\ out = [n \in Peers |-> <<x[n]>>]
          /\ main = [n \in Peers |-> Task("writing", x[n])]
          /\ streams = [n \in Peers |-> <<x[Other(n)]>>]
          /\ inbox = [n \in Peers |-> <<y[Other(n)]>>]
          /\ acceptor = [n \in Peers |-> Nothing] /\ receiver = acceptor
          /\ incoming = [n \in Peers |-> <<>>]
          /\ link = TRUE /\ broken = Peers /\ copies = 0 /\ faults = 0
          /\ copied = [n \in Peers |-> {x[n], y[n]}]

MCSpec == (Empty \/ Busy) /\ [][Next]_vars /\ Fairness
=============================================================================
