---------------------------- MODULE FocusHandoff ----------------------------
(***************************************************************************)
(* What kmflow promises about focus, with everything but focus left out.   *)
(* Of two peers each is local or remote - its input drives its own screen, *)
(* or the other's.  A peer that becomes remote, or gives focus back, owes  *)
(* the other one a notice as long as the link works; hearing a notice      *)
(* makes a peer local.  A notice may be lost on a link that works; a       *)
(* remote peer has then missed it.  A peer's session may end at any time,  *)
(* which makes it local, and the link may fail.                            *)
(***************************************************************************)
CONSTANTS PeerA, PeerB

Peers == {PeerA, PeerB}

Other(p) == IF p = PeerA THEN PeerB ELSE PeerA

VARIABLES
    remote,  \* the peers whose focus is on the other machine
    notice,  \* the peers that a notice is on its way to
    missed,  \* the remote peers that a notice was lost to since they took focus
    link     \* the link works

vars == <<remote, notice, missed, link>>

Init == remote = {} /\ notice = {} /\ missed = {} /\ link = TRUE

Notify(p) == notice' = IF link THEN notice \cup {Other(p)} ELSE notice

Take(p) == /\ p \notin remote
           /\ remote' = remote \cup {p}
           /\ Notify(p)
           /\ UNCHANGED <<missed, link>>

(* However p becomes local, what it missed no longer matters.              *)
BeLocal(p) == /\ remote' = remote \ {p}
              /\ missed' = missed \ {p}

GiveBack(p) == /\ p \in remote
               /\ BeLocal(p)
               /\ Notify(p)
               /\ UNCHANGED link

(* The notice heard, or lost, may not have been the only one on its way.   *)
Hear(p) == /\ p \in notice
           /\ BeLocal(p)
           /\ notice' \in {notice, notice \ {p}}
           /\ UNCHANGED link

Miss(p) == /\ p \in notice
           /\ missed' = missed \cup ({p} \cap remote)
           /\ notice' \in {notice, notice \ {p}}
           /\ UNCHANGED <<remote, link>>

(* The session of p ends; when its process dies the link goes with it.     *)
Leave(p) == /\ BeLocal(p)
            /\ link' \in {link, FALSE}
            /\ UNCHANGED notice

LinkFails == link' = FALSE /\ UNCHANGED <<remote, notice, missed>>

Next == \/ \E p \in Peers : Take(p) \/ GiveBack(p) \/ Hear(p) \/ Miss(p) \/ Leave(p)
        \/ LinkFails

Spec == Init /\ [][Next]_vars
=============================================================================
