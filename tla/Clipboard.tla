----------------------------- MODULE Clipboard -----------------------------
(***************************************************************************)
(* Clipboard synchronisation between two machines with a session           *)
(* (ClipboardManager::start_sync of kmflow-daemon, clipboard.rs, and the   *)
(* clipboard tasks and branches of peer_session in lib.rs).                *)
(*                                                                         *)
(* A text takes this way: the poller, which reads the clipboard every      *)
(* 500 ms and hands over a text whose hash differs from the shared one;    *)
(* the outgoing channel; the main loop, which writes it to a stream of its *)
(* own; the task of the other machine that accepts streams; a channel; the *)
(* other main loop; the incoming channel; the receiver, which stores the   *)
(* hash and writes the clipboard.  Poller and receiver share the hash, and *)
(* the main loop, which has everything else to do as well, waits at both   *)
(* ends of the way.                                                        *)
(***************************************************************************)
EXTENDS Naturals, Sequences, FiniteSets

CONSTANTS
    Peers,       \* the two machines
    Texts,       \* what can be copied; the hash tells texts apart
    Large,       \* texts beyond the window of a stream (a 10 MB text is sent)
    Nothing,     \* an empty clipboard, or one no tool can read
    NoHash,      \* the initial value 0 of the shared hash
    Capacity,    \* slots of each channel
    Copies,      \* bound on the number of copies
    Faults       \* bound on how often the clipboard tools fail or work again

ASSUME PeersAssumption == \E p, q \in Peers : p # q /\ Peers = {p, q}

ASSUME TextsAssumption ==
    /\ Nothing \notin Texts /\ NoHash \notin Texts \cup {Nothing} /\ Large \subseteq Texts
    /\ Capacity \in Nat \ {0} /\ Copies \in Nat /\ Faults \in Nat

VARIABLES
    board,    \* board[n]: the clipboard
    hash,     \* hash[n]: shared_hash, as the text it is the hash of
    poller,   \* poller[n]: what the poller is doing, and with which text
    out,      \* out[n]: the outgoing channel
    main,     \* main[n]: what the main loop is doing, and with which text
    streams,  \* streams[n]: texts on streams to n that n has not read
    acceptor, \* acceptor[n]: the text the accept task has read, or Nothing
    inbox,    \* inbox[n]: the channel from the accept task to the main loop
    incoming, \* incoming[n]: the channel from the main loop to the receiver
    receiver, \* receiver[n]: the text about to be written, or Nothing
    link,     \* the connection is up
    broken,   \* machines on which no clipboard tool works
    copied,   \* copied[n]: texts the user of n put on the clipboard (history)
    copies,   \* copies left (bound)
    faults    \* faults left (bound)

pollVars == <<poller, out>>
recvVars == <<incoming, receiver>>
wayVars  == <<main, streams, acceptor, inbox, link>>
userVars == <<broken, copied, copies, faults>>
vars == <<board, hash, pollVars, wayVars, recvVars, userVars>>

Other(n) == CHOOSE m \in Peers : m # n

Task(at, text) == [at |-> at, text |-> text]

Asleep   == Task("asleep", Nothing)
Select   == Task("select", Nothing)
Draining == Task("draining", Nothing)
Ended    == Task("ended", Nothing)

(* The clipboards hold what they held before the session.                  *)
Init == /\ board \in [Peers -> Texts \cup {Nothing}]
        /\ hash = [n \in Peers |-> NoHash]
        /\ poller = [n \in Peers |-> Asleep]
        /\ main = [n \in Peers |-> Select]
        /\ out = [n \in Peers |-> <<>>] /\ streams = out /\ inbox = out /\ incoming = out
        /\ acceptor = [n \in Peers |-> Nothing] /\ receiver = acceptor
        /\ link = TRUE /\ broken = {}
        /\ copied = [n \in Peers |-> {board[n]} \ {Nothing}]
        /\ copies = Copies /\ faults = Faults

Copy(n) ==
    /\ copies > 0
    /\ copies' = copies - 1
    /\ \E t \in Texts \ {board[n]} :
          /\ board' = [board EXCEPT ![n] = t]
          /\ copied' = [copied EXCEPT ![n] = @ \cup {t}]
    /\ UNCHANGED <<hash, pollVars, wayVars, recvVars, broken, faults>>

(* The tools of a machine fail from now on, or work again.                 *)
ToolsChange(n) ==
    /\ faults > 0
    /\ faults' = faults - 1
    /\ broken' = IF n \in broken THEN broken \ {n} ELSE broken \cup {n}
    /\ UNCHANGED <<board, hash, pollVars, wayVars, recvVars, copied, copies>>

-----------------------------------------------------------------------------
(* The poller.  read_clipboard: an error is no different from an empty     *)
(* clipboard.                                                              *)
Read(n) ==
    /\ poller[n] = Asleep
    /\ poller' = [poller EXCEPT ![n] = Task("read", IF n \in broken THEN Nothing ELSE board[n])]
    /\ UNCHANGED <<board, hash, out, wayVars, recvVars, userVars>>

(* The hash is loaded and compared; it is stored, and the text handed      *)
(* over, later on.  Mistakes: it is stored before it is compared; an empty *)
(* clipboard counts as a change.                                           *)
CompareStored(n) ==
    /\ poller[n].at = "read"
    /\ hash' = [hash EXCEPT ![n] = poller[n].text]
    /\ poller' = [poller EXCEPT ![n] = Asleep]
    /\ UNCHANGED <<board, out, wayVars, recvVars, userVars>>

CompareEmpty(n) ==
    /\ poller[n].at = "read"
    /\ poller' = [poller EXCEPT
          ![n] = IF @.text = hash[n] THEN Asleep ELSE Task("changed", @.text)]
    /\ UNCHANGED <<board, hash, out, wayVars, recvVars, userVars>>

Compare(n) ==
    /\ poller[n].at = "read"
    /\ poller' = [poller EXCEPT
          ![n] = IF @.text \in {hash[n], Nothing} THEN Asleep ELSE Task("changed", @.text)]
    /\ UNCHANGED <<board, hash, out, wayVars, recvVars, userVars>>

Store(n) ==
    /\ poller[n].at = "changed"
    /\ hash' = [hash EXCEPT ![n] = poller[n].text]
    /\ poller' = [poller EXCEPT ![n] = Task("sending", @.text)]
    /\ UNCHANGED <<board, out, wayVars, recvVars, userVars>>

(* outgoing_tx.send waits for a slot, and fails once the session returned. *)
HandOut(n) ==
    /\ poller[n].at = "sending"
    /\ \/ /\ main[n] # Ended /\ Len(out[n]) < Capacity
          /\ out' = [out EXCEPT ![n] = Append(@, poller[n].text)]
          /\ poller' = [poller EXCEPT ![n] = Asleep]
       \/ /\ main[n] = Ended
          /\ poller' = [poller EXCEPT ![n] = Ended]
          /\ UNCHANGED out
    /\ UNCHANGED <<board, hash, wayVars, recvVars, userVars>>

-----------------------------------------------------------------------------
(* The main loop and the accept task.  A text is written to a new stream:  *)
(* at once if it fits the window, else as fast as the other machine reads. *)
Relay(n) ==
    LET text == Head(out[n]) IN
    /\ main[n] = Select /\ out[n] # <<>>
    /\ out' = [out EXCEPT ![n] = Tail(@)]
    /\ \/ /\ link
          /\ streams' = [streams EXCEPT ![Other(n)] = Append(@, text)]
          /\ main' = [main EXCEPT ![n] = IF text \in Large THEN Task("writing", text) ELSE @]
       \/ ~link /\ UNCHANGED <<main, streams>>
    /\ UNCHANGED <<board, hash, poller, acceptor, inbox, link, recvVars, userVars>>

(* Streams are accepted in the order they were opened, and read to their   *)
(* end one at a time; who writes the last of them is done when it is read. *)
(* Mistake: the stream is dropped half read.                               *)
WriterAfterHalf(n) == main

WriterAfter(n) ==
    IF main[Other(n)].at = "writing" /\ Len(streams[n]) = 1
        THEN [main EXCEPT ![Other(n)] = Select] ELSE main

AcceptStream(n) ==
    /\ link /\ acceptor[n] = Nothing /\ streams[n] # <<>>
    /\ acceptor' = [acceptor EXCEPT ![n] = Head(streams[n])]
    /\ streams' = [streams EXCEPT ![n] = Tail(@)]
    /\ main' = WriterAfter(n)
    /\ UNCHANGED <<board, hash, pollVars, inbox, link, recvVars, userVars>>

(* clip_recv_tx.send, whose failure is ignored: the task goes on accepting *)
(* after the session has returned.  Mistake: it keeps the text.            *)
PassOnKeeping(n) ==
    /\ acceptor[n] # Nothing /\ main[n] # Ended /\ Len(inbox[n]) < Capacity
    /\ inbox' = [inbox EXCEPT ![n] = Append(@, acceptor[n])]
    /\ acceptor' = [acceptor EXCEPT ![n] = Nothing]
    /\ UNCHANGED <<board, hash, pollVars, main, streams, link, recvVars, userVars>>

PassOn(n) ==
    /\ acceptor[n] # Nothing
    /\ acceptor' = [acceptor EXCEPT ![n] = Nothing]
    /\ \/ /\ main[n] # Ended /\ Len(inbox[n]) < Capacity
          /\ inbox' = [inbox EXCEPT ![n] = Append(@, acceptor[n])]
       \/ main[n] = Ended /\ UNCHANGED inbox
    /\ UNCHANGED <<board, hash, pollVars, main, streams, link, recvVars, userVars>>

(* The main loop takes a text and waits for a slot of the receiver.        *)
TakeIn(n) ==
    /\ main[n] = Select /\ inbox[n] # <<>>
    /\ main' = [main EXCEPT ![n] = Task("passing", Head(inbox[n]))]
    /\ inbox' = [inbox EXCEPT ![n] = Tail(@)]
    /\ UNCHANGED <<board, hash, pollVars, streams, acceptor, link, recvVars, userVars>>

HandIn(n) ==
    /\ main[n].at = "passing" /\ Len(incoming[n]) < Capacity
    /\ incoming' = [incoming EXCEPT ![n] = Append(@, main[n].text)]
    /\ main' = [main EXCEPT ![n] = Select]
    /\ UNCHANGED <<board, hash, pollVars, streams, acceptor, inbox, link, receiver, userVars>>

(* A session that is back at its select! leaves its loop, for reasons of   *)
(* its own or because the other one has hung up, and waits for its capture *)
(* thread, with the channels still there and nobody to empty them.         *)
End(n) ==
    /\ main[n] = Select
    /\ main' = [main EXCEPT ![n] = Draining]
    /\ UNCHANGED <<board, hash, pollVars, streams, acceptor, inbox, link, recvVars, userVars>>

(* The capture thread, at the next physical event perhaps, is gone: the    *)
(* session returns, hangs up and drops its channels.  (The accept task     *)
(* keeps the connection open and goes on, unless the whole process ends,   *)
(* which closes the connection.)                                           *)
Return(n) ==
    /\ main[n] = Draining
    /\ main' = [main EXCEPT ![n] = Ended]
    /\ out' = [out EXCEPT ![n] = <<>>] /\ inbox' = [inbox EXCEPT ![n] = <<>>]
    /\ UNCHANGED <<board, hash, poller, streams, acceptor, link, recvVars, userVars>>

EndOfPeer(n) == (~link \/ main[Other(n)] = Ended) /\ End(n)

(* What was being written fails, what was not read is gone.                *)
ConnectionLost ==
    /\ link /\ link' = FALSE
    /\ streams' = [n \in Peers |-> <<>>]
    /\ main' = [n \in Peers |-> IF main[n].at = "writing" THEN Select ELSE main[n]]
    /\ UNCHANGED <<board, hash, pollVars, acceptor, inbox, recvVars, userVars>>

-----------------------------------------------------------------------------
(* The receiver: "Pre-update hash to suppress echo".  Mistake: the hash is *)
(* stored after the clipboard was written.                                 *)
ReceiveUnhashed(n) ==
    /\ receiver[n] = Nothing /\ incoming[n] # <<>>
    /\ receiver' = [receiver EXCEPT ![n] = Head(incoming[n])]
    /\ incoming' = [incoming EXCEPT ![n] = Tail(@)]
    /\ UNCHANGED <<board, hash, pollVars, wayVars, userVars>>

Receive(n) ==
    /\ receiver[n] = Nothing /\ incoming[n] # <<>>
    /\ receiver' = [receiver EXCEPT ![n] = Head(incoming[n])]
    /\ hash' = [hash EXCEPT ![n] = Head(incoming[n])]
    /\ incoming' = [incoming EXCEPT ![n] = Tail(@)]
    /\ UNCHANGED <<board, pollVars, wayVars, userVars>>

(* write_clipboard: when no tool works the text is dropped, the hash stays.*)
Write(n) ==
    /\ receiver[n] # Nothing
    /\ board' = IF n \in broken THEN board ELSE [board EXCEPT ![n] = receiver[n]]
    /\ receiver' = [receiver EXCEPT ![n] = Nothing]
    /\ UNCHANGED <<hash, pollVars, wayVars, incoming, userVars>>

-----------------------------------------------------------------------------
Poll(n) == Read(n) \/ Compare(n) \/ Store(n) \/ HandOut(n)

Loop(n) == Relay(n) \/ TakeIn(n) \/ HandIn(n)

Next == \/ \E n \in Peers : \/ Copy(n) \/ ToolsChange(n) \/ Poll(n) \/ Loop(n)
                            \/ End(n) \/ Return(n)
                            \/ AcceptStream(n) \/ PassOn(n) \/ Receive(n) \/ Write(n)
        \/ ConnectionLost

(* The timer fires again and again, and tasks that can run do; the end of  *)
(* the other session is heard.  Which branch select! takes is open, and    *)
(* nobody has to touch a device for a session to return.                   *)
Fairness == \A n \in Peers : /\ WF_vars(Poll(n)) /\ WF_vars(Loop(n)) /\ SF_vars(EndOfPeer(n))
                             /\ WF_vars(AcceptStream(n)) /\ WF_vars(PassOn(n))
                             /\ WF_vars(Receive(n) \/ Write(n))

Spec == Init /\ [][Next]_vars

FairSpec == Spec /\ Fairness

-----------------------------------------------------------------------------
(* What a channel can hold.                                                *)
Channel == {q \in Seq(Texts) : Len(q) <= Capacity}

(* The type invariant.                                                     *)
TypeOK ==
    /\ board \in [Peers -> Texts \cup {Nothing}]
    /\ hash \in [Peers -> Texts \cup {NoHash}]
    /\ poller \in [Peers -> [at : {"asleep", "read", "changed", "sending", "ended"},
                             text : Texts \cup {Nothing}]]
    /\ main \in [Peers -> [at : {"select", "writing", "passing", "draining", "ended"},
                           text : Texts \cup {Nothing}]]
    /\ out \in [Peers -> Channel] /\ inbox \in [Peers -> Channel]
    /\ incoming \in [Peers -> Channel]
    /\ streams \in [Peers -> Seq(Texts)]
    /\ acceptor \in [Peers -> Texts \cup {Nothing}]
    /\ receiver \in [Peers -> Texts \cup {Nothing}]
    /\ link \in BOOLEAN /\ broken \subseteq Peers /\ copied \in [Peers -> SUBSET Texts]
    /\ copies \in Nat /\ faults \in Nat

(* One text was copied, on one of the machines.                            *)
Alone == \A n, m \in Peers : \A t \in copied[n], u \in copied[m] : n = m /\ t = u

(* Loop suppression, as PLAN.html:407 promises it: a single text that came *)
(* from the peer is never sent back to it, whatever fails.                 *)
UnderWay(n) == {out[n][i] : i \in 1 .. Len(out[n])}
                   \cup {streams[Other(n)][i] : i \in 1 .. Len(streams[Other(n)])}

NoEcho == Alone => \A n \in Peers : UnderWay(n) \subseteq copied[n]

(* A text that was copied alone reaches the other machine for good, unless *)
(* a tool fails or the session ends first.                                 *)
Same == \A n, m \in Peers : board[n] = board[m]

Interrupted == faults < Faults \/ ~link \/ \E n \in Peers : main[n] \in {Draining, Ended}

Converges == []Alone => <>Interrupted \/ <>[]Same

(* The ring in which everyone waits for everyone: both main loops write a  *)
(* text that is not read, because both accept tasks wait for a slot that   *)
(* only a main loop frees.                                                 *)
Jam == \A n \in Peers : /\ main[n].at = "writing" /\ acceptor[n] # Nothing
                        /\ Len(inbox[n]) = Capacity

(* A session that left its loop keeps the other one waiting in the same    *)
(* way: its accept task waits for a slot that nobody frees before it       *)
(* returns, after the wait for its capture thread (lib.rs:808).            *)
Blocks(n) == main[n] = Draining /\ acceptor[n] # Nothing /\ Len(inbox[n]) = Capacity

(* The clipboard never keeps the main loop, which forwards the input and   *)
(* hears the peer, from its select!, except in the ring and while the      *)
(* other session waits for its capture thread with its channel full.       *)
MainLoopResponds ==
    \A n \in Peers :
        main[n].at \in {"writing", "passing"}
            ~> main[n].at \in {"select", "draining", "ended"} \/ Jam \/ Blocks(Other(n))

(* The return of one session makes the other one leave its loop, though    *)
(* that may be writing a text to a machine that has no session any more:   *)
(* the accept task lib.rs:441-479 reads on, whatever the channel held.     *)
EndFreesPeer ==
    \A n \in Peers : main[n] = Ended ~> main[Other(n)] \in {Draining, Ended}
=============================================================================
