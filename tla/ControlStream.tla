--------------------------- MODULE ControlStream ---------------------------
(***************************************************************************)
(* The control stream of a session, byte by byte: send_control and         *)
(* recv_control of kmflow-net (quic.rs:166-182), the handshake that opens  *)
(* the stream (lib.rs:263-396) and the select! loops that read it          *)
(* afterwards (lib.rs:482-778).                                            *)
(*                                                                         *)
(* A message is its length and then its body.  recv_control keeps what it  *)
(* has read in local buffers.  During the handshake nothing disturbs it;   *)
(* in the loops it is one branch of a select!, and is dropped, buffers and *)
(* all, whenever another branch is taken.                                  *)
(*                                                                         *)
(* Offsets count the bytes of one direction of the stream.  How many of    *)
(* the written bytes have reached the reader is no variable: a step may    *)
(* find any number of them.  The four bytes of a length are two here, of   *)
(* Base values each; a body is JSON, text without a zero byte.  What the   *)
(* messages do to focus is PeerSession.                                    *)
(***************************************************************************)
EXTENDS Integers, Sequences, EdgeDetector

CONSTANTS
    Initiator, Acceptor, \* the machine that connected, the one that accepted
    Versions,            \* PROTOCOL_VERSION of the builds there are
    NoEdge,              \* no edge configured: None
    Base,                \* values of a byte
    Letter,              \* the least byte of a JSON text
    Size,                \* Size[k]: bytes of the body of a message of kind k
    Turns                \* Turns[n]: bound on the other branches machine n takes

Nodes == {Initiator, Acceptor}

Peer(n) == IF n = Initiator THEN Acceptor ELSE Initiator

Kinds == {"Handshake", "HandshakeAck", "SwitchFocus", "ReleaseFocus"}

Prefix == 2

ASSUME NodesAssumption == Initiator # Acceptor /\ NoEdge \notin Edges

(* A body is shorter than Base, so that the high byte of a length is zero, *)
(* as the two high bytes of the real one are.                              *)
ASSUME BytesAssumption == /\ Base \in Nat /\ Letter \in 1 .. Base - 1
                          /\ Size \in [Kinds -> 1 .. Base - 1]
                          /\ Turns \in [Nodes -> Nat]

Message == [kind : Kinds, version : Versions, edge : Edges \cup {NoEdge}]

VARIABLES
    version,    \* version[n]: the build machine n runs
    configured, \* configured[n]: configured_edge
    edge,       \* edge[n]: target_edge
    phase,      \* phase[n]: where peer_session of machine n is
    sent,       \* sent[n]: what was written to n, with its offsets
    finished,   \* finished[n]: the peer has closed the stream to n
    start,      \* start[n]: the offset at which recv_control of n began
    heard,      \* heard[n]: the bodies that were decoded (history)
    turns,      \* turns[n]: other branches left (bound)
    up          \* the QUIC connection is alive

ends  == <<version, configured>>
vars  == <<version, configured, edge, phase, sent, finished, start, heard, turns, up>>

-----------------------------------------------------------------------------
(* The bytes.                                                              *)

(* What a message occupies: its length at `at`, its body up to `to`.       *)
Written(m, at) == [msg |-> m, at |-> at, to |-> at + Prefix + Size[m.kind]]

EndOf(stream) == IF stream = <<>> THEN 0 ELSE stream[Len(stream)].to

(* Byte b of what was written to n; the two bytes of a length, low first.  *)
Byte(n, b) ==
    LET w == sent[n][CHOOSE i \in 1 .. Len(sent[n]) :
                        sent[n][i].at <= b /\ b < sent[n][i].to]
    IN  IF b = w.at THEN w.to - w.at - Prefix
        ELSE IF b = w.at + 1 THEN 0 ELSE Letter

(* The length that recv_control takes from offset b.                       *)
Claim(n, b) == Byte(n, b) + Base * Byte(n, b + 1)

(* Where the message ends that it is reading: four bytes, then as many as  *)
(* they say.  Whole: both were written, and can arrive.                    *)
FrameEnd(n) == start[n] + Prefix + Claim(n, start[n])

Whole(n) == /\ EndOf(sent[n]) >= start[n] + Prefix
            /\ EndOf(sent[n]) >= FrameEnd(n)

(* A text with a zero byte in it is no JSON.                               *)
IsText(n, from, to) == \A b \in from .. to - 1 : Byte(n, b) # 0

(* What a text means: the message it is the body of; any, if there is none.*)
Meanings(n, from, to) ==
    LET bodies == {i \in 1 .. Len(sent[n]) :
                      sent[n][i].at + Prefix = from /\ sent[n][i].to = to}
    IN  IF bodies = {} THEN Message ELSE {sent[n][i].msg : i \in bodies}

-----------------------------------------------------------------------------
(* send_control; on a dead connection the error is ignored by the loops.   *)
SendControl(n, m) ==
    sent' = IF up
            THEN [sent EXCEPT ![Peer(n)] = Append(@, Written(m, EndOf(@)))]
            ELSE sent

(* The session leaves its loop.  It still holds the stream, unread, while  *)
(* it waits for the capture thread (lib.rs:808).                           *)
Break(n) == /\ phase' = [phase EXCEPT ![n] = "draining"]
            /\ UNCHANGED finished

(* peer_session returns; the stream and, after the handshake failed, the   *)
(* connection are dropped.  Mistake: the stream is kept open.              *)
EndSilently(n) ==
    /\ phase' = [phase EXCEPT ![n] = "ended"]
    /\ UNCHANGED finished

End(n) == /\ phase' = [phase EXCEPT ![n] = "ended"]
          /\ finished' = [finished EXCEPT ![Peer(n)] = TRUE]

Init ==
    /\ version \in [Nodes -> Versions]
    /\ configured \in [Nodes -> Edges \cup {NoEdge}]
    /\ edge = [n \in Nodes |-> IF configured[n] = NoEdge THEN "Right" ELSE configured[n]]
    /\ phase = [n \in Nodes |-> IF n = Initiator THEN "opening" ELSE "greeting"]
    /\ sent = [n \in Nodes |-> <<>>]
    /\ finished = [n \in Nodes |-> FALSE]
    /\ start = [n \in Nodes |-> 0]
    /\ heard = [n \in Nodes |-> <<>>]
    /\ turns = Turns
    /\ up = TRUE

(* The initiator opens the stream and sends its configured edge, if any.   *)
Greet(n) ==
    /\ phase[n] = "opening"
    /\ phase' = [phase EXCEPT ![n] = "greeting"]
    /\ SendControl(n, [kind |-> "Handshake", version |-> version[n],
                       edge |-> configured[n]])
    /\ UNCHANGED <<ends, edge, finished, start, heard, turns, up>>

-----------------------------------------------------------------------------
(* A configured edge stands; otherwise it is the opposite of the peer's.   *)
(* Mistakes: an edge the peer does not have is taken over; the peer's edge *)
(* is taken as it is.                                                      *)
InferUnchecked(n, m) == IF configured[n] = NoEdge THEN m.edge ELSE edge[n]

InferSame(n, m) == IF configured[n] = NoEdge /\ m.edge # NoEdge THEN m.edge ELSE edge[n]

Infer(n, m) ==
    IF configured[n] = NoEdge /\ m.edge # NoEdge THEN Opposite[m.edge] ELSE edge[n]

Expected(n) == IF n = Initiator THEN "HandshakeAck" ELSE "Handshake"

(* The handshake accepts the message it waits for, from a build of the     *)
(* same version.  The acceptor answers with the edge it has chosen.        *)
Welcome(n, m) ==
    /\ m.kind = Expected(n) /\ m.version = version[n]
    /\ edge' = [edge EXCEPT ![n] = Infer(n, m)]
    /\ phase' = [phase EXCEPT ![n] = "active"]
    /\ \/ n = Initiator /\ UNCHANGED sent
       \/ n = Acceptor /\ SendControl(n, [kind |-> "HandshakeAck",
                                          version |-> version[n],
                                          edge |-> Infer(n, m)])
    /\ UNCHANGED finished

Reject(n, m) ==
    /\ m.kind # Expected(n) \/ m.version # version[n]
    /\ End(n)
    /\ UNCHANGED <<edge, sent>>

(* The next call of recv_control begins where this one ended.  Mistake:    *)
(* it begins where this one began.                                         *)
NextCallAgain(n) == UNCHANGED start

NextCall(n) == start' = [start EXCEPT ![n] = FrameEnd(n)]

(* recv_control has its bytes, and they decode.                            *)
Hear(n) ==
    /\ phase[n] \in {"greeting", "active"} /\ Whole(n)
    /\ IsText(n, start[n] + Prefix, FrameEnd(n))
    /\ heard' = [heard EXCEPT ![n] = Append(@, [from |-> start[n] + Prefix, to |-> FrameEnd(n)])]
    /\ NextCall(n)
    /\ \E m \in Meanings(n, start[n] + Prefix, FrameEnd(n)) :
          \/ phase[n] = "greeting" /\ (Welcome(n, m) \/ Reject(n, m))
          \/ phase[n] = "active" /\ UNCHANGED <<edge, phase, sent, finished>>
    /\ UNCHANGED <<ends, turns, up>>

(* What it has read does not decode, the stream ends before it has enough, *)
(* or the connection is gone.  The handshake returns at once.              *)
RecvError(n) ==
    /\ phase[n] \in {"greeting", "active"}
    /\ \/ Whole(n) /\ ~IsText(n, start[n] + Prefix, FrameEnd(n))
       \/ ~Whole(n) /\ finished[n]
       \/ ~up
    /\ \/ phase[n] = "greeting" /\ End(n)
       \/ phase[n] = "active" /\ Break(n)
    /\ UNCHANGED <<ends, edge, sent, start, heard, turns, up>>

(* Another branch of select! is taken, and the pending recv_control is     *)
(* dropped: what it has read is gone, and the next call begins behind it,  *)
(* anywhere before the end of its message and of what was written.         *)
(* Some branches send a message.                                           *)
OtherBranch(n) ==
    /\ phase[n] = "active" /\ turns[n] > 0
    /\ turns' = [turns EXCEPT ![n] = @ - 1]
    /\ \E b \in start[n] .. EndOf(sent[n]) :
          /\ b >= start[n] + Prefix => b < FrameEnd(n)
          /\ start' = [start EXCEPT ![n] = b]
    /\ \/ UNCHANGED sent
       \/ \E k \in {"SwitchFocus", "ReleaseFocus"} :
             SendControl(n, [kind |-> k, version |-> version[n], edge |-> NoEdge])
    /\ UNCHANGED <<ends, edge, phase, finished, heard, up>>

(* A session ends for a reason of its own.                                 *)
Leave(n) ==
    /\ phase[n] = "active"
    /\ Break(n)
    /\ UNCHANGED <<ends, edge, sent, start, heard, turns, up>>

(* The capture thread has ended: that takes the next physical event, so    *)
(* nothing says that it ever does.                                         *)
Return(n) ==
    /\ phase[n] = "draining"
    /\ End(n)
    /\ UNCHANGED <<ends, edge, sent, start, heard, turns, up>>

-----------------------------------------------------------------------------
ConnectionLost ==
    /\ up /\ up' = FALSE
    /\ UNCHANGED <<ends, edge, phase, sent, finished, start, heard, turns>>

Task(n) == Greet(n) \/ Hear(n) \/ RecvError(n)

Next ==
    \/ \E n \in Nodes : Task(n) \/ OtherBranch(n) \/ Leave(n) \/ Return(n)
    \/ ConnectionLost

Spec == Init /\ [][Next]_vars

(* A live connection delivers its stream, and tasks that can run do.  No   *)
(* session has to leave, and the wait of one that left has no end of its   *)
(* own.                                                                    *)
Fairness == \A n \in Nodes : WF_vars(Task(n))

FairSpec == Spec /\ Fairness

-----------------------------------------------------------------------------
(* The type invariant.                                                     *)
TypeOK ==
    /\ version \in [Nodes -> Versions]
    /\ configured \in [Nodes -> Edges \cup {NoEdge}]
    /\ edge \in [Nodes -> Edges]
    /\ phase \in [Nodes -> {"opening", "greeting", "active", "draining", "ended"}]
    /\ sent \in [Nodes -> Seq([msg : Message, at : Nat, to : Nat])]
    /\ finished \in [Nodes -> BOOLEAN]
    /\ start \in [Nodes -> Nat]
    /\ heard \in [Nodes -> Seq([from : Nat, to : Nat])]
    /\ turns \in [Nodes -> Nat]
    /\ up \in BOOLEAN

(* However often recv_control is cut off half way, what a session handles  *)
(* is a message its peer sent, whole, in the order of sending and at most  *)
(* once: bytes taken for a length at a wrong place ask for more than a     *)
(* body, and a text that runs over the next length does not decode.        *)
HeardIsSent ==
    \A n \in Nodes :
        /\ \A i \in 1 .. Len(heard[n]) : \E j \in 1 .. Len(sent[n]) :
              heard[n][i] = [from |-> sent[n][j].at + Prefix, to |-> sent[n][j].to]
        /\ \A i, j \in 1 .. Len(heard[n]) : i < j => heard[n][i].to < heard[n][j].from

(* Where two machines have both finished the handshake, a configured edge  *)
(* is kept (lib.rs:300-311 and 345-352), and if one of them had none, the  *)
(* edges are opposite, or a cursor that leaves one screen would come back  *)
(* at the wrong side of the other.  Nobody compares two configured edges:  *)
(* those may be any two.                                                   *)
EdgesAgree ==
    (\A n \in Nodes : phase[n] = "active") =>
        /\ \A n \in Nodes : configured[n] # NoEdge => edge[n] = configured[n]
        /\ (\E n \in Nodes : configured[n] = NoEdge) =>
               edge[Initiator] = Opposite[edge[Acceptor]]

(* A session that has returned, after refusing the handshake or later on,  *)
(* takes the other one out of its loop, wherever recv_control is in the    *)
(* stream.  One that has only left its loop does not: until the capture    *)
(* thread ends the other hears nothing.                                    *)
EndIsHeard ==
    \A n \in Nodes : phase[n] = "ended" ~> phase[Peer(n)] \in {"draining", "ended"}
=============================================================================
