----------------------------- MODULE PeerSession -----------------------------
(***************************************************************************)
(* The two ends of one established kmflow session: peer_session of         *)
(* kmflow-daemon (lib.rs:398-811) on both machines, with their capture     *)
(* threads, the QUIC connection between them and the people at the two     *)
(* keyboards.                                                              *)
(*                                                                         *)
(* Each machine keeps a focus flag: FALSE, its input devices drive its own *)
(* screen; TRUE, they are grabbed and every captured event is forwarded to *)
(* the peer, which replays it.  The cursor reaching the target edge hands  *)
(* focus over; SwitchFocus and ReleaseFocus, on the reliable control       *)
(* stream, make the machine that hears them local again.  Events travel as *)
(* unreliable datagrams.                                                   *)
(*                                                                         *)
(* One action is one branch of the select! loop, run to its end: the       *)
(* branches of one session never interleave, those of the two machines and *)
(* the capture threads do.                                                 *)
(*                                                                         *)
(* A branch that is taken while recv_control has read part of a message    *)
(* loses that message: the read is torn.  ControlStream has this byte by   *)
(* byte; here it is the step CutOff.  The daemon has this one session      *)
(* (SharedState has what several make of the state they share).            *)
(***************************************************************************)
EXTENDS Integers, Sequences, FiniteSets, EdgeDetector, KeyTracking

CONSTANTS
    Initiator, Acceptor,  \* the machine that connected, the one that accepted
    Screen,               \* Screen[n]: [w, h, dz] of machine n
    TargetEdge,           \* TargetEdge[n]: where machine n looks for its peer
    Moves,                \* displacements one captured motion event can carry
    Emulators,            \* machines whose emulator could be created
    Interruptible,        \* machines whose capture has a shutdown fd (evdev)
    BatchLimit,           \* EVENT_BATCH_LIMIT
    FrameFit,             \* events that fit the connection's datagram size
    FifoDatagrams,        \* TRUE: the network keeps datagrams in order
    LossyDatagrams,       \* TRUE: the network may lose datagrams
    Budgets               \* bounds on the physical events of each machine

Nodes == {Initiator, Acceptor}

Peer(n) == IF n = Initiator THEN Acceptor ELSE Initiator

MoveEvent == [kind : {"move"}, dx : Int, dy : Int]
Event     == KeyEvent \cup MoveEvent
Frame     == [seq : Nat, events : Seq(Event)]

ASSUME NodesAssumption == Initiator # Acceptor

ASSUME KeysAssumption == IsFiniteSet(Keys) /\ Hotkey \subseteq Keys

ASSUME ScreenAssumption ==
    \A n \in Nodes : IsScreen(Screen[n]) /\ TargetEdge[n] \in Edges

ASSUME MovesAssumption == \A d \in Moves : d.dx \in Int /\ d.dy \in Int

ASSUME LimitsAssumption == /\ BatchLimit \in Nat \ {0}
                           /\ FrameFit \in Nat
                           /\ FifoDatagrams \in BOOLEAN
                           /\ LossyDatagrams \in BOOLEAN
                           /\ Budgets \subseteq [Nodes -> Nat]

VARIABLES
    mode,      \* mode[n]: where peer_session of machine n is
    focus,     \* focus[n]: focus_is_remote
    cursor,    \* cursor[n]: cursor_x, cursor_y
    cooling,   \* cooling[n]: last_focus_switch is less than EDGE_COOLDOWN ago
    pressed,   \* pressed[n]: pressed_keys and pressed_buttons
    seq,       \* seq[n]: seq_counter
    grab,      \* grab[n]: the value of the grab watch channel
    capture,   \* capture[n]: the blocking capture thread
    captured,  \* captured[n]: events captured and not yet handled
    phys,      \* phys[n]: keys physically held
    early,     \* early[n]: those held since before the session (history)
    budget,    \* budget[n]: physical events left (bound)
    held,      \* held[n]: keys the emulated device holds down
    ctrl,      \* ctrl[n]: control messages on their way to n, in order
    torn,      \* torn[n]: recv_control of n starts in the middle of a message
    missed,    \* missed[n]: n is remote, and lost a message since (history)
    dgram,     \* dgram[n]: frames on their way to n
    up,        \* the QUIC connection is alive
    shutdown   \* shutdown[n]: machine n's daemon was told to stop

daemonVars   == <<cursor, cooling>>
keyboardVars == <<phys, early, budget>>
readVars     == <<torn, missed>>
vars == <<mode, focus, cursor, cooling, pressed, seq, grab, capture, captured,
          phys, early, budget, held, ctrl, torn, missed, dgram, up, shutdown>>

-----------------------------------------------------------------------------
(* Where peer_session is: "full" in its main loop, "recvonly" in the loop  *)
(* entered when the capture channel closes, "draining" past cleanup and    *)
(* waiting for the capture thread, "ended" when it has returned.           *)
Modes   == {"full", "recvonly", "draining", "ended"}
Running(n) == mode[n] \in {"full", "recvonly"}

(* Tracked cursors, each on its own machine's screen.                      *)
Cursors ==
    {c \in [Nodes -> UNION {Positions(Screen[n]) : n \in Nodes}] :
        \A n \in Nodes : c[n] \in Positions(Screen[n])}

Control == {"SwitchFocus", "ReleaseFocus", "Fin"}

(* Mistake: of a batch, only the event that opened it is tracked.          *)
TrackedHeadOnly(n, evs) == After(pressed[n], <<Head(evs)>>)

Tracked(n, evs) == After(pressed[n], evs)

(* next_seq; its wrap at 2^32 is out of any bound here.  Mistake: the      *)
(* counter is used without being advanced.                                 *)
NextSeqStuck(s) == s

NextSeq(s) == s + 1

(* send_datagram fails on a dead connection and on a frame that is larger  *)
(* than a datagram may be.                                                 *)
Fits(evs) == up /\ Len(evs) <= FrameFit

SendFrame(n, s, evs) ==
    dgram' = IF Fits(evs)
             THEN [dgram EXCEPT ![Peer(n)] = @ \cup {[seq |-> s, events |-> evs]}]
             ELSE dgram

(* send_control; on a dead connection the error is ignored.                *)
SendControl(n, msg) ==
    ctrl' = IF up THEN [ctrl EXCEPT ![Peer(n)] = Append(@, msg)] ELSE ctrl

-----------------------------------------------------------------------------
(* The return of peer_session drops its control stream, which the peer     *)
(* sees as the end of the stream.  Mistake: the stream outlives it.        *)
HangUpSilently(n) == UNCHANGED ctrl

HangUp(n) == SendControl(n, "Fin")

(* Nobody calls recv_control again.                                        *)
StopReading(n) == /\ torn' = [torn EXCEPT ![n] = FALSE]
                  /\ missed' = [missed EXCEPT ![n] = FALSE]

(* From a break out of the loops to the await of the capture thread: flush *)
(* what is tracked if focus is remote, reset the shared state, close the   *)
(* capture channel; return at once if the capture thread is already gone.  *)
(* The break may follow a batch that was already tracked and numbered.     *)
EndSession(n, keys, s) ==
    /\ IF focus[n] /\ keys # {}
       THEN /\ \E evs \in Flushes(keys) : SendFrame(n, NextSeq(s), evs)
            /\ seq' = [seq EXCEPT ![n] = NextSeq(s)]
       ELSE /\ UNCHANGED dgram
            /\ seq' = [seq EXCEPT ![n] = s]
    /\ focus' = [focus EXCEPT ![n] = FALSE]
    /\ pressed' = [pressed EXCEPT ![n] = {}]
    /\ captured' = [captured EXCEPT ![n] = <<>>]
    /\ \/ /\ capture[n] = "running"
          /\ mode' = [mode EXCEPT ![n] = "draining"]
          /\ UNCHANGED ctrl
       \/ /\ capture[n] = "exited"
          /\ mode' = [mode EXCEPT ![n] = "ended"]
          /\ HangUp(n)
    /\ StopReading(n)
    /\ UNCHANGED <<daemonVars, grab, capture, keyboardVars, held, up, shutdown>>

(* The capture thread returns.  A session that waits for it ends.          *)
StopCapture(n) ==
    /\ capture[n] = "running"
    /\ capture' = [capture EXCEPT ![n] = "exited"]
    /\ \/ /\ mode[n] = "draining"
          /\ mode' = [mode EXCEPT ![n] = "ended"]
          /\ HangUp(n)
       \/ mode[n] # "draining" /\ UNCHANGED <<mode, ctrl>>

-----------------------------------------------------------------------------
(* The session starts after the handshake, with the loops about to run.    *)
(* The cursor and the cooldown are left over from whatever the daemon did  *)
(* before; the keyboard may have keys down.                                *)
Init ==
    /\ mode = [n \in Nodes |-> "full"]
    /\ focus = [n \in Nodes |-> FALSE]
    /\ cursor \in Cursors
    /\ cooling \in [Nodes -> BOOLEAN]
    /\ pressed = [n \in Nodes |-> {}]
    /\ seq = [n \in Nodes |-> 0]
    /\ grab = [n \in Nodes |-> FALSE]
    /\ capture = [n \in Nodes |-> "running"]
    /\ captured = [n \in Nodes |-> <<>>]
    /\ phys \in [Nodes -> SUBSET Keys]
    /\ early = phys
    /\ budget \in Budgets
    /\ held = [n \in Nodes |-> {}]
    /\ ctrl = [n \in Nodes |-> <<>>]
    /\ torn = [n \in Nodes |-> FALSE]
    /\ missed = [n \in Nodes |-> FALSE]
    /\ dgram = [n \in Nodes |-> {}]
    /\ up = TRUE
    /\ shutdown = [n \in Nodes |-> FALSE]

-----------------------------------------------------------------------------
(* The people and the devices.                                             *)

(* A physical event reaches the capture thread, which passes it on or, the *)
(* channel being closed, returns.  What is typed after the thread is gone  *)
(* never reaches the program.                                              *)
Physical(n, ev) ==
    /\ budget[n] > 0
    /\ budget' = [budget EXCEPT ![n] = @ - 1]
    /\ \/ /\ mode[n] = "full"
          /\ capture[n] = "running"
          /\ captured' = [captured EXCEPT ![n] = Append(@, ev)]
          /\ UNCHANGED <<capture, mode, ctrl>>
       \/ /\ mode[n] = "draining"
          /\ StopCapture(n)
          /\ UNCHANGED captured
    /\ UNCHANGED <<focus, daemonVars, pressed, seq, grab, held, readVars, dgram, up,
                   shutdown>>

PressKey(n) ==
    \E k \in Keys \ phys[n] :
        /\ Physical(n, [kind |-> "key", key |-> k, down |-> TRUE])
        /\ phys' = [phys EXCEPT ![n] = @ \cup {k}]
        /\ UNCHANGED early

ReleaseKey(n) ==
    \E k \in phys[n] :
        /\ Physical(n, KeyUp(k))
        /\ phys' = [phys EXCEPT ![n] = @ \ {k}]
        /\ early' = [early EXCEPT ![n] = @ \ {k}]

MoveMouse(n) ==
    \E d \in Moves :
        /\ Physical(n, [kind |-> "move", dx |-> d.dx, dy |-> d.dy])
        /\ UNCHANGED <<phys, early>>

(* No capture can be created, or next_event fails.                         *)
CaptureFails(n) ==
    /\ StopCapture(n)
    /\ UNCHANGED <<focus, daemonVars, pressed, seq, grab, captured, keyboardVars,
                   held, readVars, dgram, up, shutdown>>

(* The shutdown watcher writes to the capture's event fd.                  *)
CaptureInterrupted(n) ==
    /\ shutdown[n] /\ n \in Interruptible
    /\ CaptureFails(n)

-----------------------------------------------------------------------------
(* grab_tx.send: without a receiver it fails and the value stays.          *)
SetGrab(n, value) ==
    grab' = IF capture[n] = "running" THEN [grab EXCEPT ![n] = value] ELSE grab

(* Taking focus away from this machine: input goes to the peer from now    *)
(* on, and the capture thread is told to grab it.                          *)
SendSwitchLost(n) == UNCHANGED ctrl  \* Mistake: the peer is not told.

SendSwitch(n) == SendControl(n, "SwitchFocus")

GoRemote(n) ==
    /\ focus' = [focus EXCEPT ![n] = TRUE]
    /\ cursor' = [cursor EXCEPT ![n] = Centre(Screen[n])]
    /\ SetGrab(n, TRUE)
    /\ SendSwitch(n)

(* Hearing SwitchFocus or ReleaseFocus: this machine is the receiver.      *)
(* Mistakes: the capture thread is not told; the focus flag is kept.       *)
GoLocalGrabbing(n) ==
    /\ focus' = [focus EXCEPT ![n] = FALSE]
    /\ cursor' = [cursor EXCEPT ![n] = Centre(Screen[n])]
    /\ cooling' = IF mode[n] = "full" THEN [cooling EXCEPT ![n] = TRUE] ELSE cooling
    /\ UNCHANGED grab

GoLocalHalfway(n) ==
    /\ cursor' = [cursor EXCEPT ![n] = Centre(Screen[n])]
    /\ cooling' = IF mode[n] = "full" THEN [cooling EXCEPT ![n] = TRUE] ELSE cooling
    /\ SetGrab(n, FALSE)
    /\ UNCHANGED focus

GoLocal(n) ==
    /\ focus' = [focus EXCEPT ![n] = FALSE]
    /\ cursor' = [cursor EXCEPT ![n] = Centre(Screen[n])]
    /\ cooling' = IF mode[n] = "full" THEN [cooling EXCEPT ![n] = TRUE] ELSE cooling
    /\ SetGrab(n, FALSE)

-----------------------------------------------------------------------------
(* The branch of the captured events.                                      *)
Waiting(n) == mode[n] = "full" /\ captured[n] # <<>>

(* The emergency chord, looked at after the event that opens a turn only.  *)
Emergency(n) ==
    LET keys == Tracked(n, <<Head(captured[n])>>) IN
    /\ Waiting(n)
    /\ focus[n] /\ ChordHeld(keys)
    /\ pressed' = [pressed EXCEPT ![n] = keys]
    /\ captured' = [captured EXCEPT ![n] = Tail(@)]
    /\ focus' = [focus EXCEPT ![n] = FALSE]
    /\ SetGrab(n, FALSE)
    /\ seq' = [seq EXCEPT ![n] = NextSeq(@)]
    /\ \/ keys = {} /\ UNCHANGED dgram
       \/ keys # {} /\ \E evs \in Flushes(keys) : SendFrame(n, NextSeq(seq[n]), evs)
    /\ SendControl(n, "ReleaseFocus")
    /\ missed' = [missed EXCEPT ![n] = FALSE]
    /\ UNCHANGED <<mode, daemonVars, capture, keyboardVars, held, torn, up, shutdown>>

(* Focus is remote: everything waiting, up to the batch limit, is tracked  *)
(* and becomes one frame.  A frame that cannot be sent ends the session.   *)
BatchSize(n) == IF Len(captured[n]) < BatchLimit THEN Len(captured[n]) ELSE BatchLimit

Forward(n) ==
    LET batch == SubSeq(captured[n], 1, BatchSize(n))
        keys  == Tracked(n, batch)
    IN  /\ Waiting(n)
        /\ focus[n] /\ ~ChordHeld(Tracked(n, <<Head(captured[n])>>))
        /\ \/ /\ Fits(batch)
              /\ SendFrame(n, NextSeq(seq[n]), batch)
              /\ seq' = [seq EXCEPT ![n] = NextSeq(@)]
              /\ pressed' = [pressed EXCEPT ![n] = keys]
              /\ captured' = [captured EXCEPT
                    ![n] = SubSeq(@, BatchSize(n) + 1, Len(@))]
              /\ UNCHANGED <<mode, focus, daemonVars, grab, capture, keyboardVars,
                             held, ctrl, readVars, up, shutdown>>
           \/ ~Fits(batch) /\ EndSession(n, keys, NextSeq(seq[n]))

(* Focus is local: one event is tracked, and a motion event moves the      *)
(* cursor.  No cooldown applies to one's own mouse.                        *)
TrackLocal(n) ==
    LET ev == Head(captured[n])
        p  == MoveCursor(Screen[n], cursor[n], ev)
    IN  /\ Waiting(n)
        /\ ~focus[n]
        /\ pressed' = [pressed EXCEPT ![n] = Tracked(n, <<ev>>)]
        /\ captured' = [captured EXCEPT ![n] = Tail(@)]
        /\ \/ ev.kind = "key" /\ UNCHANGED <<focus, cursor, grab, ctrl>>
           \/ /\ ev.kind = "move"
              /\ ~Hits(Screen[n], TargetEdge[n], p)
              /\ cursor' = [cursor EXCEPT ![n] = p]
              /\ UNCHANGED <<focus, grab, ctrl>>
           \/ /\ ev.kind = "move"
              /\ Hits(Screen[n], TargetEdge[n], p)
              /\ GoRemote(n)
        /\ UNCHANGED <<mode, cooling, seq, capture, keyboardVars, held, readVars, dgram,
                       up, shutdown>>

(* The channel is closed and empty: carry on as a receiver only.           *)
CaptureClosed(n) ==
    /\ mode[n] = "full"
    /\ capture[n] = "exited" /\ captured[n] = <<>>
    /\ mode' = [mode EXCEPT ![n] = "recvonly"]
    /\ UNCHANGED <<focus, daemonVars, pressed, seq, grab, capture, captured,
                   keyboardVars, held, ctrl, readVars, dgram, up, shutdown>>

-----------------------------------------------------------------------------
(* The branches of the connection.                                         *)

(* The frames the network may deliver to n next.                           *)
Deliverable(n) ==
    {f \in dgram[n] : FifoDatagrams => \A g \in dgram[n] : f.seq <= g.seq}

(* The cursor's way through the events of a frame.                         *)
Walks(n, evs) ==
    {path \in [0 .. Len(evs) -> Positions(Screen[n])] :
        /\ path[0] = cursor[n]
        /\ \A i \in 1 .. Len(evs) :
              path[i] = IF evs[i].kind = "move"
                        THEN MoveCursor(Screen[n], path[i - 1], evs[i])
                        ELSE path[i - 1]}

HitsOnTheWay(n, evs, path) ==
    /\ ~cooling[n]
    /\ \E i \in 1 .. Len(evs) :
          evs[i].kind = "move" /\ Hits(Screen[n], TargetEdge[n], path[i])

Emulate(n, evs) ==
    held' = IF n \in Emulators THEN [held EXCEPT ![n] = After(@, evs)] ELSE held

(* A frame is ignored while focus is remote; it hands focus back when its  *)
(* motion reaches the target edge, and then none of it is replayed;        *)
(* otherwise it is replayed.                                               *)
RecvDatagram(n) ==
    /\ Running(n)
    /\ \E f \in Deliverable(n) :
          /\ dgram' = [dgram EXCEPT ![n] = @ \ {f}]
          /\ \/ focus[n] /\ UNCHANGED <<focus, cursor, grab, ctrl, held>>
             \/ /\ ~focus[n]
                /\ \E path \in Walks(n, f.events) :
                      \/ /\ HitsOnTheWay(n, f.events, path)
                         /\ GoRemote(n)
                         /\ UNCHANGED held
                      \/ /\ ~HitsOnTheWay(n, f.events, path)
                         /\ cursor' = [cursor EXCEPT ![n] = path[Len(f.events)]]
                         /\ Emulate(n, f.events)
                         /\ UNCHANGED <<focus, grab, ctrl>>
    /\ UNCHANGED <<mode, cooling, pressed, seq, capture, captured, keyboardVars, readVars,
                   up, shutdown>>

(* recv_control returns a message about focus.                             *)
HearFocus(n) ==
    /\ Running(n)
    /\ ~torn[n]
    /\ ctrl[n] # <<>> /\ Head(ctrl[n]) # "Fin"
    /\ ctrl' = [ctrl EXCEPT ![n] = Tail(@)]
    /\ GoLocal(n)
    /\ missed' = [missed EXCEPT ![n] = FALSE]
    /\ UNCHANGED <<mode, pressed, seq, capture, captured, keyboardVars, held, torn, dgram,
                   up, shutdown>>

(* Another branch is taken - one of the clipboard, say, which touches      *)
(* nothing here - and recv_control is dropped with what it has read: part  *)
(* of the next message, which is then lost and leaves the stream out of    *)
(* step, or, out of step, everything up to the border of two messages.     *)
CutOff(n) ==
    /\ Running(n)
    /\ \/ /\ ctrl[n] # <<>> /\ Head(ctrl[n]) # "Fin"
          /\ ctrl' = [ctrl EXCEPT ![n] = Tail(@)]
          /\ torn' = [torn EXCEPT ![n] = TRUE]
          /\ missed' = [missed EXCEPT ![n] = @ \/ focus[n]]
       \/ /\ torn[n]
          /\ torn' = [torn EXCEPT ![n] = FALSE]
          /\ UNCHANGED <<ctrl, missed>>
    /\ UNCHANGED <<mode, focus, daemonVars, pressed, seq, grab, capture, captured,
                   keyboardVars, held, dgram, up, shutdown>>

(* recv_control or recv_datagram fails for sure when the connection is     *)
(* gone, and at the end of the stream, wherever in a message it is met.    *)
Finished(n) == \E i \in 1 .. Len(ctrl[n]) : ctrl[n][i] = "Fin"

StreamOver(n) ==
    \/ ~up
    \/ torn[n] /\ Finished(n)
    \/ ctrl[n] # <<>> /\ Head(ctrl[n]) = "Fin"

(* What is read out of step may fail to decode, once more has come in.     *)
RecvError(n) ==
    /\ Running(n)
    /\ StreamOver(n) \/ (torn[n] /\ ctrl[n] # <<>>)
    /\ EndSession(n, pressed[n], seq[n])

HandleShutdown(n) ==
    /\ Running(n) /\ shutdown[n]
    /\ EndSession(n, pressed[n], seq[n])

CooldownExpires(n) ==
    /\ cooling[n]
    /\ cooling' = [cooling EXCEPT ![n] = FALSE]
    /\ UNCHANGED <<mode, focus, cursor, pressed, seq, grab, capture, captured,
                   keyboardVars, held, ctrl, readVars, dgram, up, shutdown>>

-----------------------------------------------------------------------------
(* The world around the sessions.                                          *)

(* Daemon::shutdown, or Stop over IPC.                                     *)
Shutdown(n) ==
    /\ ~shutdown[n]
    /\ shutdown' = [shutdown EXCEPT ![n] = TRUE]
    /\ UNCHANGED <<mode, focus, daemonVars, pressed, seq, grab, capture, captured,
                   keyboardVars, held, ctrl, readVars, dgram, up>>

(* Daemon::run returns on shutdown too, and the process may be gone before *)
(* the session's own branch ran: nothing is cleaned up, nothing is sent,   *)
(* and the peer's connection times out.                                    *)
ProcessExit(n) ==
    /\ shutdown[n] /\ mode[n] # "ended"
    /\ mode' = [mode EXCEPT ![n] = "ended"]
    /\ focus' = [focus EXCEPT ![n] = FALSE]
    /\ pressed' = [pressed EXCEPT ![n] = {}]
    /\ captured' = [captured EXCEPT ![n] = <<>>]
    /\ capture' = [capture EXCEPT ![n] = "exited"]
    /\ up' = FALSE
    /\ StopReading(n)
    /\ UNCHANGED <<daemonVars, seq, grab, keyboardVars, held, ctrl, dgram, shutdown>>

ConnectionLost ==
    /\ up /\ up' = FALSE
    /\ UNCHANGED <<mode, focus, daemonVars, pressed, seq, grab, capture, captured,
                   keyboardVars, held, ctrl, readVars, dgram, shutdown>>

LoseDatagram ==
    /\ LossyDatagrams
    /\ \E n \in Nodes : \E f \in dgram[n] : dgram' = [dgram EXCEPT ![n] = @ \ {f}]
    /\ UNCHANGED <<mode, focus, daemonVars, pressed, seq, grab, capture, captured,
                   keyboardVars, held, ctrl, readVars, up, shutdown>>

SessionStep(n) ==
    \/ Emergency(n) \/ Forward(n) \/ TrackLocal(n) \/ CaptureClosed(n)
    \/ RecvDatagram(n) \/ HearFocus(n) \/ CutOff(n) \/ RecvError(n) \/ HandleShutdown(n)

NodeStep(n) ==
    \/ PressKey(n) \/ ReleaseKey(n) \/ MoveMouse(n)
    \/ CaptureFails(n) \/ CaptureInterrupted(n)
    \/ SessionStep(n)
    \/ CooldownExpires(n) \/ Shutdown(n) \/ ProcessExit(n)

Next == (\E n \in Nodes : NodeStep(n)) \/ ConnectionLost \/ LoseDatagram

Spec == Init /\ [][Next]_vars

(* select! polls its branches in random order, so a branch that stays      *)
(* ready is taken.  Of all that should happen in the end this needs only   *)
(* the reading of the control stream: what is about to come is heard, and  *)
(* a stream or connection that is over is noticed.  Nothing obliges        *)
(* anybody to type or to stop a daemon, a capture thread to go on, the     *)
(* network to deliver a datagram, or a read to be cut off or to fail for   *)
(* what it reads out of step.                                              *)
Fairness ==
    \A n \in Nodes : WF_vars(HearFocus(n)) /\ WF_vars(StreamOver(n) /\ RecvError(n))

FairSpec == Spec /\ Fairness

-----------------------------------------------------------------------------
(* The type invariant.                                                     *)
TypeOK ==
    /\ mode \in [Nodes -> Modes]
    /\ focus \in [Nodes -> BOOLEAN]
    /\ cursor \in Cursors
    /\ cooling \in [Nodes -> BOOLEAN]
    /\ pressed \in [Nodes -> SUBSET Keys]
    /\ seq \in [Nodes -> Nat]
    /\ grab \in [Nodes -> BOOLEAN]
    /\ capture \in [Nodes -> {"running", "exited"}]
    /\ captured \in [Nodes -> Seq(Event)]
    /\ phys \in [Nodes -> SUBSET Keys]
    /\ early \in [Nodes -> SUBSET Keys]
    /\ budget \in [Nodes -> Nat]
    /\ held \in [Nodes -> SUBSET Keys]
    /\ ctrl \in [Nodes -> Seq(Control)]
    /\ torn \in [Nodes -> BOOLEAN]
    /\ missed \in [Nodes -> BOOLEAN]
    /\ dgram \in [Nodes -> SUBSET Frame]
    /\ up \in BOOLEAN
    /\ shutdown \in [Nodes -> BOOLEAN]

(* Both machines may believe the other one has the focus - both crossed    *)
(* their edges at once, and each ignores what the other forwards.  But     *)
(* never without a word about focus on its way that ends it (lib.rs:667-   *)
(* 680 and 708-718 against 740-759), unless one of the two has lost such a *)
(* word, torn by select!, since it took focus (quic.rs:174-181): then both *)
(* keyboards are dead until the emergency chord.                           *)
Noticed(n) == \E i \in 1 .. Len(ctrl[n]) : ctrl[n][i] # "Fin"

FocusConflictNoticed ==
    up /\ (\A n \in Nodes : focus[n]) => \E n \in Nodes : Noticed(n) \/ missed[n]

(* What the capture thread is told to do with the devices is what the      *)
(* session does with the events, for as long as there is a thread to tell: *)
(* no machine is left grabbed with a local focus, or forwarding ungrabbed  *)
(* input that its own screen reacts to as well.                            *)
GrabFollowsFocus ==
    \A n \in Nodes : Running(n) /\ capture[n] = "running" => grab[n] = focus[n]

(* The tracked keys plus the events still queued are exactly the keys that *)
(* went down during the session and are down: whichever branch consumes an *)
(* event tracks it, the ones drained into a batch too, so the emergency    *)
(* chord is neither missed for good nor seen where nobody holds it, and a  *)
(* flush releases neither more nor less than what is held.                 *)
PressedTracksKeyboard ==
    \A n \in Nodes : mode[n] = "full" /\ capture[n] = "running" =>
        After(pressed[n], captured[n]) = phys[n] \ early[n]

(* A sequence number names one frame for good and grows with every frame   *)
(* sent, the flush of the cleanup included: what a receiver would need to  *)
(* put frames in order is there, although none looks at it.                *)
SeqIdentifiesFrame ==
    \A n \in Nodes : \A f \in dgram[n] :
        /\ f.seq <= seq[Peer(n)]
        /\ \A g \in dgram[n] : f.seq = g.seq => f = g

(* A conflict of focus ends without anybody's help, as long as no machine  *)
(* has a torn control stream or has lost a notice to one (lib.rs:738).     *)
ConflictResolves ==
    (\A n \in Nodes : focus[n]) ~> \E n \in Nodes : ~focus[n] \/ torn[n] \/ missed[n]

(* The end of one session ends the other: no machine keeps forwarding, or  *)
(* waiting, for a peer whose session has returned.                         *)
TeardownPropagates ==
    (\E n \in Nodes : mode[n] = "ended") ~> \A n \in Nodes : ~Running(n)

-----------------------------------------------------------------------------
(* The focus of the two sessions is that of FocusHandoff: a notice is a    *)
(* control message that is about focus, on its way or lost.                *)
Abstract == INSTANCE FocusHandoff WITH
    PeerA  <- Initiator,
    PeerB  <- Acceptor,
    remote <- {n \in Nodes : focus[n]},
    notice <- {n \in Nodes : Noticed(n)},
    missed <- {n \in Nodes : missed[n]},
    link   <- up

(* Every run of the two sessions is a run of the promise about focus:      *)
(* whatever the loops do, crossing an edge, the emergency chord, a control *)
(* message heard and the end of a session are the only ways focus moves,   *)
(* each of the first two is told, and what is told is heard, torn or still *)
(* on its way.                                                             *)
ImplementsFocusHandoff == Abstract!Spec
=============================================================================
