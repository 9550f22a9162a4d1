-------------------------- MODULE PeerSessionProofs --------------------------
(***************************************************************************)
(* Theorems about the two sessions of PeerSession, for every screen, key   *)
(* set, batch limit, datagram size, kind of network and amount of typing.  *)
(***************************************************************************)
EXTENDS PeerSession, EdgeDetectorProofs, FiniteSetTheorems, SequenceTheorems, TLAPS

USE NodesAssumption

-----------------------------------------------------------------------------
(* Facts about the operators.                                              *)

LEMMA PeerIsOther ==
    ASSUME NEW n \in Nodes
    PROVE  Peer(n) \in Nodes /\ Peer(n) # n /\ Nodes = {n, Peer(n)}
BY DEF Nodes, Peer

LEMMA AfterType ==
    ASSUME NEW keys, NEW evs
    PROVE  After(keys, evs) \in SUBSET Keys
BY DEF After

(* A flush is a sequence of events, whatever order the sets are walked in. *)
LEMMA FlushType ==
    ASSUME NEW keys \in SUBSET Keys, NEW evs \in Flushes(keys)
    PROVE  evs \in Seq(Event)
<1>1. Cardinality(keys) \in Nat
  BY KeysAssumption, FS_Subset, FS_CardinalityType
<1>2. {KeyUp(k) : k \in keys} \subseteq Event
  <2>1. \A k \in keys : KeyUp(k) \in Event
    BY DEF KeyUp, Event, KeyEvent
  <2>. QED  BY <2>1
<1>3. evs \in [1 .. Cardinality(keys) -> Event]
  BY <1>2 DEF Flushes
<1>. QED  BY <1>1, <1>3

(* Moving a tracked cursor, or putting it back to the centre, leaves every *)
(* cursor on its screen.                                                   *)
LEMMA CursorPlaced ==
    ASSUME NEW n \in Nodes, cursor \in Cursors, NEW p \in Positions(Screen[n])
    PROVE  [cursor EXCEPT ![n] = p] \in Cursors
BY DEF Cursors

LEMMA CentrePlaced ==
    ASSUME NEW n \in Nodes
    PROVE  Centre(Screen[n]) \in Positions(Screen[n])
BY ScreenAssumption, CentreOnScreen

LEMMA MovedCursor ==
    ASSUME NEW n \in Nodes, cursor \in Cursors, NEW ev \in MoveEvent
    PROVE  MoveCursor(Screen[n], cursor[n], ev) \in Positions(Screen[n])
<1>1. cursor[n] \in Positions(Screen[n])
  BY DEF Cursors
<1>2. ev.dx \in Int /\ ev.dy \in Int
  BY DEF MoveEvent
<1>3. IsScreen(Screen[n])
  BY ScreenAssumption
<1>. QED  BY <1>1, <1>2, <1>3, MoveStaysOnScreen

(* What is left of the queue when its first m events were taken.           *)
LEMMA QueueSplit ==
    ASSUME NEW q \in Seq(Event), NEW m \in 0 .. Len(q)
    PROVE  /\ SubSeq(q, 1, m) \in Seq(Event)
           /\ Len(SubSeq(q, 1, m)) = m
           /\ \A i \in 1 .. m : SubSeq(q, 1, m)[i] = q[i]
           /\ SubSeq(q, m + 1, Len(q)) \in Seq(Event)
           /\ Len(SubSeq(q, m + 1, Len(q))) = Len(q) - m
           /\ \A i \in 1 .. Len(q) - m : SubSeq(q, m + 1, Len(q))[i] = q[m + i]
<1>1. Len(q) \in Nat /\ \A i \in 1 .. Len(q) : q[i] \in Event
  BY LenProperties, ElementOfSeq
<1>2. /\ SubSeq(q, 1, m) \in Seq(Event)
      /\ Len(SubSeq(q, 1, m)) = IF 1 <= m THEN m - 1 + 1 ELSE 0
      /\ \A i \in 1 .. m - 1 + 1 : SubSeq(q, 1, m)[i] = q[1 + i - 1]
  <2>1. \A i \in 1 .. m : q[i] \in Event
    BY <1>1
  <2>. QED  BY <1>1, <2>1, SubSeqProperties
<1>3. /\ SubSeq(q, m + 1, Len(q)) \in Seq(Event)
      /\ Len(SubSeq(q, m + 1, Len(q))) = IF m + 1 <= Len(q) THEN Len(q) - (m + 1) + 1 ELSE 0
      /\ \A i \in 1 .. Len(q) - (m + 1) + 1 :
            SubSeq(q, m + 1, Len(q))[i] = q[m + 1 + i - 1]
  <2>1. \A i \in m + 1 .. Len(q) : q[i] \in Event
    BY <1>1
  <2>2. m + 1 \in Int /\ Len(q) \in Int
    BY <1>1
  <2>. QED  BY <2>1, <2>2, SubSeqProperties
<1>. QED  BY <1>1, <1>2, <1>3

LEMMA BatchSizeType ==
    ASSUME NEW n \in Nodes, captured[n] \in Seq(Event), captured[n] # <<>>
    PROVE  BatchSize(n) \in 1 .. Len(captured[n])
<1>1. Len(captured[n]) \in Nat \ {0}
  BY EmptySeq
<1>. QED  BY <1>1, LimitsAssumption DEF BatchSize

-----------------------------------------------------------------------------
(* The pieces the actions share.                                           *)

LEMMA SendControlType ==
    ASSUME NEW n \in Nodes, NEW msg \in Control, TypeOK, SendControl(n, msg)
    PROVE  ctrl' \in [Nodes -> Seq(Control)]
<1>1. Append(ctrl[Peer(n)], msg) \in Seq(Control)
  BY PeerIsOther, AppendProperties DEF TypeOK
<1>. QED  BY <1>1, PeerIsOther DEF TypeOK, SendControl

LEMMA SendFrameType ==
    ASSUME NEW n \in Nodes, NEW s \in Nat, NEW evs \in Seq(Event), TypeOK,
           SendFrame(n, s, evs)
    PROVE  dgram' \in [Nodes -> SUBSET Frame]
<1>1. [seq |-> s, events |-> evs] \in Frame
  BY DEF Frame
<1>. QED  BY <1>1, PeerIsOther DEF TypeOK, SendFrame

LEMMA EndSessionType ==
    ASSUME NEW n \in Nodes, NEW keys \in SUBSET Keys, NEW s \in Nat, TypeOK,
           EndSession(n, keys, s)
    PROVE  TypeOK'
<1>1. NextSeq(s) \in Nat
  BY DEF NextSeq
<1>2. dgram' \in [Nodes -> SUBSET Frame] /\ seq' \in [Nodes -> Nat]
  <2>1. CASE focus[n] /\ keys # {}
    <3>1. PICK evs \in Flushes(keys) : SendFrame(n, NextSeq(s), evs)
      BY <2>1 DEF EndSession
    <3>2. evs \in Seq(Event)
      BY FlushType
    <3>3. dgram' \in [Nodes -> SUBSET Frame]
      BY <1>1, <3>1, <3>2, SendFrameType
    <3>4. seq' = [seq EXCEPT ![n] = NextSeq(s)]
      BY <2>1 DEF EndSession
    <3>. QED  BY <1>1, <3>3, <3>4 DEF TypeOK
  <2>2. CASE ~(focus[n] /\ keys # {})
    <3>1. UNCHANGED dgram /\ seq' = [seq EXCEPT ![n] = s]
      BY <2>2 DEF EndSession
    <3>. QED  BY <3>1 DEF TypeOK
  <2>. QED  BY <2>1, <2>2
<1>3. mode' \in [Nodes -> Modes] /\ ctrl' \in [Nodes -> Seq(Control)]
  <2>1. CASE capture[n] = "running"
    BY <2>1 DEF EndSession, TypeOK, Modes
  <2>2. CASE capture[n] = "exited"
    <3>1. "Fin" \in Control /\ SendControl(n, "Fin")
      BY <2>2 DEF EndSession, HangUp, Control
    <3>. QED  BY <2>2, <3>1, SendControlType DEF EndSession, TypeOK, Modes
  <2>. QED  BY <2>1, <2>2 DEF TypeOK
<1>4. captured' \in [Nodes -> Seq(Event)]
  <2>1. <<>> \in Seq(Event)
    OBVIOUS
  <2>. QED  BY <2>1 DEF EndSession, TypeOK
<1>5. torn' \in [Nodes -> BOOLEAN] /\ missed' \in [Nodes -> BOOLEAN]
  BY DEF EndSession, StopReading, TypeOK
<1>. QED  BY <1>2, <1>3, <1>4, <1>5 DEF EndSession, TypeOK, daemonVars, keyboardVars

LEMMA StopCaptureType ==
    ASSUME NEW n \in Nodes, TypeOK, StopCapture(n)
    PROVE  /\ mode' \in [Nodes -> Modes]
           /\ ctrl' \in [Nodes -> Seq(Control)]
           /\ capture' \in [Nodes -> {"running", "exited"}]
<1>1. CASE mode[n] = "draining"
  <2>1. "Fin" \in Control /\ SendControl(n, "Fin")
    BY <1>1 DEF StopCapture, HangUp, Control
  <2>. QED  BY <1>1, <2>1, SendControlType DEF StopCapture, TypeOK, Modes
<1>2. CASE mode[n] # "draining"
  BY <1>2 DEF StopCapture, TypeOK
<1>. QED  BY <1>1, <1>2

LEMMA PhysicalType ==
    ASSUME NEW n \in Nodes, NEW ev \in Event, TypeOK, Physical(n, ev),
           phys' \in [Nodes -> SUBSET Keys], early' \in [Nodes -> SUBSET Keys]
    PROVE  TypeOK'
<1>1. budget' \in [Nodes -> Nat]
  BY DEF Physical, TypeOK
<1>2. /\ mode' \in [Nodes -> Modes]
      /\ ctrl' \in [Nodes -> Seq(Control)]
      /\ capture' \in [Nodes -> {"running", "exited"}]
      /\ captured' \in [Nodes -> Seq(Event)]
  <2>1. CASE mode[n] = "full"
    <3>1. Append(captured[n], ev) \in Seq(Event)
      BY AppendProperties DEF TypeOK
    <3>2. /\ captured' = [captured EXCEPT ![n] = Append(@, ev)]
          /\ UNCHANGED <<capture, mode, ctrl>>
      BY <2>1 DEF Physical
    <3>. QED  BY <3>1, <3>2 DEF TypeOK
  <2>2. CASE mode[n] = "draining"
    BY <2>2, StopCaptureType DEF Physical, TypeOK
  <2>. QED  BY <2>1, <2>2 DEF Physical
<1>. QED  BY <1>1, <1>2 DEF Physical, TypeOK, daemonVars, readVars

LEMMA GoRemoteType ==
    ASSUME NEW n \in Nodes, TypeOK, GoRemote(n)
    PROVE  /\ focus' \in [Nodes -> BOOLEAN]
           /\ cursor' \in Cursors
           /\ grab' \in [Nodes -> BOOLEAN]
           /\ ctrl' \in [Nodes -> Seq(Control)]
<1>1. "SwitchFocus" \in Control /\ SendControl(n, "SwitchFocus")
  BY DEF GoRemote, SendSwitch, Control
<1>2. ctrl' \in [Nodes -> Seq(Control)]
  BY <1>1, SendControlType
<1>3. cursor' \in Cursors
  BY CursorPlaced, CentrePlaced DEF GoRemote, TypeOK
<1>. QED  BY <1>2, <1>3 DEF GoRemote, SetGrab, TypeOK

-----------------------------------------------------------------------------
(* Type correctness, one lemma per action that does more than set flags.   *)

LEMMA PhysicalStepsType ==
    ASSUME NEW n \in Nodes, TypeOK, PressKey(n) \/ ReleaseKey(n) \/ MoveMouse(n)
    PROVE  TypeOK'
<1>1. CASE PressKey(n)
  <2>1. PICK k \in Keys \ phys[n] :
          /\ Physical(n, [kind |-> "key", key |-> k, down |-> TRUE])
          /\ phys' = [phys EXCEPT ![n] = @ \cup {k}]
          /\ UNCHANGED early
    BY <1>1 DEF PressKey
  <2>2. [kind |-> "key", key |-> k, down |-> TRUE] \in Event
    BY DEF Event, KeyEvent
  <2>3. phys' \in [Nodes -> SUBSET Keys] /\ early' \in [Nodes -> SUBSET Keys]
    BY <2>1 DEF TypeOK
  <2>. QED  BY <2>1, <2>2, <2>3, PhysicalType
<1>2. CASE ReleaseKey(n)
  <2>1. PICK k \in phys[n] :
          /\ Physical(n, KeyUp(k))
          /\ phys' = [phys EXCEPT ![n] = @ \ {k}]
          /\ early' = [early EXCEPT ![n] = @ \ {k}]
    BY <1>2 DEF ReleaseKey
  <2>2. KeyUp(k) \in Event
    BY DEF Event, KeyEvent, KeyUp, TypeOK
  <2>3. phys' \in [Nodes -> SUBSET Keys] /\ early' \in [Nodes -> SUBSET Keys]
    BY <2>1 DEF TypeOK
  <2>. QED  BY <2>1, <2>2, <2>3, PhysicalType
<1>3. CASE MoveMouse(n)
  <2>1. PICK d \in Moves :
          /\ Physical(n, [kind |-> "move", dx |-> d.dx, dy |-> d.dy])
          /\ UNCHANGED <<phys, early>>
    BY <1>3 DEF MoveMouse
  <2>2. [kind |-> "move", dx |-> d.dx, dy |-> d.dy] \in Event
    BY MovesAssumption DEF Event, MoveEvent
  <2>3. phys' \in [Nodes -> SUBSET Keys] /\ early' \in [Nodes -> SUBSET Keys]
    BY <2>1 DEF TypeOK
  <2>. QED  BY <2>1, <2>2, <2>3, PhysicalType
<1>. QED  BY <1>1, <1>2, <1>3

LEMMA EmergencyType ==
    ASSUME NEW n \in Nodes, TypeOK, Emergency(n)
    PROVE  TypeOK'
<1>. DEFINE keys == Tracked(n, <<Head(captured[n])>>)
<1>1. captured[n] \in Seq(Event) /\ captured[n] # <<>>
  BY DEF TypeOK, Emergency, Waiting
<1>2. captured' \in [Nodes -> Seq(Event)]
  <2>1. Tail(captured[n]) \in Seq(Event)
    BY <1>1, HeadTailProperties
  <2>. QED  BY <2>1 DEF Emergency, TypeOK
<1>3. keys \in SUBSET Keys
  BY AfterType DEF Tracked
<1>4. pressed' \in [Nodes -> SUBSET Keys]
  BY <1>3 DEF Emergency, TypeOK
<1>5. NextSeq(seq[n]) \in Nat /\ seq' \in [Nodes -> Nat]
  BY DEF Emergency, TypeOK, NextSeq
<1>6. dgram' \in [Nodes -> SUBSET Frame]
  <2>1. CASE keys = {}
    BY <2>1 DEF Emergency, TypeOK
  <2>2. CASE keys # {}
    <3>1. PICK evs \in Flushes(keys) : SendFrame(n, NextSeq(seq[n]), evs)
      BY <2>2 DEF Emergency
    <3>2. evs \in Seq(Event)
      BY <1>3, FlushType
    <3>. QED  BY <1>5, <3>1, <3>2, SendFrameType
  <2>. QED  BY <2>1, <2>2
<1>7. ctrl' \in [Nodes -> Seq(Control)]
  <2>1. "ReleaseFocus" \in Control /\ SendControl(n, "ReleaseFocus")
    BY DEF Emergency, Control
  <2>. QED  BY <2>1, SendControlType
<1>8. /\ focus' \in [Nodes -> BOOLEAN]
      /\ grab' \in [Nodes -> BOOLEAN]
      /\ missed' \in [Nodes -> BOOLEAN]
  BY DEF Emergency, SetGrab, TypeOK
<1>9. UNCHANGED <<mode, cursor, cooling, capture, phys, early, budget, held, torn, up,
                 shutdown>>
  BY DEF Emergency, daemonVars, keyboardVars
<1>. QED  BY <1>2, <1>4, <1>5, <1>6, <1>7, <1>8, <1>9 DEF TypeOK

LEMMA ForwardType ==
    ASSUME NEW n \in Nodes, TypeOK, Forward(n)
    PROVE  TypeOK'
<1>. DEFINE m     == BatchSize(n)
            batch == SubSeq(captured[n], 1, m)
            keys  == Tracked(n, batch)
<1>1. captured[n] \in Seq(Event) /\ captured[n] # <<>>
  BY DEF TypeOK, Forward, Waiting
<1>2. m \in 0 .. Len(captured[n])
  <2>1. m \in 1 .. Len(captured[n]) /\ Len(captured[n]) \in Nat
    BY <1>1, BatchSizeType, LenProperties
  <2>. QED  BY <2>1
<1>3. batch \in Seq(Event) /\ SubSeq(captured[n], m + 1, Len(captured[n])) \in Seq(Event)
  BY <1>1, <1>2, QueueSplit
<1>4. keys \in SUBSET Keys
  BY AfterType DEF Tracked
<1>5. NextSeq(seq[n]) \in Nat
  BY DEF TypeOK, NextSeq
<1>6. CASE Fits(batch)
  <2>1. /\ SendFrame(n, NextSeq(seq[n]), batch)
        /\ seq' = [seq EXCEPT ![n] = NextSeq(@)]
        /\ pressed' = [pressed EXCEPT ![n] = keys]
        /\ captured' = [captured EXCEPT ![n] = SubSeq(@, m + 1, Len(@))]
        /\ UNCHANGED <<mode, focus, cursor, cooling, grab, capture, phys, early,
                       budget, held, ctrl, torn, missed, up, shutdown>>
    BY <1>6 DEF Forward, daemonVars, keyboardVars, readVars
  <2>2. dgram' \in [Nodes -> SUBSET Frame]
    BY <1>3, <1>5, <2>1, SendFrameType
  <2>3. /\ seq' \in [Nodes -> Nat]
        /\ pressed' \in [Nodes -> SUBSET Keys]
        /\ captured' \in [Nodes -> Seq(Event)]
    BY <1>3, <1>4, <1>5, <2>1 DEF TypeOK
  <2>. QED  BY <2>1, <2>2, <2>3 DEF TypeOK
<1>7. CASE ~Fits(batch)
  <2>1. EndSession(n, keys, NextSeq(seq[n]))
    BY <1>7 DEF Forward
  <2>. QED  BY <1>4, <1>5, <2>1, EndSessionType
<1>. QED  BY <1>6, <1>7

LEMMA TrackLocalType ==
    ASSUME NEW n \in Nodes, TypeOK, TrackLocal(n)
    PROVE  TypeOK'
<1>. DEFINE ev == Head(captured[n])
            p  == MoveCursor(Screen[n], cursor[n], ev)
<1>1. captured[n] \in Seq(Event) /\ captured[n] # <<>>
  BY DEF TypeOK, TrackLocal, Waiting
<1>2. ev \in Event /\ Tail(captured[n]) \in Seq(Event)
  BY <1>1, HeadTailProperties
<1>3. captured' \in [Nodes -> Seq(Event)]
  BY <1>2 DEF TrackLocal, TypeOK
<1>4. pressed' \in [Nodes -> SUBSET Keys]
  <2>1. Tracked(n, <<ev>>) \in SUBSET Keys
    BY AfterType DEF Tracked
  <2>. QED  BY <2>1 DEF TrackLocal, TypeOK
<1>5. /\ focus' \in [Nodes -> BOOLEAN]
      /\ cursor' \in Cursors
      /\ grab' \in [Nodes -> BOOLEAN]
      /\ ctrl' \in [Nodes -> Seq(Control)]
  <2>1. CASE ev.kind = "key"
    BY <2>1 DEF TrackLocal, TypeOK
  <2>2. CASE ev.kind = "move" /\ ~Hits(Screen[n], TargetEdge[n], p)
    <3>1. ev \in MoveEvent
      BY <1>2, <2>2 DEF Event, KeyEvent
    <3>2. cursor' = [cursor EXCEPT ![n] = p] /\ UNCHANGED <<focus, grab, ctrl>>
      BY <2>2 DEF TrackLocal
    <3>. QED  BY <3>1, <3>2, MovedCursor, CursorPlaced DEF TypeOK
  <2>3. CASE ev.kind = "move" /\ Hits(Screen[n], TargetEdge[n], p)
    <3>1. GoRemote(n)
      BY <2>3 DEF TrackLocal
    <3>. QED  BY <3>1, GoRemoteType
  <2>. QED  BY <2>1, <2>2, <2>3 DEF TrackLocal
<1>6. UNCHANGED <<mode, cooling, seq, capture, phys, early, budget, held, torn, missed,
                 dgram, up, shutdown>>
  BY DEF TrackLocal, keyboardVars, readVars
<1>. QED  BY <1>3, <1>4, <1>5, <1>6 DEF TypeOK

LEMMA RecvDatagramType ==
    ASSUME NEW n \in Nodes, TypeOK, RecvDatagram(n)
    PROVE  TypeOK'
<1>1. PICK f \in Deliverable(n) :
        /\ dgram' = [dgram EXCEPT ![n] = @ \ {f}]
        /\ \/ focus[n] /\ UNCHANGED <<focus, cursor, grab, ctrl, held>>
           \/ /\ ~focus[n]
              /\ \E path \in Walks(n, f.events) :
                    \/ /\ HitsOnTheWay(n, f.events, path)
                       /\ GoRemote(n)
                       /\ UNCHANGED held
                    \/ /\ ~HitsOnTheWay(n, f.events, path)
                       /\ cursor' = [cursor EXCEPT ![n] = path[Len(f.events)]]
                       /\ Emulate(n, f.events)
                       /\ UNCHANGED <<focus, grab, ctrl>>
  BY DEF RecvDatagram
<1>2. f \in Frame
  BY DEF Deliverable, TypeOK
<1>3. dgram' \in [Nodes -> SUBSET Frame]
  BY <1>1 DEF TypeOK
<1>4. /\ focus' \in [Nodes -> BOOLEAN]
      /\ cursor' \in Cursors
      /\ grab' \in [Nodes -> BOOLEAN]
      /\ ctrl' \in [Nodes -> Seq(Control)]
      /\ held' \in [Nodes -> SUBSET Keys]
  <2>1. CASE UNCHANGED <<focus, cursor, grab, ctrl, held>>
    BY <2>1 DEF TypeOK
  <2>2. CASE GoRemote(n) /\ UNCHANGED held
    BY <2>2, GoRemoteType DEF TypeOK
  <2>3. ASSUME NEW path \in Walks(n, f.events),
               cursor' = [cursor EXCEPT ![n] = path[Len(f.events)]],
               Emulate(n, f.events), UNCHANGED <<focus, grab, ctrl>>
        PROVE  /\ focus' \in [Nodes -> BOOLEAN]
               /\ cursor' \in Cursors
               /\ grab' \in [Nodes -> BOOLEAN]
               /\ ctrl' \in [Nodes -> Seq(Control)]
               /\ held' \in [Nodes -> SUBSET Keys]
    <3>1. Len(f.events) \in Nat
      BY <1>2 DEF Frame
    <3>2. path[Len(f.events)] \in Positions(Screen[n])
      BY <3>1 DEF Walks
    <3>3. cursor' \in Cursors
      BY <2>3, <3>2, CursorPlaced DEF TypeOK
    <3>4. held' \in [Nodes -> SUBSET Keys]
      BY <2>3, AfterType DEF Emulate, TypeOK
    <3>. QED  BY <2>3, <3>3, <3>4 DEF TypeOK
  <2>. QED  BY <1>1, <2>1, <2>2, <2>3
<1>5. UNCHANGED <<mode, cooling, pressed, seq, capture, captured, phys, early, budget,
                 torn, missed, up, shutdown>>
  BY DEF RecvDatagram, keyboardVars, readVars
<1>. QED  BY <1>3, <1>4, <1>5 DEF TypeOK

LEMMA HearFocusType ==
    ASSUME NEW n \in Nodes, TypeOK, HearFocus(n)
    PROVE  TypeOK'
<1>1. ctrl' \in [Nodes -> Seq(Control)]
  <2>1. Tail(ctrl[n]) \in Seq(Control)
    BY HeadTailProperties DEF HearFocus, TypeOK
  <2>. QED  BY <2>1 DEF HearFocus, TypeOK
<1>2. cursor' \in Cursors
  BY CursorPlaced, CentrePlaced DEF HearFocus, GoLocal, TypeOK
<1>3. /\ focus' \in [Nodes -> BOOLEAN]
      /\ cooling' \in [Nodes -> BOOLEAN]
      /\ grab' \in [Nodes -> BOOLEAN]
      /\ missed' \in [Nodes -> BOOLEAN]
  BY DEF HearFocus, GoLocal, SetGrab, TypeOK
<1>4. UNCHANGED <<mode, pressed, seq, capture, captured, phys, early, budget, held, torn,
                 dgram, up, shutdown>>
  BY DEF HearFocus, keyboardVars
<1>. QED  BY <1>1, <1>2, <1>3, <1>4 DEF TypeOK

LEMMA CutOffType ==
    ASSUME NEW n \in Nodes, TypeOK, CutOff(n)
    PROVE  TypeOK'
<1>1. ctrl' \in [Nodes -> Seq(Control)]
  <2>1. CASE ctrl[n] # <<>> /\ ctrl' = [ctrl EXCEPT ![n] = Tail(@)]
    <3>1. Tail(ctrl[n]) \in Seq(Control)
      BY <2>1, HeadTailProperties DEF TypeOK
    <3>. QED  BY <2>1, <3>1 DEF TypeOK
  <2>2. CASE UNCHANGED ctrl
    BY <2>2 DEF TypeOK
  <2>. QED  BY <2>1, <2>2 DEF CutOff
<1>2. torn' \in [Nodes -> BOOLEAN] /\ missed' \in [Nodes -> BOOLEAN]
  BY DEF CutOff, TypeOK
<1>. QED  BY <1>1, <1>2 DEF CutOff, TypeOK, daemonVars, keyboardVars

LEMMA InitType == Init => TypeOK
<1>. SUFFICES ASSUME Init PROVE TypeOK
  OBVIOUS
<1>1. <<>> \in Seq(Event) /\ <<>> \in Seq(Control)
  BY EmptySeq
<1>2. Budgets \subseteq [Nodes -> Nat]
  BY LimitsAssumption
<1>. QED  BY <1>1, <1>2 DEF Init, TypeOK, Modes

LEMMA NextType == TypeOK /\ [Next]_vars => TypeOK'
<1>. SUFFICES ASSUME TypeOK, [Next]_vars PROVE TypeOK'
  OBVIOUS
<1>1. CASE UNCHANGED vars
  BY <1>1 DEF vars, TypeOK
<1>2. CASE ConnectionLost
  BY <1>2 DEF ConnectionLost, TypeOK, daemonVars, keyboardVars, readVars
<1>3. CASE LoseDatagram
  BY <1>3 DEF LoseDatagram, TypeOK, daemonVars, keyboardVars, readVars
<1>4. ASSUME NEW n \in Nodes, NodeStep(n)
      PROVE  TypeOK'
  <2>1. CASE PressKey(n) \/ ReleaseKey(n) \/ MoveMouse(n)
    BY <2>1, PhysicalStepsType
  <2>2. CASE CaptureFails(n) \/ CaptureInterrupted(n)
    <3>1. CaptureFails(n)
      BY <2>2 DEF CaptureInterrupted
    <3>2. StopCapture(n)
      BY <3>1 DEF CaptureFails
    <3>. QED  BY <3>1, <3>2, StopCaptureType
                 DEF CaptureFails, TypeOK, daemonVars, keyboardVars, readVars
  <2>3. CASE Emergency(n)
    BY <2>3, EmergencyType
  <2>4. CASE Forward(n)
    BY <2>4, ForwardType
  <2>5. CASE TrackLocal(n)
    BY <2>5, TrackLocalType
  <2>6. CASE CaptureClosed(n)
    BY <2>6 DEF CaptureClosed, TypeOK, Modes, daemonVars, keyboardVars, readVars
  <2>7. CASE RecvDatagram(n)
    BY <2>7, RecvDatagramType
  <2>8. CASE HearFocus(n)
    BY <2>8, HearFocusType
  <2>9. CASE RecvError(n) \/ HandleShutdown(n)
    <3>1. EndSession(n, pressed[n], seq[n])
      BY <2>9 DEF RecvError, HandleShutdown
    <3>2. pressed[n] \in SUBSET Keys /\ seq[n] \in Nat
      BY DEF TypeOK
    <3>. QED  BY <3>1, <3>2, EndSessionType
  <2>10. CASE CooldownExpires(n)
    BY <2>10 DEF CooldownExpires, TypeOK, keyboardVars, readVars
  <2>11. CASE Shutdown(n)
    BY <2>11 DEF Shutdown, TypeOK, daemonVars, keyboardVars, readVars
  <2>12. CASE ProcessExit(n)
    <3>1. <<>> \in Seq(Event)
      BY EmptySeq
    <3>2. torn' \in [Nodes -> BOOLEAN] /\ missed' \in [Nodes -> BOOLEAN]
      BY <2>12 DEF ProcessExit, StopReading, TypeOK
    <3>. QED  BY <2>12, <3>1, <3>2 DEF ProcessExit, TypeOK, Modes, daemonVars, keyboardVars
  <2>13. CASE CutOff(n)
    BY <2>13, CutOffType
  <2>. QED  BY <1>4, <2>1, <2>2, <2>3, <2>4, <2>5, <2>6, <2>7, <2>8, <2>9, <2>10,
               <2>11, <2>12, <2>13 DEF NodeStep, SessionStep
<1>. QED  BY <1>1, <1>2, <1>3, <1>4 DEF Next

(* Every variable keeps its type: in particular every frame sent is a      *)
(* sequence of events under a natural number, every control message is one *)
(* of the three, and the cursor never leaves its screen.                   *)
THEOREM TypeCorrect == Spec => []TypeOK
BY InitType, NextType, PTL DEF Spec

-----------------------------------------------------------------------------
(* Focus.  With the types, each of the two invariants is inductive.  What  *)
(* a step can do to focus, grab, the control messages and the link:        *)

LEMMA EndSessionFocus ==
    ASSUME NEW n \in Nodes, NEW keys, NEW s, TypeOK, EndSession(n, keys, s)
    PROVE  /\ focus' = [focus EXCEPT ![n] = FALSE]
           /\ ~Running(n)' /\ \A m \in Nodes \ {n} : mode'[m] = mode[m]
           /\ UNCHANGED <<grab, capture, up>>
BY DEF EndSession, Running, TypeOK

LEMMA SameNotices ==
    ASSUME UNCHANGED ctrl
    PROVE  \A m \in Nodes : Noticed(m)' = Noticed(m)
BY DEF Noticed

LEMMA SendNotices ==
    ASSUME NEW n \in Nodes, NEW msg \in Control, TypeOK, SendControl(n, msg)
    PROVE  \A m \in Nodes :
              Noticed(m)' <=> Noticed(m) \/ (up /\ m = Peer(n) /\ msg # "Fin")
<1>1. CASE ~up
  BY <1>1 DEF SendControl, Noticed
<1>2. CASE up
  <2> DEFINE q == ctrl[Peer(n)]
  <2>1. q \in Seq(Control)
    BY PeerIsOther DEF TypeOK
  <2>2. ctrl' = [ctrl EXCEPT ![Peer(n)] = Append(q, msg)]
    BY <1>2 DEF SendControl
  <2>3. /\ Len(Append(q, msg)) = Len(q) + 1
        /\ \A i \in 1 .. Len(q) : Append(q, msg)[i] = q[i]
        /\ Append(q, msg)[Len(q) + 1] = msg
    BY <2>1, AppendProperties
  <2>4. Len(q) \in Nat
    BY <2>1
  <2>5. ASSUME NEW m \in Nodes, m # Peer(n)
        PROVE  Noticed(m)' = Noticed(m)
    BY <2>2, <2>5 DEF Noticed, TypeOK
  <2>6. ctrl'[Peer(n)] = Append(q, msg)
    BY <2>2, PeerIsOther DEF TypeOK
  <2>7. Noticed(Peer(n))' <=> Noticed(Peer(n)) \/ msg # "Fin"
    BY <2>3, <2>4, <2>6 DEF Noticed
  <2>. QED  BY <1>2, <2>5, <2>7
<1>. QED  BY <1>1, <1>2

LEMMA HangUpNotices ==
    ASSUME NEW n \in Nodes, TypeOK, HangUp(n) \/ UNCHANGED ctrl
    PROVE  \A m \in Nodes : Noticed(m)' <=> Noticed(m)
<1>1. "Fin" \in Control
  BY DEF Control
<1>. QED  BY <1>1, SameNotices, SendNotices DEF HangUp

(* A word about focus is on its way to m, or m has lost one.               *)
Warned(m) == Noticed(m) \/ missed[m]

(* The steps that leave focus and the link alone.                          *)
FocusUntouched ==
    /\ UNCHANGED <<focus, up, grab>>
    /\ \A m \in Nodes : focus[m] /\ Warned(m) => Warned(m)'
    /\ \A m \in Nodes : (Running(m) /\ capture[m] = "running")' =>
                            Running(m) /\ capture[m] = "running"

(* The steps that make n local, and tell its capture thread unless the     *)
(* session ends.                                                           *)
MadeLocal(n) ==
    /\ focus' = [focus EXCEPT ![n] = FALSE]
    /\ \/ grab' = [grab EXCEPT ![n] = FALSE]
       \/ UNCHANGED grab /\ ~(Running(n) /\ capture[n] = "running")'
    /\ \A m \in Nodes : (Running(m) /\ capture[m] = "running")' =>
                            Running(m) /\ capture[m] = "running"

MadeRemote(n) == GoRemote(n) /\ UNCHANGED <<mode, capture, up>>

LEMMA QuietUntouched ==
    ASSUME UNCHANGED <<mode, focus, grab, capture, ctrl, missed, up>>
    PROVE  FocusUntouched
BY SameNotices DEF FocusUntouched, Warned, Running

LEMMA StopCaptureUntouched ==
    ASSUME NEW n \in Nodes, TypeOK, StopCapture(n), UNCHANGED <<focus, up, grab, missed>>
    PROVE  FocusUntouched
<1>1. \A m \in Nodes : Warned(m) => Warned(m)'
  BY HangUpNotices DEF StopCapture, Warned
<1>2. ASSUME NEW m \in Nodes, (Running(m) /\ capture[m] = "running")'
      PROVE  Running(m) /\ capture[m] = "running"
  <2>1. m # n
    BY <1>2 DEF StopCapture, TypeOK
  <2>. QED  BY <1>2, <2>1 DEF StopCapture, Running, TypeOK
<1>. QED  BY <1>1, <1>2 DEF FocusUntouched

LEMMA PhysicalUntouched ==
    ASSUME NEW n \in Nodes, NEW ev, TypeOK, Physical(n, ev)
    PROVE  FocusUntouched
<1>1. UNCHANGED <<focus, up, grab, missed>>
  BY DEF Physical, readVars
<1>2. CASE StopCapture(n)
  BY <1>1, <1>2, StopCaptureUntouched
<1>3. CASE UNCHANGED <<capture, mode, ctrl>>
  BY <1>1, <1>3, QuietUntouched
<1>. QED  BY <1>2, <1>3 DEF Physical

(* A cut-off read takes a word about focus away from n and is a lost one.  *)
LEMMA CutOffUntouched ==
    ASSUME NEW n \in Nodes, TypeOK, CutOff(n)
    PROVE  FocusUntouched
<1>1. UNCHANGED <<mode, focus, grab, capture, up>>
  BY DEF CutOff
<1>2. ASSUME NEW m \in Nodes, focus[m], Warned(m)
      PROVE  Warned(m)'
  <2>1. CASE UNCHANGED <<ctrl, missed>>
    BY <1>2, <2>1, SameNotices DEF Warned
  <2>2. CASE /\ ctrl' = [ctrl EXCEPT ![n] = Tail(@)]
             /\ missed' = [missed EXCEPT ![n] = @ \/ focus[n]]
    <3>1. CASE m = n
      BY <1>2, <2>2, <3>1 DEF Warned, TypeOK
    <3>2. CASE m # n
      <4>1. ctrl'[m] = ctrl[m] /\ missed'[m] = missed[m]
        BY <2>2, <3>2 DEF TypeOK
      <4>. QED  BY <1>2, <4>1 DEF Warned, Noticed
    <3>. QED  BY <3>1, <3>2
  <2>. QED  BY <2>1, <2>2 DEF CutOff
<1>. QED  BY <1>1, <1>2 DEF FocusUntouched, Running

LEMMA EndSessionLocal ==
    ASSUME NEW n \in Nodes, NEW keys, NEW s, TypeOK, EndSession(n, keys, s)
    PROVE  MadeLocal(n)
BY EndSessionFocus DEF MadeLocal, Running, TypeOK

(* Every step leaves focus alone, makes one machine local or makes one     *)
(* machine remote, and a lost connection loses nothing but the link.       *)
LEMMA FocusSteps ==
    ASSUME TypeOK, [Next]_vars
    PROVE  \/ FocusUntouched
           \/ UNCHANGED <<focus, grab, mode, capture>> /\ ~up'
           \/ \E n \in Nodes : MadeLocal(n) \/ MadeRemote(n)
<1>1. CASE UNCHANGED vars
  BY <1>1, QuietUntouched DEF vars
<1>2. CASE ConnectionLost
  BY <1>2 DEF ConnectionLost
<1>3. CASE LoseDatagram
  BY <1>3, QuietUntouched DEF LoseDatagram, readVars
<1>4. ASSUME NEW n \in Nodes, NodeStep(n)
      PROVE  FocusUntouched \/ MadeLocal(n) \/ MadeRemote(n)
  <2>1. CASE PressKey(n) \/ ReleaseKey(n) \/ MoveMouse(n)
    <3>1. \E ev : Physical(n, ev)
      BY <2>1 DEF PressKey, ReleaseKey, MoveMouse
    <3>. QED  BY <3>1, PhysicalUntouched
  <2>2. CASE CaptureFails(n) \/ CaptureInterrupted(n)
    <3>1. CaptureFails(n)
      BY <2>2 DEF CaptureInterrupted
    <3>. QED  BY <3>1, StopCaptureUntouched DEF CaptureFails, readVars
  <2>3. CASE Emergency(n)
    <3>1. focus' = [focus EXCEPT ![n] = FALSE] /\ UNCHANGED <<mode, capture>>
      BY <2>3 DEF Emergency
    <3>2. grab' = [grab EXCEPT ![n] = FALSE] \/ (UNCHANGED grab /\ capture[n] # "running")
      BY <2>3 DEF Emergency, SetGrab
    <3>. QED  BY <3>1, <3>2 DEF MadeLocal, Running
  <2>4. CASE Forward(n)
    <3>1. CASE UNCHANGED <<mode, focus, grab, capture, ctrl, missed, up>>
      BY <3>1, QuietUntouched
    <3>2. ASSUME NEW keys, NEW s, EndSession(n, keys, s)
          PROVE  MadeLocal(n)
      BY <3>2, EndSessionLocal
    <3>. QED  BY <2>4, <3>1, <3>2 DEF Forward, readVars
  <2>5. CASE TrackLocal(n)
    <3>1. UNCHANGED <<mode, capture, missed, up>>
      BY <2>5 DEF TrackLocal, readVars
    <3>2. UNCHANGED <<focus, grab, ctrl>> \/ GoRemote(n)
      BY <2>5 DEF TrackLocal
    <3>. QED  BY <3>1, <3>2, QuietUntouched DEF MadeRemote
  <2>6. CASE CaptureClosed(n)
    <3>1. \A m \in Nodes : Running(m)' => Running(m)
      BY <2>6 DEF CaptureClosed, Running, TypeOK
    <3>2. \A m \in Nodes : Warned(m)' <=> Warned(m)
      BY <2>6, SameNotices DEF CaptureClosed, Warned, readVars
    <3>. QED  BY <2>6, <3>1, <3>2 DEF CaptureClosed, FocusUntouched
  <2>7. CASE RecvDatagram(n)
    <3>1. UNCHANGED <<mode, capture, missed, up>>
      BY <2>7 DEF RecvDatagram, readVars
    <3>2. UNCHANGED <<focus, grab, ctrl>> \/ GoRemote(n)
      BY <2>7 DEF RecvDatagram
    <3>. QED  BY <3>1, <3>2, QuietUntouched DEF MadeRemote
  <2>8. CASE HearFocus(n)
    <3>1. focus' = [focus EXCEPT ![n] = FALSE] /\ UNCHANGED <<mode, capture>>
      BY <2>8 DEF HearFocus, GoLocal
    <3>2. grab' = [grab EXCEPT ![n] = FALSE] \/ (UNCHANGED grab /\ capture[n] # "running")
      BY <2>8 DEF HearFocus, GoLocal, SetGrab
    <3>. QED  BY <3>1, <3>2 DEF MadeLocal, Running
  <2>9. CASE RecvError(n) \/ HandleShutdown(n)
    BY <2>9, EndSessionLocal DEF RecvError, HandleShutdown
  <2>10. CASE CooldownExpires(n)
    BY <2>10, QuietUntouched DEF CooldownExpires, readVars
  <2>11. CASE Shutdown(n)
    BY <2>11, QuietUntouched DEF Shutdown, readVars
  <2>12. CASE ProcessExit(n)
    BY <2>12 DEF ProcessExit, MadeLocal, Running, TypeOK
  <2>13. CASE CutOff(n)
    BY <2>13, CutOffUntouched
  <2>. QED  BY <1>4, <2>1, <2>2, <2>3, <2>4, <2>5, <2>6, <2>7, <2>8, <2>9, <2>10,
               <2>11, <2>12, <2>13 DEF NodeStep, SessionStep
<1>. QED  BY <1>1, <1>2, <1>3, <1>4 DEF Next

(* A machine becomes remote only together with a SwitchFocus sent to the   *)
(* other one, which stays on its way until it is heard, making the hearer  *)
(* local, or is torn out of the stream, which the hearer then has missed.  *)
(* So two remote machines on a live connection mean a word about focus on  *)
(* its way or lost since (lib.rs:667-718, quic.rs:174-181).                *)
THEOREM ConflictNoticed == Spec => []FocusConflictNoticed
<1>1. Init => FocusConflictNoticed
  BY PeerIsOther DEF Init, FocusConflictNoticed, Nodes
<1>2. TypeOK /\ FocusConflictNoticed /\ [Next]_vars => FocusConflictNoticed'
  <2>. SUFFICES ASSUME TypeOK, FocusConflictNoticed, [Next]_vars,
                       up', \A n \in Nodes : focus'[n]
                PROVE  \E n \in Nodes : Warned(n)'
    BY DEF FocusConflictNoticed, Warned
  <2>1. CASE FocusUntouched
    BY <2>1 DEF FocusUntouched, FocusConflictNoticed, Warned
  <2>2. ASSUME NEW n \in Nodes, MadeLocal(n)
        PROVE  FALSE
    BY <2>2 DEF MadeLocal, TypeOK
  <2>3. ASSUME NEW n \in Nodes, MadeRemote(n)
        PROVE  \E m \in Nodes : Warned(m)'
    <3>1. up /\ SendControl(n, "SwitchFocus") /\ "SwitchFocus" \in Control
      BY <2>3 DEF MadeRemote, GoRemote, SendSwitch, Control
    <3>2. Noticed(Peer(n))'
      BY <3>1, SendNotices, PeerIsOther
    <3>. QED  BY <3>2, PeerIsOther DEF Warned
  <2>. QED  BY <2>1, <2>2, <2>3, FocusSteps
<1>. QED  BY <1>1, <1>2, TypeCorrect, PTL DEF Spec

(* As long as a session can tell its capture thread anything, what it told *)
(* it last is the focus flag.                                              *)
THEOREM GrabTracksFocus == Spec => []GrabFollowsFocus
<1>1. Init => GrabFollowsFocus
  BY DEF Init, GrabFollowsFocus
<1>2. TypeOK /\ GrabFollowsFocus /\ [Next]_vars => GrabFollowsFocus'
  <2>. SUFFICES ASSUME TypeOK, GrabFollowsFocus, [Next]_vars,
                       NEW m \in Nodes, (Running(m) /\ capture[m] = "running")'
                PROVE  grab'[m] = focus'[m]
    BY DEF GrabFollowsFocus, Running
  <2>1. CASE FocusUntouched
    BY <2>1 DEF FocusUntouched, GrabFollowsFocus
  <2>2. CASE UNCHANGED <<focus, grab, mode, capture>>
    BY <2>2 DEF GrabFollowsFocus, Running
  <2>3. ASSUME NEW n \in Nodes, MadeLocal(n)
        PROVE  grab'[m] = focus'[m]
    <3>1. Running(m) /\ capture[m] = "running"
      BY <2>3 DEF MadeLocal
    <3>2. grab[m] = focus[m]
      BY <3>1 DEF GrabFollowsFocus
    <3>3. CASE m = n
      BY <2>3, <3>3 DEF MadeLocal, TypeOK
    <3>4. CASE m # n
      BY <2>3, <3>2, <3>4 DEF MadeLocal, TypeOK
    <3>. QED  BY <3>3, <3>4
  <2>4. ASSUME NEW n \in Nodes, MadeRemote(n)
        PROVE  grab'[m] = focus'[m]
    <3>1. Running(m) /\ capture[m] = "running"
      BY <2>4 DEF MadeRemote, Running
    <3>2. grab[m] = focus[m]
      BY <3>1 DEF GrabFollowsFocus
    <3>3. CASE m = n
      BY <2>4, <3>1, <3>3 DEF MadeRemote, GoRemote, SetGrab, TypeOK
    <3>4. CASE m # n
      BY <2>4, <3>2, <3>4 DEF MadeRemote, GoRemote, SetGrab, TypeOK
    <3>. QED  BY <3>3, <3>4
  <2>. QED  BY <2>1, <2>2, <2>3, <2>4, FocusSteps
<1>. QED  BY <1>1, <1>2, TypeCorrect, PTL DEF Spec

-----------------------------------------------------------------------------
(* The tracked keys.  q is a followed by b: tracking q is tracking a, then *)
(* b, wherever a burst is cut into batches.                                *)
IsConcat(q, a, b) ==
    /\ Len(a) \in Nat /\ Len(b) \in Nat /\ Len(q) = Len(a) + Len(b)
    /\ \A i \in 1 .. Len(a) : q[i] = a[i]
    /\ \A i \in 1 .. Len(b) : q[Len(a) + i] = b[i]

LEMMA UntouchedConcat ==
    ASSUME NEW q, NEW a, NEW b, IsConcat(q, a, b), NEW k
    PROVE  Untouched(q, k) <=> Untouched(a, k) /\ Untouched(b, k)
<1>1. Untouched(q, k) => Untouched(a, k)
  BY DEF Untouched, IsConcat
<1>2. ASSUME Untouched(q, k), NEW i \in 1 .. Len(b), b[i].kind = "key"
      PROVE  b[i].key # k
  <2>1. Len(a) + i \in 1 .. Len(q) /\ q[Len(a) + i] = b[i]
    BY DEF IsConcat
  <2>. QED  BY <1>2, <2>1 DEF Untouched
<1>3. ASSUME Untouched(a, k), Untouched(b, k), NEW i \in 1 .. Len(q), q[i].kind = "key"
      PROVE  q[i].key # k
  <2>1. CASE i <= Len(a)
    <3>1. i \in 1 .. Len(a) /\ q[i] = a[i]
      BY <2>1 DEF IsConcat
    <3>. QED  BY <1>3, <3>1 DEF Untouched
  <2>2. CASE i > Len(a)
    <3>1. i - Len(a) \in 1 .. Len(b) /\ Len(a) + (i - Len(a)) = i
      BY <2>2 DEF IsConcat
    <3>2. q[i] = b[i - Len(a)]
      BY <3>1 DEF IsConcat
    <3>. QED  BY <1>3, <3>1, <3>2 DEF Untouched
  <2>. QED  BY <2>1, <2>2 DEF IsConcat
<1>. QED  BY <1>1, <1>2, <1>3 DEF Untouched

LEMMA LeftDownConcat ==
    ASSUME NEW q, NEW a, NEW b, IsConcat(q, a, b), NEW k
    PROVE  LeftDown(q, k) <=> LeftDown(b, k) \/ (LeftDown(a, k) /\ Untouched(b, k))
<1>. DEFINE press == [kind |-> "key", key |-> k, down |-> TRUE]
            Off(evs, j) == evs[j].kind = "key" => evs[j].key # k
<1>. HIDE DEF press
<1>1. ASSUME LeftDown(b, k) PROVE LeftDown(q, k)
  <2>1. PICK i \in 1 .. Len(b) : b[i] = press /\ \A j \in i + 1 .. Len(b) : Off(b, j)
    BY <1>1 DEF LeftDown, press
  <2>2. Len(a) + i \in 1 .. Len(q) /\ q[Len(a) + i] = press
    BY <2>1 DEF IsConcat
  <2>3. ASSUME NEW j \in Len(a) + i + 1 .. Len(q) PROVE Off(q, j)
    <3>1. j - Len(a) \in i + 1 .. Len(b) /\ j - Len(a) \in 1 .. Len(b)
      BY DEF IsConcat
    <3>2. q[Len(a) + (j - Len(a))] = b[j - Len(a)] /\ Len(a) + (j - Len(a)) = j
      BY <3>1 DEF IsConcat
    <3>. QED  BY <2>1, <3>1, <3>2
  <2>. QED  BY <2>2, <2>3 DEF LeftDown, press
<1>2. ASSUME LeftDown(a, k), Untouched(b, k) PROVE LeftDown(q, k)
  <2>1. PICK i \in 1 .. Len(a) : a[i] = press /\ \A j \in i + 1 .. Len(a) : Off(a, j)
    BY <1>2 DEF LeftDown, press
  <2>2. i \in 1 .. Len(q) /\ q[i] = press
    BY <2>1 DEF IsConcat
  <2>3. ASSUME NEW j \in i + 1 .. Len(q) PROVE Off(q, j)
    <3>1. CASE j <= Len(a)
      <4>1. j \in i + 1 .. Len(a) /\ j \in 1 .. Len(a)
        BY <3>1 DEF IsConcat
      <4>. QED  BY <2>1, <4>1 DEF IsConcat
    <3>2. CASE j > Len(a)
      <4>1. j - Len(a) \in 1 .. Len(b) /\ Len(a) + (j - Len(a)) = j
        BY <3>2 DEF IsConcat
      <4>2. q[j] = b[j - Len(a)]
        BY <4>1 DEF IsConcat
      <4>. QED  BY <1>2, <4>1, <4>2 DEF Untouched
    <3>. QED  BY <3>1, <3>2 DEF IsConcat
  <2>. QED  BY <2>2, <2>3 DEF LeftDown, press
<1>3. ASSUME LeftDown(q, k) PROVE LeftDown(b, k) \/ (LeftDown(a, k) /\ Untouched(b, k))
  <2>1. PICK i \in 1 .. Len(q) : q[i] = press /\ \A j \in i + 1 .. Len(q) : Off(q, j)
    BY <1>3 DEF LeftDown, press
  <2>2. CASE i > Len(a)
    <3>1. i - Len(a) \in 1 .. Len(b) /\ Len(a) + (i - Len(a)) = i
      BY <2>2 DEF IsConcat
    <3>2. b[i - Len(a)] = press
      BY <2>1, <3>1 DEF IsConcat
    <3>3. ASSUME NEW j \in (i - Len(a)) + 1 .. Len(b) PROVE Off(b, j)
      <4>1. Len(a) + j \in i + 1 .. Len(q) /\ j \in 1 .. Len(b)
        BY <3>1 DEF IsConcat
      <4>. QED  BY <2>1, <4>1 DEF IsConcat
    <3>. QED  BY <3>1, <3>2, <3>3 DEF LeftDown, press
  <2>3. CASE i <= Len(a)
    <3>1. i \in 1 .. Len(a) /\ a[i] = press
      BY <2>1, <2>3 DEF IsConcat
    <3>2. ASSUME NEW j \in i + 1 .. Len(a) PROVE Off(a, j)
      <4>1. j \in i + 1 .. Len(q) /\ j \in 1 .. Len(a)
        BY <3>1 DEF IsConcat
      <4>. QED  BY <2>1, <4>1 DEF IsConcat
    <3>3. ASSUME NEW j \in 1 .. Len(b) PROVE Off(b, j)
      <4>1. Len(a) + j \in i + 1 .. Len(q)
        BY <2>3 DEF IsConcat
      <4>. QED  BY <2>1, <4>1 DEF IsConcat
    <3>. QED  BY <3>1, <3>2, <3>3 DEF LeftDown, Untouched, press
  <2>. QED  BY <2>2, <2>3 DEF IsConcat
<1>. QED  BY <1>1, <1>2, <1>3

THEOREM TrackingIsAssociative ==
    ASSUME NEW keys, NEW q, NEW a, NEW b, IsConcat(q, a, b)
    PROVE  After(After(keys, a), b) = After(keys, q)
<1>1. ASSUME NEW k \in Keys
      PROVE  k \in After(After(keys, a), b) <=> k \in After(keys, q)
  <2>1. k \in After(keys, a) <=> (k \in keys /\ Untouched(a, k)) \/ LeftDown(a, k)
    BY DEF After
  <2>2. k \in After(keys, q) <=> (k \in keys /\ Untouched(q, k)) \/ LeftDown(q, k)
    BY DEF After
  <2>3. k \in After(After(keys, a), b)
          <=> (k \in After(keys, a) /\ Untouched(b, k)) \/ LeftDown(b, k)
    BY DEF After
  <2>. QED  BY <2>1, <2>2, <2>3, UntouchedConcat, LeftDownConcat
<1>. QED  BY <1>1, AfterType

LEMMA TrackingOneEvent ==
    ASSUME NEW keys \in SUBSET Keys, NEW ev \in Event
    PROVE  /\ ev.kind = "move" => After(keys, <<ev>>) = keys
           /\ \A k \in Keys :
                 /\ ev = [kind |-> "key", key |-> k, down |-> TRUE]
                        => After(keys, <<ev>>) = keys \cup {k}
                 /\ ev = KeyUp(k) => After(keys, <<ev>>) = keys \ {k}
<1>1. Len(<<ev>>) = 1 /\ <<ev>>[1] = ev
  OBVIOUS
<1>2. ASSUME NEW k
      PROVE  /\ Untouched(<<ev>>, k) <=> (ev.kind = "key" => ev.key # k)
             /\ LeftDown(<<ev>>, k) <=> ev = [kind |-> "key", key |-> k, down |-> TRUE]
  <2>. DEFINE one == <<ev>>
  <2>1. Len(one) = 1 /\ one[1] = ev
    BY <1>1
  <2>. HIDE DEF one
  <2>2. \A i \in 1 .. Len(one) : i = 1
    BY <2>1
  <2>3. 1 \in 1 .. Len(one)
    BY <2>1
  <2>4. \A j \in 1 + 1 .. Len(one) : FALSE
    BY <2>1
  <2>5. Untouched(one, k) <=> (ev.kind = "key" => ev.key # k)
    BY <2>1, <2>2, <2>3 DEF Untouched
  <2>6. LeftDown(one, k) => ev = [kind |-> "key", key |-> k, down |-> TRUE]
    BY <2>1, <2>2 DEF LeftDown
  <2>7. ev = [kind |-> "key", key |-> k, down |-> TRUE] => LeftDown(one, k)
    BY <2>1, <2>3, <2>4 DEF LeftDown
  <2>. QED  BY <2>5, <2>6, <2>7 DEF one
<1>3. ASSUME NEW k \in Keys
      PROVE  k \in After(keys, <<ev>>) <=>
                \/ k \in keys /\ (ev.kind = "key" => ev.key # k)
                \/ ev = [kind |-> "key", key |-> k, down |-> TRUE]
  BY <1>2 DEF After
<1>4. After(keys, <<ev>>) \in SUBSET Keys
  BY AfterType
<1>5. ASSUME ev.kind = "move"
      PROVE  After(keys, <<ev>>) = keys
  BY <1>3, <1>4, <1>5
<1>6. ASSUME NEW k \in Keys, ev = [kind |-> "key", key |-> k, down |-> TRUE]
      PROVE  After(keys, <<ev>>) = keys \cup {k}
  BY <1>3, <1>4, <1>6
<1>7. ASSUME NEW k \in Keys, ev = KeyUp(k)
      PROVE  After(keys, <<ev>>) = keys \ {k}
  BY <1>3, <1>4, <1>7 DEF KeyUp
<1>. QED  BY <1>5, <1>6, <1>7

LEMMA TrackingAppend ==
    ASSUME NEW keys, NEW q \in Seq(Event), NEW ev \in Event
    PROVE  After(keys, Append(q, ev)) = After(After(keys, q), <<ev>>)
<1>1. IsConcat(Append(q, ev), q, <<ev>>)
  <2>1. /\ Len(q) \in Nat /\ Len(Append(q, ev)) = Len(q) + 1
        /\ \A i \in 1 .. Len(q) : Append(q, ev)[i] = q[i]
        /\ Append(q, ev)[Len(q) + 1] = ev
    BY AppendProperties, LenProperties
  <2>2. Len(<<ev>>) = 1 /\ <<ev>>[1] = ev
    OBVIOUS
  <2>. QED  BY <2>1, <2>2 DEF IsConcat
<1>. QED  BY <1>1, TrackingIsAssociative

LEMMA TrackingBatch ==
    ASSUME NEW keys, NEW q \in Seq(Event), NEW m \in 0 .. Len(q)
    PROVE  After(After(keys, SubSeq(q, 1, m)), SubSeq(q, m + 1, Len(q))) = After(keys, q)
<1>1. Len(q) \in Nat
  BY LenProperties
<1>2. IsConcat(q, SubSeq(q, 1, m), SubSeq(q, m + 1, Len(q)))
  <2>. DEFINE a == SubSeq(q, 1, m)
              b == SubSeq(q, m + 1, Len(q))
  <2>1. /\ Len(a) = m /\ Len(b) = Len(q) - m
        /\ \A i \in 1 .. m : a[i] = q[i]
        /\ \A i \in 1 .. Len(q) - m : b[i] = q[m + i]
    BY QueueSplit
  <2>. HIDE DEF a, b
  <2>2. IsConcat(q, a, b)
    BY <1>1, <2>1 DEF IsConcat
  <2>. QED  BY <2>2 DEF a, b
<1>. QED  BY <1>2, TrackingIsAssociative

LEMMA TrackingHead ==
    ASSUME NEW keys, NEW q \in Seq(Event), q # <<>>
    PROVE  After(After(keys, <<Head(q)>>), Tail(q)) = After(keys, q)
<1>1. /\ Len(q) \in Nat \ {0}
      /\ Len(Tail(q)) = Len(q) - 1
      /\ \A i \in 1 .. Len(Tail(q)) : Tail(q)[i] = q[i + 1]
  BY HeadTailProperties, EmptySeq
<1>2. Head(q) = q[1] /\ Len(<<Head(q)>>) = 1 /\ <<Head(q)>>[1] = Head(q)
  OBVIOUS
<1>3. IsConcat(q, <<Head(q)>>, Tail(q))
  BY <1>1, <1>2 DEF IsConcat
<1>. QED  BY <1>3, TrackingIsAssociative

(* The invariant of one machine: besides the property itself, a key counts *)
(* as held since before the session only while it is held.                 *)
Tracks(n) == mode[n] = "full" /\ capture[n] = "running" =>
                After(pressed[n], captured[n]) = phys[n] \ early[n]

KeyboardInv(n) == early[n] \subseteq phys[n] /\ Tracks(n)

(* The steps that move events from the queue to the tracked keys, or leave *)
(* both alone, and touch no key.                                           *)
KeysUntouched(n) ==
    /\ phys'[n] = phys[n] /\ early'[n] = early[n]
    /\ (mode[n] = "full" /\ capture[n] = "running")' =>
          /\ mode[n] = "full" /\ capture[n] = "running"
          /\ After(pressed'[n], captured'[n]) = After(pressed[n], captured[n])

LEMMA UntouchedKeepsTracking ==
    ASSUME NEW n \in Nodes, KeyboardInv(n), KeysUntouched(n)
    PROVE  KeyboardInv(n)'
<1>1. (early[n] \subseteq phys[n])'
  BY DEF KeyboardInv, KeysUntouched
<1>2. Tracks(n)'
  BY DEF KeyboardInv, KeysUntouched, Tracks
<1>. QED  BY <1>1, <1>2 DEF KeyboardInv

LEMMA EndSessionKeys ==
    ASSUME NEW n \in Nodes, NEW keys, NEW s, TypeOK, EndSession(n, keys, s),
           NEW m \in Nodes
    PROVE  KeysUntouched(m)
<1>1. phys' = phys /\ early' = early /\ capture' = capture
  BY DEF EndSession, keyboardVars
<1>2. mode'[n] # "full"
  BY DEF EndSession, TypeOK
<1>3. m # n => mode'[m] = mode[m] /\ pressed'[m] = pressed[m] /\ captured'[m] = captured[m]
  BY DEF EndSession, TypeOK
<1>. QED  BY <1>1, <1>2, <1>3 DEF KeysUntouched

LEMMA StopCaptureKeys ==
    ASSUME NEW n \in Nodes, TypeOK, StopCapture(n), NEW m \in Nodes,
           UNCHANGED <<pressed, captured, phys, early>>
    PROVE  KeysUntouched(m)
<1>1. capture'[n] # "running" /\ (m # n => capture'[m] = capture[m])
  BY DEF StopCapture, TypeOK
<1>2. m # n => mode'[m] = mode[m]
  BY DEF StopCapture, TypeOK
<1>. QED  BY <1>1, <1>2 DEF KeysUntouched

(* A physical event is queued behind everything not handled yet, or meets  *)
(* a session that no longer tracks.                                        *)
LEMMA PhysicalTracked ==
    ASSUME NEW n \in Nodes, NEW ev \in Event, TypeOK, Physical(n, ev)
    PROVE  /\ (mode[n] = "full" /\ capture[n] = "running")' =>
                  /\ mode[n] = "full" /\ capture[n] = "running"
                  /\ After(pressed'[n], captured'[n])
                        = After(After(pressed[n], captured[n]), <<ev>>)
           /\ \A m \in Nodes \ {n} :
                 /\ mode'[m] = mode[m] /\ capture'[m] = capture[m]
                 /\ captured'[m] = captured[m] /\ pressed'[m] = pressed[m]
<1>1. pressed' = pressed
  BY DEF Physical
<1>2. CASE mode[n] = "full" /\ capture[n] = "running"
  <2>1. captured' = [captured EXCEPT ![n] = Append(@, ev)] /\ UNCHANGED <<capture, mode>>
    BY <1>2 DEF Physical
  <2>2. captured'[n] = Append(captured[n], ev) /\ captured[n] \in Seq(Event)
    BY <2>1 DEF TypeOK
  <2>3. After(pressed'[n], captured'[n]) = After(After(pressed[n], captured[n]), <<ev>>)
    BY <1>1, <2>2, TrackingAppend
  <2>. QED  BY <1>1, <1>2, <2>1, <2>3 DEF TypeOK
<1>3. CASE ~(mode[n] = "full" /\ capture[n] = "running")
  <2>1. mode[n] = "draining" /\ StopCapture(n) /\ UNCHANGED captured
    BY <1>3 DEF Physical
  <2>. QED  BY <1>1, <2>1 DEF StopCapture, TypeOK
<1>. QED  BY <1>2, <1>3

LEMMA TypingKeepsTracking ==
    ASSUME NEW n \in Nodes, TypeOK, PressKey(n) \/ ReleaseKey(n) \/ MoveMouse(n),
           \A m \in Nodes : KeyboardInv(m), NEW m \in Nodes
    PROVE  KeyboardInv(m)'
<1>. DEFINE Live == mode[n] = "full" /\ capture[n] = "running"
            Old  == After(pressed[n], captured[n])
            New  == After(pressed'[n], captured'[n])
<1>1. early[n] \subseteq phys[n] /\ Tracks(n) /\ Old \in SUBSET Keys
  BY AfterType DEF KeyboardInv
<1>2. CASE PressKey(n)
  <2>1. PICK k \in Keys \ phys[n] :
          /\ Physical(n, [kind |-> "key", key |-> k, down |-> TRUE])
          /\ phys' = [phys EXCEPT ![n] = @ \cup {k}]
          /\ UNCHANGED early
    BY <1>2 DEF PressKey
  <2>. DEFINE ev == [kind |-> "key", key |-> k, down |-> TRUE]
  <2>2. ev \in Event
    BY DEF Event, KeyEvent
  <2>3. phys'[n] = phys[n] \cup {k} /\ early'[n] = early[n]
    BY <2>1 DEF TypeOK
  <2>4. CASE m = n
    <3>1. Live' => Live /\ New = Old \cup {k}
      <4>1. After(Old, <<ev>>) = Old \cup {k}
        BY <1>1, <2>2, TrackingOneEvent
      <4>. QED  BY <2>1, <2>2, <4>1, PhysicalTracked
    <3>2. Live' => New = (phys[n] \cup {k}) \ early[n]
      BY <1>1, <2>1, <3>1 DEF Tracks
    <3>. QED  BY <1>1, <2>3, <2>4, <3>2 DEF KeyboardInv, Tracks
  <2>5. CASE m # n
    <3>1. KeysUntouched(m)
      BY <2>1, <2>2, <2>5, PhysicalTracked DEF KeysUntouched, TypeOK
    <3>. QED  BY <3>1, UntouchedKeepsTracking
  <2>. QED  BY <2>4, <2>5
<1>3. CASE ReleaseKey(n)
  <2>1. PICK k \in phys[n] :
          /\ Physical(n, KeyUp(k))
          /\ phys' = [phys EXCEPT ![n] = @ \ {k}]
          /\ early' = [early EXCEPT ![n] = @ \ {k}]
    BY <1>3 DEF ReleaseKey
  <2>2. KeyUp(k) \in Event /\ k \in Keys
    BY DEF Event, KeyEvent, KeyUp, TypeOK
  <2>3. phys'[n] = phys[n] \ {k} /\ early'[n] = early[n] \ {k}
    BY <2>1 DEF TypeOK
  <2>4. CASE m = n
    <3>1. Live' => Live /\ New = Old \ {k}
      <4>1. After(Old, <<KeyUp(k)>>) = Old \ {k}
        BY <1>1, <2>2, TrackingOneEvent
      <4>. QED  BY <2>1, <2>2, <4>1, PhysicalTracked
    <3>2. Live' => New = (phys[n] \ {k}) \ (early[n] \ {k})
      BY <1>1, <3>1 DEF Tracks
    <3>. QED  BY <1>1, <2>3, <2>4, <3>2 DEF KeyboardInv, Tracks
  <2>5. CASE m # n
    <3>1. KeysUntouched(m)
      BY <2>1, <2>2, <2>5, PhysicalTracked DEF KeysUntouched, TypeOK
    <3>. QED  BY <3>1, UntouchedKeepsTracking
  <2>. QED  BY <2>4, <2>5
<1>4. CASE MoveMouse(n)
  <2>1. PICK d \in Moves :
          /\ Physical(n, [kind |-> "move", dx |-> d.dx, dy |-> d.dy])
          /\ UNCHANGED <<phys, early>>
    BY <1>4 DEF MoveMouse
  <2>. DEFINE ev == [kind |-> "move", dx |-> d.dx, dy |-> d.dy]
  <2>2. ev \in Event /\ ev.kind = "move"
    BY MovesAssumption DEF Event, MoveEvent
  <2>3. Live' => Live /\ New = Old
    <3>1. After(Old, <<ev>>) = Old
      BY <1>1, <2>2, TrackingOneEvent
    <3>. QED  BY <2>1, <2>2, <3>1, PhysicalTracked
  <2>4. KeysUntouched(m)
    BY <2>1, <2>2, <2>3, PhysicalTracked DEF KeysUntouched
  <2>. QED  BY <2>4, UntouchedKeepsTracking
<1>. QED  BY <1>2, <1>3, <1>4

(* A turn of the loop that takes the first events of the queue and tracks  *)
(* exactly those.                                                          *)
LEMMA HeadTracked ==
    ASSUME NEW n \in Nodes, TypeOK, Waiting(n), NEW m \in Nodes,
           pressed' = [pressed EXCEPT ![n] = Tracked(n, <<Head(captured[n])>>)],
           captured' = [captured EXCEPT ![n] = Tail(@)],
           UNCHANGED <<mode, capture, phys, early>>
    PROVE  KeysUntouched(m)
<1>1. captured[n] \in Seq(Event) /\ captured[n] # <<>>
  BY DEF TypeOK, Waiting
<1>2. /\ pressed'[n] = After(pressed[n], <<Head(captured[n])>>)
      /\ captured'[n] = Tail(captured[n])
      /\ m # n => pressed'[m] = pressed[m] /\ captured'[m] = captured[m]
  BY DEF TypeOK, Tracked
<1>3. After(pressed'[n], captured'[n]) = After(pressed[n], captured[n])
  BY <1>1, <1>2, TrackingHead
<1>. QED  BY <1>2, <1>3 DEF KeysUntouched

LEMMA ForwardTracked ==
    ASSUME NEW n \in Nodes, TypeOK, Forward(n), NEW m \in Nodes
    PROVE  KeysUntouched(m)
<1>. DEFINE q     == captured[n]
            b     == BatchSize(n)
            batch == SubSeq(q, 1, b)
            rest  == SubSeq(q, b + 1, Len(q))
<1>1. q \in Seq(Event) /\ q # <<>> /\ b \in 0 .. Len(q)
  <2>1. captured[n] \in Seq(Event) /\ captured[n] # <<>>
    BY DEF TypeOK, Forward, Waiting
  <2>2. b \in 1 .. Len(q) /\ Len(q) \in Nat
    BY <2>1, BatchSizeType, LenProperties
  <2>. QED  BY <2>1, <2>2
<1>2. CASE Fits(batch)
  <2>1. /\ pressed' = [pressed EXCEPT ![n] = After(pressed[n], batch)]
        /\ captured' = [captured EXCEPT ![n] = rest]
        /\ UNCHANGED <<mode, capture, phys, early>>
    BY <1>2 DEF Forward, Tracked, keyboardVars
  <2>2. /\ pressed'[n] = After(pressed[n], batch) /\ captured'[n] = rest
        /\ m # n => pressed'[m] = pressed[m] /\ captured'[m] = captured[m]
    BY <2>1 DEF TypeOK
  <2>3. After(After(pressed[n], batch), rest) = After(pressed[n], q)
    BY <1>1, TrackingBatch
  <2>. QED  BY <2>1, <2>2, <2>3 DEF KeysUntouched
<1>3. CASE ~Fits(batch)
  <2>1. EndSession(n, Tracked(n, batch), NextSeq(seq[n]))
    BY <1>3 DEF Forward
  <2>. QED  BY <2>1, EndSessionKeys
<1>. QED  BY <1>2, <1>3

LEMMA KeyboardStep ==
    ASSUME TypeOK, [Next]_vars, \A n \in Nodes : KeyboardInv(n), NEW m \in Nodes
    PROVE  KeyboardInv(m)'
<1>. SUFFICES \/ KeyboardInv(m)'
              \/ KeysUntouched(m)
  BY UntouchedKeepsTracking
<1>1. CASE UNCHANGED <<mode, capture, captured, pressed, phys, early>>
  BY <1>1 DEF KeysUntouched
<1>2. CASE UNCHANGED vars \/ ConnectionLost \/ LoseDatagram
  BY <1>1, <1>2 DEF vars, ConnectionLost, LoseDatagram, keyboardVars
<1>3. ASSUME NEW n \in Nodes, NodeStep(n)
      PROVE  KeyboardInv(m)' \/ KeysUntouched(m)
  <2>1. CASE PressKey(n) \/ ReleaseKey(n) \/ MoveMouse(n)
    BY <2>1, TypingKeepsTracking
  <2>2. CASE CaptureFails(n) \/ CaptureInterrupted(n)
    BY <2>2, StopCaptureKeys DEF CaptureInterrupted, CaptureFails, keyboardVars
  <2>3. CASE Emergency(n)
    BY <2>3, HeadTracked DEF Emergency, keyboardVars
  <2>4. CASE Forward(n)
    BY <2>4, ForwardTracked
  <2>5. CASE TrackLocal(n)
    BY <2>5, HeadTracked DEF TrackLocal, keyboardVars
  <2>6. CASE CaptureClosed(n)
    BY <2>6 DEF CaptureClosed, KeysUntouched, TypeOK, keyboardVars
  <2>7. CASE \/ RecvDatagram(n) \/ HearFocus(n) \/ CutOff(n)
             \/ CooldownExpires(n) \/ Shutdown(n)
    BY <1>1, <2>7
       DEF RecvDatagram, HearFocus, CutOff, CooldownExpires, Shutdown, keyboardVars
  <2>8. CASE RecvError(n) \/ HandleShutdown(n)
    BY <2>8, EndSessionKeys DEF RecvError, HandleShutdown
  <2>9. CASE ProcessExit(n)
    BY <2>9 DEF ProcessExit, KeysUntouched, TypeOK, keyboardVars
  <2>. QED  BY <1>3, <2>1, <2>2, <2>3, <2>4, <2>5, <2>6, <2>7, <2>8, <2>9
            DEF NodeStep, SessionStep
<1>. QED  BY <1>2, <1>3 DEF Next

(* Every branch that consumes events tracks exactly those it consumes, in  *)
(* their order: queue and tracked keys together always are the keys held.  *)
THEOREM KeyboardTracked == Spec => []PressedTracksKeyboard
<1>. DEFINE Inv == \A n \in Nodes : KeyboardInv(n)
<1>1. Init => Inv
  <2>. SUFFICES ASSUME Init, NEW n \in Nodes
                PROVE  KeyboardInv(n)
    OBVIOUS
  <2>1. early[n] = phys[n] /\ pressed[n] = {} /\ captured[n] = <<>>
    BY DEF Init
  <2>2. ASSUME NEW k PROVE ~LeftDown(<<>>, k)
    BY DEF LeftDown
  <2>3. After({}, <<>>) = {}
    BY <2>2 DEF After
  <2>. QED  BY <2>1, <2>3 DEF KeyboardInv, Tracks
<1>2. TypeOK /\ Inv /\ [Next]_vars => Inv'
  BY KeyboardStep
<1>3. Inv => PressedTracksKeyboard
  BY DEF KeyboardInv, Tracks, PressedTracksKeyboard
<1>. HIDE DEF Inv
<1>. QED  BY <1>1, <1>2, <1>3, TypeCorrect, PTL DEF Spec

-----------------------------------------------------------------------------
(* Sequence numbers.  What a step may do to the counter of n and to the    *)
(* frames n sent: none is added, or one under a number not used before.    *)
Numbered(n) ==
    /\ seq[n] <= seq'[n]
    /\ \/ dgram'[Peer(n)] \subseteq dgram[Peer(n)]
       \/ \E f : /\ seq[n] < f.seq /\ f.seq <= seq'[n]
                 /\ dgram'[Peer(n)] \subseteq dgram[Peer(n)] \cup {f}

LEMMA UnsentNumbered ==
    ASSUME TypeOK, UNCHANGED seq, NEW m \in Nodes,
           \A n \in Nodes : dgram'[n] \subseteq dgram[n]
    PROVE  Numbered(m)
<1>1. seq[m] \in Nat /\ Peer(m) \in Nodes
  BY PeerIsOther DEF TypeOK
<1>. QED  BY <1>1 DEF Numbered

LEMMA FrameNumbered ==
    ASSUME TypeOK, NEW n \in Nodes, NEW s \in Nat, NEW evs, SendFrame(n, s, evs),
           seq[n] < s, seq' = [seq EXCEPT ![n] = s], NEW m \in Nodes
    PROVE  Numbered(m)
<1>1. /\ Peer(n) \in Nodes /\ Peer(m) \in Nodes /\ (m # n => Peer(m) # Peer(n))
      /\ seq[m] \in Nat
  BY PeerIsOther DEF TypeOK, Nodes, Peer
<1>2. CASE m = n
  <2>. DEFINE f == [seq |-> s, events |-> evs]
  <2>1. seq'[n] = s /\ f.seq = s
    BY DEF TypeOK
  <2>2. dgram'[Peer(n)] \subseteq dgram[Peer(n)] \cup {f}
    BY <1>1 DEF SendFrame, TypeOK
  <2>. HIDE DEF f
  <2>. QED  BY <1>1, <1>2, <2>1, <2>2 DEF Numbered
<1>3. CASE m # n
  BY <1>1, <1>3 DEF Numbered, SendFrame, TypeOK
<1>. QED  BY <1>2, <1>3

LEMMA EndSessionNumbered ==
    ASSUME TypeOK, NEW n \in Nodes, NEW keys, NEW s \in Nat, EndSession(n, keys, s),
           seq[n] <= s, NEW m \in Nodes
    PROVE  Numbered(m)
<1>1. CASE focus[n] /\ keys # {}
  <2>1. PICK evs \in Flushes(keys) : SendFrame(n, NextSeq(s), evs)
    BY <1>1 DEF EndSession
  <2>2. seq' = [seq EXCEPT ![n] = NextSeq(s)]
    BY <1>1 DEF EndSession
  <2>3. NextSeq(s) \in Nat /\ seq[n] < NextSeq(s)
    BY DEF NextSeq, TypeOK
  <2>. QED  BY <2>1, <2>2, <2>3, FrameNumbered
<1>2. CASE ~(focus[n] /\ keys # {})
  <2>1. seq' = [seq EXCEPT ![n] = s] /\ dgram' = dgram
    BY <1>2 DEF EndSession
  <2>2. seq[m] \in Nat /\ seq[m] <= seq'[m]
    BY <2>1 DEF TypeOK
  <2>. QED  BY <2>1, <2>2 DEF Numbered
<1>. QED  BY <1>1, <1>2

LEMMA NumberingSteps ==
    ASSUME TypeOK, [Next]_vars, NEW m \in Nodes
    PROVE  Numbered(m)
<1>1. CASE UNCHANGED <<seq, dgram>>
  BY <1>1, UnsentNumbered
<1>2. CASE UNCHANGED vars \/ ConnectionLost
  BY <1>1, <1>2 DEF vars, ConnectionLost
<1>3. CASE LoseDatagram
  BY <1>3, UnsentNumbered DEF LoseDatagram, TypeOK
<1>4. ASSUME NEW n \in Nodes, NodeStep(n)
      PROVE  Numbered(m)
  <2>1. seq[n] \in Nat /\ NextSeq(seq[n]) \in Nat /\ seq[n] < NextSeq(seq[n])
    BY DEF TypeOK, NextSeq
  <2>2. CASE PressKey(n) \/ ReleaseKey(n) \/ MoveMouse(n)
    BY <1>1, <2>2 DEF PressKey, ReleaseKey, MoveMouse, Physical
  <2>3. CASE CaptureFails(n) \/ CaptureInterrupted(n) \/ CaptureClosed(n)
    BY <1>1, <2>3 DEF CaptureFails, CaptureInterrupted, CaptureClosed
  <2>4. CASE Emergency(n)
    <3>1. seq' = [seq EXCEPT ![n] = NextSeq(seq[n])]
      BY <2>4 DEF Emergency
    <3>2. ASSUME NEW evs, SendFrame(n, NextSeq(seq[n]), evs)
          PROVE  Numbered(m)
      BY <2>1, <3>1, <3>2, FrameNumbered
    <3>3. CASE UNCHANGED dgram
      <4>1. seq[m] \in Nat /\ seq[m] <= seq'[m]
        BY <2>1, <3>1 DEF TypeOK
      <4>. QED  BY <3>3, <4>1 DEF Numbered
    <3>. QED  BY <2>4, <3>2, <3>3 DEF Emergency
  <2>5. CASE Forward(n)
    <3>1. ASSUME NEW evs, SendFrame(n, NextSeq(seq[n]), evs),
                 seq' = [seq EXCEPT ![n] = NextSeq(@)]
          PROVE  Numbered(m)
      BY <2>1, <3>1, FrameNumbered
    <3>2. ASSUME NEW keys, EndSession(n, keys, NextSeq(seq[n]))
          PROVE  Numbered(m)
      BY <2>1, <3>2, EndSessionNumbered
    <3>. QED  BY <2>5, <3>1, <3>2 DEF Forward
  <2>6. CASE \/ TrackLocal(n) \/ HearFocus(n) \/ CutOff(n) \/ CooldownExpires(n)
             \/ Shutdown(n) \/ ProcessExit(n)
    BY <1>1, <2>6
       DEF TrackLocal, HearFocus, CutOff, CooldownExpires, Shutdown, ProcessExit
  <2>7. CASE RecvDatagram(n)
    BY <2>7, UnsentNumbered DEF RecvDatagram, TypeOK
  <2>8. CASE RecvError(n) \/ HandleShutdown(n)
    BY <2>1, <2>8, EndSessionNumbered DEF RecvError, HandleShutdown
  <2>. QED  BY <1>4, <2>2, <2>3, <2>4, <2>5, <2>6, <2>7, <2>8 DEF NodeStep, SessionStep
<1>. QED  BY <1>2, <1>3, <1>4 DEF Next

(* The counter only grows and every frame sent takes a number above it, so *)
(* no two frames of one direction ever share one, the flush of a session   *)
(* that ends on a batch it could not send included.                        *)
THEOREM FramesNumbered == Spec => []SeqIdentifiesFrame
<1>1. Init => SeqIdentifiesFrame
  BY DEF Init, SeqIdentifiesFrame
<1>2. TypeOK /\ SeqIdentifiesFrame /\ [Next]_vars => SeqIdentifiesFrame'
  <2>. SUFFICES ASSUME TypeOK, SeqIdentifiesFrame, [Next]_vars,
                       NEW n \in Nodes, NEW f \in dgram'[n]
                PROVE  /\ f.seq <= seq'[Peer(n)]
                       /\ \A g \in dgram'[n] : f.seq = g.seq => f = g
    BY DEF SeqIdentifiesFrame
  <2>. DEFINE m == Peer(n)
  <2>1. m \in Nodes /\ Peer(m) = n
    BY DEF Nodes, Peer
  <2>2. Numbered(m)
    BY <2>1, NumberingSteps
  <2>3. \A g \in dgram[n] : g.seq \in Nat /\ g.seq <= seq[m]
    BY <2>1 DEF SeqIdentifiesFrame, TypeOK, Frame
  <2>4. TypeOK'
    BY NextType
  <2>5. f.seq \in Nat /\ seq[m] \in Nat /\ seq'[m] \in Nat
    BY <2>1, <2>4 DEF TypeOK, Frame
  <2>6. \A g, h \in dgram[n] : g.seq = h.seq => g = h
    BY DEF SeqIdentifiesFrame
  <2>. HIDE DEF m
  <2>7. CASE dgram'[n] \subseteq dgram[n]
    <3>1. seq[m] <= seq'[m]
      BY <2>2 DEF Numbered
    <3>2. f.seq <= seq[m]
      BY <2>3, <2>7
    <3>3. \A g \in dgram'[n] : f.seq = g.seq => f = g
      BY <2>6, <2>7
    <3>. QED  BY <2>5, <3>1, <3>2, <3>3 DEF m
  <2>8. ASSUME NEW new, seq[m] < new.seq, new.seq <= seq'[m],
               dgram'[n] \subseteq dgram[n] \cup {new}
        PROVE  /\ f.seq <= seq'[Peer(n)]
               /\ \A g \in dgram'[n] : f.seq = g.seq => f = g
    <3>1. \A g \in dgram'[n] : g = new \/ (g \in dgram[n] /\ g.seq <= seq[m])
      BY <2>3, <2>8
    <3>2. \A g \in dgram'[n] : g.seq \in Nat
      BY <2>1, <2>4 DEF TypeOK, Frame
    <3>3. f.seq <= seq'[m]
      BY <2>2, <2>5, <2>8, <3>1 DEF Numbered
    <3>4. ASSUME NEW g \in dgram'[n], f.seq = g.seq
          PROVE  f = g
      BY <2>5, <2>6, <2>8, <3>1, <3>2, <3>4
    <3>. QED  BY <3>3, <3>4 DEF m
  <2>. QED  BY <2>1, <2>2, <2>7, <2>8 DEF Numbered
<1>. QED  BY <1>1, <1>2, TypeCorrect, PTL DEF Spec

-----------------------------------------------------------------------------
(* The sessions implement FocusHandoff.  What happens to the control       *)
(* messages happens to the notices; given the types, that needs no further *)
(* invariant.                                                              *)

(* What the mapping makes of the state, and of a step of n.                *)
Remote == {n \in Nodes : focus[n]}
Notice == {n \in Nodes : Noticed(n)}
Missed == {n \in Nodes : missed[n]}

LEMMA MappedNext ==
    ASSUME \/ UNCHANGED <<Remote, Notice, Missed, up>>
           \/ UNCHANGED <<Remote, Notice, Missed>> /\ up' = FALSE
           \/ \E n \in Nodes :
                 \/ /\ n \notin Remote /\ Remote' = Remote \cup {n}
                    /\ Notice' = IF up THEN Notice \cup {Peer(n)} ELSE Notice
                    /\ UNCHANGED <<Missed, up>>
                 \/ /\ n \in Remote /\ Remote' = Remote \ {n} /\ Missed' = Missed \ {n}
                    /\ Notice' = IF up THEN Notice \cup {Peer(n)} ELSE Notice
                    /\ UNCHANGED up
                 \/ /\ n \in Notice /\ Remote' = Remote \ {n} /\ Missed' = Missed \ {n}
                    /\ Notice' \in {Notice, Notice \ {n}} /\ UNCHANGED up
                 \/ /\ n \in Notice /\ Missed' = Missed \cup ({n} \cap Remote)
                    /\ Notice' \in {Notice, Notice \ {n}} /\ UNCHANGED <<Remote, up>>
                 \/ /\ Remote' = Remote \ {n} /\ Missed' = Missed \ {n}
                    /\ up' \in {up, FALSE} /\ UNCHANGED Notice
    PROVE  Abstract!Next \/ UNCHANGED Abstract!vars
<1>1. Nodes = Abstract!Peers
  BY DEF Nodes, Abstract!Peers
<1>2. \A n \in Nodes : Abstract!Other(n) = Peer(n)
  BY DEF Abstract!Other, Peer
<1>. QED
  BY <1>1, <1>2
     DEF Remote, Notice, Missed, Abstract!vars, Abstract!Next, Abstract!Take,
         Abstract!GiveBack, Abstract!Hear, Abstract!Miss, Abstract!Leave,
         Abstract!LinkFails, Abstract!BeLocal, Abstract!Notify

(* One machine's flag and the set of the machines that have it set.        *)
LEMMA FlagSet ==
    ASSUME NEW n \in Nodes, TypeOK
    PROVE  /\ focus' = [focus EXCEPT ![n] = FALSE] => Remote' = Remote \ {n}
           /\ focus' = [focus EXCEPT ![n] = TRUE] => Remote' = Remote \cup {n}
           /\ focus[n] <=> n \in Remote
           /\ missed' = [missed EXCEPT ![n] = FALSE] => Missed' = Missed \ {n}
           /\ missed' = [missed EXCEPT ![n] = @ \/ focus[n]]
                 => Missed' = Missed \cup ({n} \cap Remote)
BY DEF TypeOK, Remote, Missed

(* What a sender of a focus message does to the notices.                   *)
LEMMA NoticeSent ==
    ASSUME NEW n \in Nodes, NEW msg \in Control \ {"Fin"}, TypeOK, SendControl(n, msg)
    PROVE  Notice' = IF up THEN Notice \cup {Peer(n)} ELSE Notice
BY SendNotices, PeerIsOther DEF Notice

LEMMA NoticeKept ==
    ASSUME NEW n \in Nodes, TypeOK, HangUp(n) \/ UNCHANGED ctrl
    PROVE  Notice' = Notice
BY HangUpNotices DEF Notice

LEMMA EndSessionMapped ==
    ASSUME NEW n \in Nodes, NEW keys, NEW s, TypeOK, EndSession(n, keys, s)
    PROVE  /\ Remote' = Remote \ {n} /\ Missed' = Missed \ {n}
           /\ UNCHANGED <<Notice, up>>
<1>1. HangUp(n) \/ UNCHANGED ctrl
  BY DEF EndSession
<1>. QED  BY <1>1, NoticeKept, FlagSet DEF EndSession, StopReading

LEMMA StopCaptureMapped ==
    ASSUME NEW n \in Nodes, TypeOK, StopCapture(n) \/ UNCHANGED ctrl,
           UNCHANGED <<focus, missed, up>>
    PROVE  UNCHANGED <<Remote, Notice, Missed, up>>
<1>1. HangUp(n) \/ UNCHANGED ctrl
  BY DEF StopCapture
<1>. QED  BY <1>1, NoticeKept DEF Remote, Missed

LEMMA GoRemoteMapped ==
    ASSUME NEW n \in Nodes, TypeOK, GoRemote(n), ~focus[n]
    PROVE  /\ n \notin Remote /\ Remote' = Remote \cup {n}
           /\ Notice' = IF up THEN Notice \cup {Peer(n)} ELSE Notice
<1>1. "SwitchFocus" \in Control \ {"Fin"}
  BY DEF Control
<1>. QED  BY <1>1, FlagSet, NoticeSent DEF GoRemote, SendSwitch

(* The first word on its way to n is taken out of the stream.              *)
LEMMA NoticeTaken ==
    ASSUME NEW n \in Nodes, TypeOK, ctrl[n] # <<>>, Head(ctrl[n]) # "Fin",
           ctrl' = [ctrl EXCEPT ![n] = Tail(@)]
    PROVE  n \in Notice /\ Notice' \in {Notice, Notice \ {n}}
<1>1. ctrl[n] \in Seq(Control)
  BY DEF TypeOK
<1>2. Len(ctrl[n]) \in Nat \ {0} /\ ctrl[n][1] = Head(ctrl[n])
  BY <1>1, EmptySeq
<1>3. n \in Notice
  BY <1>2 DEF Notice, Noticed
<1>4. \A m \in Nodes \ {n} : Noticed(m)' = Noticed(m)
  BY DEF Noticed, TypeOK
<1>. QED  BY <1>3, <1>4 DEF Notice

LEMMA HearFocusMapped ==
    ASSUME NEW n \in Nodes, TypeOK, HearFocus(n)
    PROVE  /\ n \in Notice /\ Remote' = Remote \ {n} /\ Missed' = Missed \ {n}
           /\ Notice' \in {Notice, Notice \ {n}} /\ UNCHANGED up
<1>1. n \in Notice /\ Notice' \in {Notice, Notice \ {n}}
  BY NoticeTaken DEF HearFocus
<1>. QED  BY <1>1, FlagSet DEF HearFocus, GoLocal

LEMMA CutOffMapped ==
    ASSUME NEW n \in Nodes, TypeOK, CutOff(n)
    PROVE  Abstract!Next \/ UNCHANGED Abstract!vars
<1>1. UNCHANGED <<Remote, up>>
  BY DEF CutOff, Remote
<1>2. CASE UNCHANGED <<ctrl, missed>>
  <2>1. UNCHANGED <<Notice, Missed>>
    BY <1>2, NoticeKept DEF Missed
  <2>. QED  BY <1>1, <2>1, MappedNext
<1>3. CASE /\ ctrl[n] # <<>> /\ Head(ctrl[n]) # "Fin"
           /\ ctrl' = [ctrl EXCEPT ![n] = Tail(@)]
           /\ missed' = [missed EXCEPT ![n] = @ \/ focus[n]]
  <2>1. n \in Notice /\ Notice' \in {Notice, Notice \ {n}}
    BY <1>3, NoticeTaken
  <2>2. Missed' = Missed \cup ({n} \cap Remote)
    BY <1>3, FlagSet
  <2>. QED  BY <1>1, <2>1, <2>2, MappedNext
<1>. QED  BY <1>2, <1>3 DEF CutOff

LEMMA SessionStepMapped ==
    ASSUME NEW n \in Nodes, TypeOK, SessionStep(n)
    PROVE  Abstract!Next \/ UNCHANGED Abstract!vars
<1>1. CASE Emergency(n)
  <2>1. "ReleaseFocus" \in Control \ {"Fin"}
    BY DEF Control
  <2>2. focus[n] /\ focus' = [focus EXCEPT ![n] = FALSE] /\ SendControl(n, "ReleaseFocus")
    BY <1>1 DEF Emergency
  <2>3. missed' = [missed EXCEPT ![n] = FALSE] /\ UNCHANGED up
    BY <1>1 DEF Emergency
  <2>. QED  BY <2>1, <2>2, <2>3, FlagSet, NoticeSent, MappedNext
<1>2. ASSUME NEW keys, NEW s, EndSession(n, keys, s)
      PROVE  Abstract!Next \/ UNCHANGED Abstract!vars
  BY <1>2, EndSessionMapped, MappedNext
<1>3. CASE UNCHANGED <<focus, ctrl, missed, up>>
  BY <1>3, NoticeKept, MappedNext DEF Remote, Missed
<1>4. CASE ~focus[n] /\ GoRemote(n) /\ UNCHANGED <<missed, up>>
  BY <1>4, GoRemoteMapped, MappedNext DEF Missed
<1>5. CASE HearFocus(n)
  BY <1>5, HearFocusMapped, MappedNext
<1>6. CASE Forward(n)
  BY <1>2, <1>3, <1>6 DEF Forward, readVars
<1>7. CASE TrackLocal(n)
  BY <1>3, <1>4, <1>7 DEF TrackLocal, readVars
<1>8. CASE CaptureClosed(n)
  BY <1>3, <1>8 DEF CaptureClosed, readVars
<1>9. CASE RecvDatagram(n)
  BY <1>3, <1>4, <1>9 DEF RecvDatagram, readVars
<1>10. CASE RecvError(n) \/ HandleShutdown(n)
  BY <1>2, <1>10 DEF RecvError, HandleShutdown
<1>11. CASE CutOff(n)
  BY <1>11, CutOffMapped
<1>. QED  BY <1>1, <1>5, <1>6, <1>7, <1>8, <1>9, <1>10, <1>11 DEF SessionStep

LEMMA NextMapped == TypeOK /\ [Next]_vars => [Abstract!Next]_(Abstract!vars)
<1>. SUFFICES ASSUME TypeOK, [Next]_vars
              PROVE  Abstract!Next \/ UNCHANGED Abstract!vars
  OBVIOUS
<1>1. CASE UNCHANGED <<Remote, Notice, Missed, up>>
  BY <1>1, MappedNext
<1>2. CASE UNCHANGED <<focus, ctrl, missed, up>>
  <2>1. Initiator \in Nodes
    BY DEF Nodes
  <2>. QED  BY <1>1, <1>2, <2>1, NoticeKept DEF Remote, Missed
<1>3. CASE ConnectionLost
  <2>1. UNCHANGED <<Remote, Notice, Missed>> /\ up' = FALSE
    BY <1>3 DEF ConnectionLost, Remote, Notice, Missed, Noticed, readVars
  <2>. QED  BY <2>1, MappedNext
<1>4. ASSUME NEW n \in Nodes, NodeStep(n)
      PROVE  Abstract!Next \/ UNCHANGED Abstract!vars
  <2>1. CASE PressKey(n) \/ ReleaseKey(n) \/ MoveMouse(n)
    <3>1. \E ev : Physical(n, ev)
      BY <2>1 DEF PressKey, ReleaseKey, MoveMouse
    <3>. QED  BY <1>1, <3>1, StopCaptureMapped DEF Physical, readVars
  <2>2. CASE CaptureFails(n) \/ CaptureInterrupted(n)
    <3>1. CaptureFails(n)
      BY <2>2 DEF CaptureInterrupted
    <3>. QED  BY <1>1, <3>1, StopCaptureMapped DEF CaptureFails, readVars
  <2>3. CASE SessionStep(n)
    BY <2>3, SessionStepMapped
  <2>4. CASE CooldownExpires(n) \/ Shutdown(n)
    BY <1>2, <2>4 DEF CooldownExpires, Shutdown, readVars
  <2>5. CASE ProcessExit(n)
    <3>1. /\ focus' = [focus EXCEPT ![n] = FALSE]
          /\ missed' = [missed EXCEPT ![n] = FALSE]
          /\ up' = FALSE /\ UNCHANGED ctrl
      BY <2>5 DEF ProcessExit, StopReading
    <3>. QED  BY <3>1, FlagSet, NoticeKept, MappedNext
  <2>. QED  BY <1>4, <2>1, <2>2, <2>3, <2>4, <2>5 DEF NodeStep
<1>. QED  BY <1>2, <1>3, <1>4 DEF Next, LoseDatagram, vars, readVars

(* The two sessions do to focus what FocusHandoff promises: it moves by    *)
(* taking it, giving it back, hearing about it and leaving, a machine that *)
(* takes it or gives it back tells the other one if the link works         *)
(* (lib.rs:591-759), and what it was told is heard, on its way or torn     *)
(* (quic.rs:174-181).                                                      *)
THEOREM HandoffImplemented == Spec => ImplementsFocusHandoff
<1>1. Init => Abstract!Init
  BY DEF Init, Abstract!Init, Noticed
<1>. QED  BY <1>1, NextMapped, TypeCorrect, PTL DEF Spec, ImplementsFocusHandoff, Abstract!Spec
=============================================================================
