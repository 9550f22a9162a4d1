--------------------------- MODULE CaptureProofs ---------------------------
(***************************************************************************)
(* For any backends, any capacity and any number of events and changes of  *)
(* focus: the grab follows the session's wish, and no event is lost,       *)
(* doubled or overtaken on its way to the session.                         *)
(***************************************************************************)
EXTENDS Capture, SequenceTheorems, TLAPS

(* A thread that has not started yet owes the session nothing.             *)
StartsFree == pc = "starting" => ~grabbed /\ (fresh \/ ~wish)

(* Only an event that is being handed over, or has just been, is late.     *)
LateOnlyInHand == pc \in {"starting", "look", "poll", "drain"} => late = 0

IInv == /\ wish \in BOOLEAN /\ grabbed \in BOOLEAN /\ late \in {0, 1}
        /\ StartsFree /\ LateOnlyInHand /\ GrabKeepsUp

LEMMA InitIInv == Init => IInv
  BY DEF Init, IInv, StartsFree, LateOnlyInHand, GrabKeepsUp, Alive

-----------------------------------------------------------------------------
(* What is left alone by every step that neither grabs nor fetches.        *)
Watched == <<backend, grabbed, wish, fresh, late>>

LEMMA OthersKeepIInv ==
    ASSUME IInv, UNCHANGED Watched,
           \/ UNCHANGED pc
           \/ pc' \in {"poll", "drain", "look"} /\ pc \in {"look", "poll", "drain"}
           \/ pc' = "top" /\ pc \in {"hand", "top"}
    PROVE  IInv'
  BY DEF Watched, IInv, StartsFree, LateOnlyInHand, GrabKeepsUp, Alive

LEMMA ExitKeepsIInv ==
    ASSUME IInv, Exit
    PROVE  IInv'
  BY DEF Exit, sessVars, IInv, StartsFree, LateOnlyInHand, GrabKeepsUp, Alive

LEMMA CreateKeepsIInv ==
    ASSUME IInv, Create
    PROVE  IInv'
<1>1. CASE Exit
  BY <1>1, ExitKeepsIInv
<1>2. CASE /\ pc = "starting" /\ pc' = "top"
           /\ UNCHANGED <<grabbed, wish, fresh, late>>
  BY <1>2 DEF IInv, StartsFree, LateOnlyInHand, GrabKeepsUp, Alive
<1> QED
  BY <1>1, <1>2 DEF Create, sessVars

LEMMA TopKeepsIInv ==
    ASSUME IInv, Top
    PROVE  IInv'
<1>1. CASE Exit
  BY <1>1, ExitKeepsIInv
<1>2. CASE /\ pc = "top" /\ pc' = "look" /\ late' = 0 /\ fresh' = FALSE
           /\ UNCHANGED <<backend, wish>>
           /\ \/ fresh /\ FollowWish
              \/ ~fresh /\ UNCHANGED <<grabbed, kbd>>
  <2>1. grabbed' \in BOOLEAN
    BY <1>2 DEF FollowWish, IInv
  <2>2. backend = "evdev" => grabbed' = wish
    <3>1. CASE fresh /\ FollowWish
      <4> SUFFICES ASSUME backend = "evdev" PROVE grabbed' = wish
        OBVIOUS
      <4>1. \/ wish = grabbed /\ grabbed' = grabbed
            \/ ~wish /\ grabbed' = FALSE
            \/ wish /\ grabbed' = TRUE
        BY <3>1 DEF FollowWish
      <4>2. CASE wish = TRUE
        BY <4>1, <4>2
      <4>3. CASE wish = FALSE
        BY <4>1, <4>3
      <4> QED
        BY <4>2, <4>3 DEF IInv
    <3>2. CASE ~fresh /\ UNCHANGED grabbed
      BY <1>2, <3>2 DEF IInv, GrabKeepsUp, Alive
    <3> QED
      BY <1>2, <3>1, <3>2
  <2> QED
    BY <1>2, <2>1, <2>2 DEF IInv, StartsFree, LateOnlyInHand, GrabKeepsUp
<1> QED
  BY <1>1, <1>2 DEF Top, sessVars

LEMMA FetchedKeepsIInv ==
    ASSUME IInv, NEW ev, Fetched(ev), pc \in {"look", "poll", "drain"}
    PROVE  IInv'
  BY DEF Fetched, backendVars, sessVars, IInv, StartsFree, LateOnlyInHand, GrabKeepsUp, Alive

LEMMA FromKernelKeepsIInv ==
    ASSUME IInv, NEW d, FromKernel(d), pc \in {"look", "poll", "drain"}
    PROVE  IInv'
  BY FetchedKeepsIInv DEF FromKernel

LEMMA NextEventKeepsIInv ==
    ASSUME IInv,
           EvdevEvent \/ EvdevInterrupted \/ X11Look \/ X11Wake \/ X11Drain \/ X11Drained \/ X11Breaks
    PROVE  IInv'
<1> USE DEF backendVars, sessVars, Watched
<1>1. CASE EvdevEvent
  BY <1>1, FromKernelKeepsIInv DEF EvdevEvent
<1>2. CASE EvdevInterrupted \/ X11Breaks
  BY <1>2, ExitKeepsIInv DEF EvdevInterrupted, X11Breaks
<1>3. CASE X11Look
  BY <1>3, FromKernelKeepsIInv, OthersKeepIInv DEF X11Look
<1>4. CASE X11Wake
  BY <1>4, FromKernelKeepsIInv, OthersKeepIInv DEF X11Wake
<1>5. CASE X11Drain
  BY <1>5, FetchedKeepsIInv, OthersKeepIInv DEF X11Drain
<1>6. CASE X11Drained
  BY <1>6, OthersKeepIInv DEF X11Drained
<1> QED
  BY <1>1, <1>2, <1>3, <1>4, <1>5, <1>6

LEMMA SetGrabKeepsIInv ==
    ASSUME IInv, SetGrab
    PROVE  IInv'
  BY DEF SetGrab, backendVars, IInv, StartsFree, LateOnlyInHand, GrabKeepsUp

LEMMA StepIInv == IInv /\ [Next]_vars => IInv'
<1> SUFFICES ASSUME IInv, [Next]_vars PROVE IInv'
  OBVIOUS
<1> USE DEF backendVars, sessVars, Watched
<1>1. CASE Hand
  BY <1>1, ExitKeepsIInv, OthersKeepIInv DEF Hand
<1>2. CASE Watch \/ Receive \/ Leave \/ Return \/ Shutdown
  BY <1>2, OthersKeepIInv DEF Watch, Receive, Leave, Return, Shutdown
<1>3. ASSUME NEW d \in Devices, Use(d) PROVE IInv'
  BY <1>3, OthersKeepIInv DEF Use
<1>4. CASE UNCHANGED vars
  BY <1>4, OthersKeepIInv DEF vars
<1> QED
  BY <1>1, <1>2, <1>3, <1>4, CreateKeepsIInv, TopKeepsIInv, NextEventKeepsIInv, SetGrabKeepsIInv
     DEF Next, Thread

LEMMA Invariance == Spec => []IInv
  BY InitIInv, StepIInv, PTL DEF Spec

(* Under evdev no notice is forgotten and none is taken twice: between two *)
(* notices the devices are grabbed when the session wants them to be       *)
(* (lib.rs:913-930).                                                       *)
THEOREM GrabIsTheWish == Spec => []GrabKeepsUp
<1>1. IInv => GrabKeepsUp
  BY DEF IInv
<1> QED
  BY <1>1, Invariance, PTL

(* One event at most is taken from the devices with the old grab, however  *)
(* long the thread waits for a slot in the channel.                        *)
THEOREM OneLateEvent == Spec => []LateAtMostOne
<1>1. IInv => LateAtMostOne
  BY DEF IInv, LateAtMostOne
<1> QED
  BY <1>1, Invariance, PTL

-----------------------------------------------------------------------------
(* The types.                                                              *)

LEMMA OneEvent ==
    ASSUME NEW ev \in Event
    PROVE  <<ev>> \in Seq(Event) /\ Len(<<ev>>) = 1
  OBVIOUS

LEMMA ExitType ==
    ASSUME TypeOK, Exit, UNCHANGED watchVars
    PROVE  TypeOK'
<1>1. taken' \in Seq(Event) /\ Len(taken') = 0
  BY DEF Exit
<1>2. grabbed' \in BOOLEAN /\ kbd' \in BOOLEAN
  BY DEF Exit
<1>3. pc' = "exited" /\ UNCHANGED <<backend, sourceVars, chan, sessVars, fresh, late, watchVars>>
  BY DEF Exit
<1> QED
  BY <1>1, <1>2, <1>3 DEF TypeOK, sourceVars, sessVars, watchVars

LEMMA UseType ==
    ASSUME TypeOK, NEW d \in Devices, Use(d)
    PROVE  TypeOK'
<1> DEFINE seen(via) == [dev |-> d, id |-> made[d] + 1, via |-> via]
<1>1. seen("evdev") \in Event /\ seen("x11") \in Event
  BY DEF Event, TypeOK
<1>2. Append(buffer[d], seen("evdev")) \in Seq(Event) /\ Append(socket, seen("x11")) \in Seq(Event)
  BY <1>1, AppendProperties DEF TypeOK
<1> QED
  BY <1>2 DEF Use, TypeOK, backendVars, watchVars, sessVars

LEMMA FetchedType ==
    ASSUME TypeOK, NEW ev \in Event, Fetched(ev),
           buffer' \in [Devices -> Seq(Event)], socket' \in Seq(Event), xbuf' \in Seq(Event)
    PROVE  TypeOK'
<1>1. taken' \in Seq(Event) /\ Len(taken') = 1
  BY OneEvent DEF Fetched
<1> QED
  BY <1>1 DEF Fetched, TypeOK, backendVars, watchVars, sessVars

LEMMA FromKernelType ==
    ASSUME TypeOK, NEW d \in Devices, FromKernel(d)
    PROVE  TypeOK'
<1>1. buffer[d] \in Seq(Event) /\ buffer[d] # <<>>
  BY DEF TypeOK, FromKernel
<1>2. Head(buffer[d]) \in Event /\ Tail(buffer[d]) \in Seq(Event)
  BY <1>1, HeadTailProperties
<1> QED
  BY <1>2, FetchedType DEF TypeOK, FromKernel

LEMMA X11DrainType ==
    ASSUME TypeOK, X11Drain
    PROVE  TypeOK'
<1> DEFINE ready == IF xbuf = <<>> THEN socket ELSE xbuf
<1>1. ready \in Seq(Event) /\ ready # <<>>
  BY DEF TypeOK, X11Drain
<1>2. Head(ready) \in Event /\ Tail(ready) \in Seq(Event)
  BY <1>1, HeadTailProperties
<1>3. xbuf' \in Seq(Event) /\ socket' \in Seq(Event) /\ UNCHANGED buffer
  BY <1>2 DEF TypeOK, X11Drain
<1>4. CASE Fetched(Head(ready))
  BY <1>2, <1>3, <1>4, FetchedType DEF TypeOK
<1>5. CASE UNCHANGED <<backendVars, pc, taken, made, watchVars, chan, sessVars, fresh, late>>
  BY <1>3, <1>5 DEF TypeOK, backendVars, watchVars, sessVars
<1> QED
  BY <1>4, <1>5 DEF X11Drain

LEMMA HandType ==
    ASSUME TypeOK, Hand
    PROVE  TypeOK'
<1>1. CASE Exit
  BY <1>1, ExitType DEF Hand
<1>2. CASE /\ HasRoom /\ chan' = chan \o taken
           /\ taken' = <<>> /\ pc' = "top"
           /\ UNCHANGED <<backendVars, sourceVars, sessVars, fresh, late>>
  <2>1. chan' \in Seq(Event) /\ Len(chan') = Len(chan) + 1
    <3>1. chan \in Seq(Event) /\ taken \in Seq(Event) /\ Len(taken) = 1
      BY DEF TypeOK, Hand
    <3>2. chan \o taken \in Seq(Event) /\ Len(chan \o taken) = Len(chan) + Len(taken)
      BY <3>1, ConcatProperties
    <3> QED
      BY <1>2, <3>1, <3>2
  <2>2. Len(chan') <= Capacity
    BY <1>2, <2>1, CaptureAssumption DEF HasRoom, TypeOK
  <2>3. UNCHANGED watchVars
    BY DEF Hand
  <2> QED
    BY <1>2, <2>1, <2>2, <2>3 DEF TypeOK, backendVars, sourceVars, sessVars, watchVars
<1> QED
  BY <1>1, <1>2 DEF Hand

LEMMA ReceiveType ==
    ASSUME TypeOK, Receive
    PROVE  TypeOK'
<1>1. chan \in Seq(Event) /\ chan # <<>> /\ handed \in Seq(Event)
  BY DEF TypeOK, Receive
<1>2. Head(chan) \in Event /\ Tail(chan) \in Seq(Event) /\ Len(Tail(chan)) = Len(chan) - 1
  BY <1>1, HeadTailProperties
<1>3. Len(Tail(chan)) <= Capacity
  BY <1>1, <1>2, CaptureAssumption DEF TypeOK
<1>4. Append(handed, Head(chan)) \in Seq(Event)
  BY <1>1, <1>2, AppendProperties
<1> QED
  BY <1>2, <1>3, <1>4 DEF Receive, TypeOK, backendVars, sourceVars, watchVars

LEMMA InitType == Init => TypeOK
<1>1. <<>> \in Seq(Event) /\ Len(<<>>) = 0
  OBVIOUS
<1>2. 0 <= Capacity /\ Wishes \in Nat
  BY CaptureAssumption
<1> SUFFICES ASSUME Init PROVE TypeOK
  OBVIOUS
<1>3. /\ grabbed \in BOOLEAN /\ kbd \in BOOLEAN /\ eventfd \in BOOLEAN
      /\ wish \in BOOLEAN /\ fresh \in BOOLEAN /\ shut \in BOOLEAN
  BY DEF Init
<1>4. /\ backend = "none" /\ pc = "starting" /\ watcher = "none" /\ sess = "running"
      /\ taken = <<>> /\ socket = <<>> /\ xbuf = <<>> /\ chan = <<>> /\ handed = <<>>
      /\ buffer = [d \in Devices |-> <<>>] /\ made = [d \in Devices |-> 0]
      /\ late = 0 /\ wishes = Wishes
  BY DEF Init
<1> QED
  BY <1>1, <1>2, <1>3, <1>4 DEF TypeOK

LEMMA StepType == TypeOK /\ [Next]_vars => TypeOK'
<1> SUFFICES ASSUME TypeOK, [Next]_vars PROVE TypeOK'
  OBVIOUS
<1> USE DEF backendVars, sourceVars, watchVars, sessVars
<1>1. CASE Create
  <2>1. CASE Exit /\ UNCHANGED watchVars
    BY <2>1, ExitType
  <2>2. CASE /\ backend' \in Backends /\ pc' = "top" /\ pc = "starting"
             /\ watcher' = IF backend' = "evdev" THEN "polling" ELSE "none"
             /\ UNCHANGED <<grabbed, kbd, taken, sourceVars, eventfd, chan, sessVars, fresh, late>>
    BY <2>2 DEF TypeOK
  <2> QED
    BY <1>1, <2>1, <2>2 DEF Create
<1>2. CASE Top
  <2>1. CASE Exit
    BY <1>2, <2>1, ExitType DEF Top
  <2>2. CASE /\ pc = "top" /\ pc' = "look"
             /\ fresh' = FALSE /\ late' = 0
             /\ grabbed' \in BOOLEAN /\ kbd' \in BOOLEAN
             /\ UNCHANGED <<backend, taken, sourceVars, chan, sessVars>>
    BY <1>2, <2>2 DEF Top, TypeOK
  <2>3. FollowWish \/ UNCHANGED <<grabbed, kbd>> => grabbed' \in BOOLEAN /\ kbd' \in BOOLEAN
    BY DEF FollowWish, TypeOK
  <2> QED
    BY <1>2, <2>1, <2>2, <2>3 DEF Top
<1>3. CASE EvdevEvent
  BY <1>3, FromKernelType DEF EvdevEvent
<1>4. CASE EvdevInterrupted \/ X11Breaks
  BY <1>4, ExitType DEF EvdevInterrupted, X11Breaks
<1>5. CASE /\ pc \in {"look", "poll", "drain"} /\ pc' \in {"look", "poll", "drain"}
           /\ UNCHANGED <<backendVars, taken, sourceVars, watchVars, chan, sessVars, fresh, late>>
  BY <1>5 DEF TypeOK
<1>6. CASE X11Look
  BY <1>5, <1>6, FromKernelType DEF X11Look, Devices
<1>7. CASE X11Wake
  BY <1>5, <1>7, FromKernelType DEF X11Wake, Devices
<1>8. CASE X11Drained
  BY <1>5, <1>8 DEF X11Drained
<1>9. CASE Watch
  BY <1>9 DEF Watch, Signal, Alive, TypeOK
<1>10. CASE SetGrab
  BY <1>10 DEF SetGrab, TypeOK
<1>11. CASE Leave
  BY <1>11, CaptureAssumption DEF Leave, TypeOK
<1>12. CASE Return
  BY <1>12 DEF Return, TypeOK
<1>14. CASE Shutdown
  BY <1>14 DEF Shutdown, TypeOK
<1>13. CASE UNCHANGED vars
  BY <1>13 DEF vars, TypeOK
<1> QED
  BY <1>1, <1>2, <1>3, <1>4, <1>6, <1>7, <1>8, <1>9, <1>10, <1>11, <1>12, <1>13, <1>14,
     UseType, HandType, ReceiveType, X11DrainType DEF Next, Thread

(* The variables keep their types: the channel never holds more than its   *)
(* capacity, and the thread holds an event exactly when it hands one over. *)
THEOREM TypeCorrect == Spec => []TypeOK
  BY InitType, StepType, PTL DEF Spec

-----------------------------------------------------------------------------
(* Segments of what is on its way: the events of d in q are those from     *)
(* lo + 1 to hi.                                                           *)
Segment(d, q, lo, hi) == lo <= hi /\ InOrder(d, q, lo, hi)

LEMMA SegmentEmpty ==
    ASSUME NEW d, NEW lo \in Nat, NEW hi \in Nat
    PROVE  Segment(d, <<>>, lo, hi) <=> lo = hi
  BY DEF Segment, InOrder

LEMMA SegmentAppendOwn ==
    ASSUME NEW q \in Seq(Event), NEW ev \in Event, NEW lo \in Nat, NEW hi \in Nat,
           Segment(ev.dev, q, lo, hi), ev.id = hi + 1
    PROVE  Segment(ev.dev, Append(q, ev), lo, hi + 1)
<1> DEFINE r == Append(q, ev)
           d == ev.dev
           own(s) == {i \in 1 .. Len(s) : s[i].dev = d}
<1>1. /\ Len(q) \in Nat /\ Len(r) = Len(q) + 1
      /\ \A i \in 1 .. Len(q) : r[i] = q[i]
      /\ r[Len(q) + 1] = ev
  BY AppendProperties
<1>2. own(r) = own(q) \cup {Len(q) + 1}
  BY <1>1
<1>3. {q[i].id : i \in own(q)} = lo + 1 .. hi
  BY DEF Segment, InOrder
<1>4. \A i \in own(q) : r[i] = q[i] /\ i \in 1 .. Len(q) /\ q[i].id \in lo + 1 .. hi
  BY <1>1, <1>3
<1>5. {r[i].id : i \in own(r)} = lo + 1 .. hi + 1
  <2>1. {r[i].id : i \in own(r)} = {q[i].id : i \in own(q)} \cup {hi + 1}
    BY <1>1, <1>2, <1>4
  <2>2. (lo + 1 .. hi) \cup {hi + 1} = lo + 1 .. hi + 1
    BY DEF Segment
  <2> QED
    BY <1>3, <2>1, <2>2
<1>6. \A i, j \in own(r) : i < j => r[i].id < r[j].id
  <2> SUFFICES ASSUME NEW i \in own(r), NEW j \in own(r), i < j PROVE r[i].id < r[j].id
    OBVIOUS
  <2>1. i \in own(q)
    BY <1>1, <1>2
  <2>2. CASE j \in own(q)
    BY <1>4, <2>1, <2>2 DEF Segment, InOrder
  <2>3. CASE j = Len(q) + 1
    BY <1>1, <1>4, <2>1, <2>3
  <2> QED
    BY <1>2, <2>2, <2>3
<1>7. InOrder(d, r, lo, hi + 1)
  BY <1>5, <1>6 DEF InOrder
<1>8. lo <= hi + 1
  BY DEF Segment
<1> HIDE DEF r, d
<1> QED
  BY <1>7, <1>8 DEF Segment, r, d

LEMMA SegmentAppendForeign ==
    ASSUME NEW q \in Seq(Event), NEW ev \in Event, NEW lo \in Nat, NEW hi \in Nat,
           NEW d, Segment(d, q, lo, hi), ev.dev # d
    PROVE  Segment(d, Append(q, ev), lo, hi)
<1> DEFINE r == Append(q, ev)
           own(s) == {i \in 1 .. Len(s) : s[i].dev = d}
<1>1. /\ Len(q) \in Nat /\ Len(r) = Len(q) + 1
      /\ \A i \in 1 .. Len(q) : r[i] = q[i]
      /\ r[Len(q) + 1] = ev
  BY AppendProperties
<1>2. own(r) = own(q) /\ \A i \in own(q) : r[i] = q[i]
  BY <1>1
<1>3. {r[i].id : i \in own(r)} = {q[i].id : i \in own(q)}
  BY <1>2
<1> QED
  BY <1>2, <1>3 DEF Segment, InOrder

(* Positions and ids under Tail.                                           *)
LEMMA TailShifts ==
    ASSUME NEW q \in Seq(Event), q # <<>>
    PROVE  /\ Len(q) \in Nat \ {0} /\ Head(q) = q[1]
           /\ Tail(q) \in Seq(Event) /\ Len(Tail(q)) = Len(q) - 1
           /\ \A i \in 1 .. Len(q) - 1 : Tail(q)[i] = q[i + 1]
<1>1. Len(q) \in Nat \ {0}
  BY EmptySeq
<1> QED
  BY <1>1, HeadTailProperties

LEMMA SegmentTailOwn ==
    ASSUME NEW q \in Seq(Event), q # <<>>, NEW d, NEW lo \in Nat, NEW hi \in Nat,
           Segment(d, q, lo, hi), Head(q).dev = d
    PROVE  /\ Head(q).id = lo + 1
           /\ Segment(d, Tail(q), lo + 1, hi)
<1> DEFINE r == Tail(q)
           own(s) == {i \in 1 .. Len(s) : s[i].dev = d}
<1>1. /\ Len(q) \in Nat \ {0} /\ Head(q) = q[1]
      /\ r \in Seq(Event) /\ Len(r) = Len(q) - 1
      /\ \A i \in 1 .. Len(q) - 1 : r[i] = q[i + 1]
  BY TailShifts
<1>2. {q[i].id : i \in own(q)} = lo + 1 .. hi /\ \A i, j \in own(q) : i < j => q[i].id < q[j].id
  BY DEF Segment, InOrder
<1>3. 1 \in own(q)
  BY <1>1
<1>4. q[1].id \in lo + 1 .. hi
  BY <1>2, <1>3
<1>5. q[1].id = lo + 1
  <2>0. lo + 1 \in lo + 1 .. hi
    BY <1>4
  <2>1. PICK i \in own(q) : q[i].id = lo + 1
    BY <1>2, <2>0
  <2>2. i = 1 \/ q[1].id < q[i].id
    BY <1>2, <1>3, <2>1
  <2> QED
    BY <1>4, <2>1, <2>2
<1>6. \A i \in own(r) : i + 1 \in own(q) /\ r[i] = q[i + 1] /\ i \in 1 .. Len(q) - 1
  BY <1>1
<1>7. \A j \in own(q) : j = 1 \/ (j - 1 \in own(r) /\ r[j - 1] = q[j])
  BY <1>1
<1>8. {r[i].id : i \in own(r)} = lo + 2 .. hi
  <2>1. \A i \in own(r) : r[i].id \in lo + 2 .. hi
    <3> SUFFICES ASSUME NEW i \in own(r) PROVE r[i].id \in lo + 2 .. hi
      OBVIOUS
    <3>1. i + 1 \in own(q) /\ r[i] = q[i + 1] /\ 1 < i + 1
      BY <1>6
    <3>2. q[i + 1].id \in lo + 1 .. hi /\ q[1].id < q[i + 1].id
      BY <1>2, <1>3, <3>1
    <3> QED
      BY <1>5, <3>1, <3>2
  <2>2. ASSUME NEW k \in lo + 2 .. hi PROVE \E i \in own(r) : r[i].id = k
    <3>1. PICK j \in own(q) : q[j].id = k
      BY <1>2
    <3>2. j # 1
      BY <1>5, <3>1
    <3> QED
      BY <1>7, <3>1, <3>2
  <2> QED
    BY <2>1, <2>2
<1>9. \A i, j \in own(r) : i < j => r[i].id < r[j].id
  BY <1>2, <1>6
<1> QED
  BY <1>1, <1>4, <1>5, <1>8, <1>9 DEF Segment, InOrder

LEMMA SegmentTailForeign ==
    ASSUME NEW q \in Seq(Event), q # <<>>, NEW d, NEW lo \in Nat, NEW hi \in Nat,
           Segment(d, q, lo, hi), Head(q).dev # d
    PROVE  Segment(d, Tail(q), lo, hi)
<1> DEFINE r == Tail(q)
           own(s) == {i \in 1 .. Len(s) : s[i].dev = d}
<1>1. /\ Len(q) \in Nat \ {0} /\ Head(q) = q[1]
      /\ r \in Seq(Event) /\ Len(r) = Len(q) - 1
      /\ \A i \in 1 .. Len(q) - 1 : r[i] = q[i + 1]
  BY TailShifts
<1>2. {q[i].id : i \in own(q)} = lo + 1 .. hi /\ \A i, j \in own(q) : i < j => q[i].id < q[j].id
  BY DEF Segment, InOrder
<1>3. \A i \in own(r) : i + 1 \in own(q) /\ r[i] = q[i + 1] /\ i \in 1 .. Len(q) - 1
  BY <1>1
<1>4. \A j \in own(q) : j - 1 \in own(r) /\ r[j - 1] = q[j]
  BY <1>1
<1>5. {r[i].id : i \in own(r)} = {q[i].id : i \in own(q)}
  <2>1. \A i \in own(r) : r[i].id \in {q[j].id : j \in own(q)}
    BY <1>3
  <2>2. \A j \in own(q) : q[j].id \in {r[i].id : i \in own(r)}
    BY <1>4
  <2> QED
    BY <2>1, <2>2
<1>6. \A i, j \in own(r) : i < j => r[i].id < r[j].id
  BY <1>2, <1>3
<1> QED
  BY <1>2, <1>5, <1>6 DEF Segment, InOrder

LEMMA SegmentConcat ==
    ASSUME NEW p \in Seq(Event), NEW q \in Seq(Event), NEW d,
           NEW lo \in Nat, NEW mid \in Nat, NEW hi \in Nat,
           Segment(d, p, lo, mid), Segment(d, q, mid, hi)
    PROVE  Segment(d, p \o q, lo, hi)
<1> DEFINE r == p \o q
           own(s) == {i \in 1 .. Len(s) : s[i].dev = d}
<1>1. /\ Len(p) \in Nat /\ Len(q) \in Nat /\ Len(r) = Len(p) + Len(q)
      /\ \A i \in 1 .. Len(p) : r[i] = p[i]
      /\ \A i \in 1 .. Len(q) : r[Len(p) + i] = q[i]
  BY ConcatProperties
<1>2. \A i \in own(p) : i \in own(r) /\ r[i] = p[i]
  BY <1>1
<1>3. \A i \in own(q) : Len(p) + i \in own(r) /\ r[Len(p) + i] = q[i]
  BY <1>1
<1>4. \A i \in own(r) : \/ i \in own(p) /\ r[i] = p[i]
                        \/ i > Len(p) /\ i - Len(p) \in own(q) /\ r[i] = q[i - Len(p)]
  <2> SUFFICES ASSUME NEW i \in own(r)
               PROVE  \/ i \in own(p) /\ r[i] = p[i]
                      \/ i > Len(p) /\ i - Len(p) \in own(q) /\ r[i] = q[i - Len(p)]
    OBVIOUS
  <2>1. CASE i <= Len(p)
    BY <1>1, <2>1
  <2>2. CASE i > Len(p)
    <3>1. i - Len(p) \in 1 .. Len(q) /\ Len(p) + (i - Len(p)) = i
      BY <1>1, <2>2
    <3>2. r[i] = q[i - Len(p)]
      BY <1>1, <3>1
    <3> QED
      BY <2>2, <3>1, <3>2
  <2> QED
    BY <1>1, <2>1, <2>2
<1>5. /\ {p[i].id : i \in own(p)} = lo + 1 .. mid
      /\ \A i, j \in own(p) : i < j => p[i].id < p[j].id
      /\ {q[i].id : i \in own(q)} = mid + 1 .. hi
      /\ \A i, j \in own(q) : i < j => q[i].id < q[j].id
      /\ lo <= mid /\ mid <= hi
  BY DEF Segment, InOrder
<1>6. {r[i].id : i \in own(r)} = lo + 1 .. hi
  <2>1. \A i \in own(r) : r[i].id \in lo + 1 .. hi
    <3>1. \A i \in own(p) : p[i].id \in lo + 1 .. mid
      BY <1>5
    <3>2. \A i \in own(q) : q[i].id \in mid + 1 .. hi
      BY <1>5
    <3>3. lo + 1 .. mid \subseteq lo + 1 .. hi /\ mid + 1 .. hi \subseteq lo + 1 .. hi
      BY <1>5
    <3> QED
      BY <1>4, <3>1, <3>2, <3>3
  <2>2. ASSUME NEW k \in lo + 1 .. hi PROVE \E i \in own(r) : r[i].id = k
    <3>1. CASE k \in lo + 1 .. mid
      <4>1. PICK i \in own(p) : p[i].id = k
        BY <1>5, <3>1
      <4> QED
        BY <1>2, <4>1
    <3>2. CASE k \in mid + 1 .. hi
      <4>1. PICK i \in own(q) : q[i].id = k
        BY <1>5, <3>2
      <4> QED
        BY <1>3, <4>1
    <3> QED
      BY <3>1, <3>2
  <2> QED
    BY <2>1, <2>2
<1>7. \A i, j \in own(r) : i < j => r[i].id < r[j].id
  <2> SUFFICES ASSUME NEW i \in own(r), NEW j \in own(r), i < j PROVE r[i].id < r[j].id
    OBVIOUS
  <2>1. CASE i \in own(p) /\ j \in own(p)
    BY <1>2, <1>5, <2>1
  <2>2. CASE i \in own(p) /\ j > Len(p) /\ j - Len(p) \in own(q) /\ r[j] = q[j - Len(p)]
    <3>1. r[i].id \in lo + 1 .. mid
      BY <1>2, <1>5, <2>2
    <3>2. r[j].id \in mid + 1 .. hi
      BY <1>5, <2>2
    <3>3. \A x \in lo + 1 .. mid, y \in mid + 1 .. hi : x < y
      OBVIOUS
    <3> HIDE DEF r
    <3> QED
      BY <3>1, <3>2, <3>3
  <2>3. CASE /\ i > Len(p) /\ i - Len(p) \in own(q) /\ r[i] = q[i - Len(p)]
             /\ j > Len(p) /\ j - Len(p) \in own(q) /\ r[j] = q[j - Len(p)]
    <3>1. i - Len(p) < j - Len(p)
      BY <1>1
    <3> QED
      BY <1>5, <2>3, <3>1
  <2> QED
    BY <1>1, <1>4, <2>1, <2>2, <2>3
<1> QED
  BY <1>5, <1>6, <1>7 DEF Segment, InOrder

-----------------------------------------------------------------------------
(* Where events can be: an evdev capture has the kernel's buffers only, an *)
(* X11 capture has the mouse from the X server only; a buffer holds the    *)
(* events of its own device.                                               *)
Routes ==
    /\ pc = "starting" => backend = "none"
    /\ Alive => backend \in {"evdev", "x11"}
    /\ pc \in {"poll", "drain"} => backend = "x11"
    /\ backend # "x11" => xbuf = <<>> /\ socket = <<>>
    /\ backend # "evdev" => buffer["mouse"] = <<>>
    /\ \A d \in Devices : \A i \in 1 .. Len(buffer[d]) : buffer[d][i].dev = d

(* The events of d, from the first to the last one made, in the order of   *)
(* the places they pass; m are the last ones in each place.                *)
Chain(d, m) ==
    /\ Segment(d, handed, 0, m[1])
    /\ Segment(d, chan, m[1], m[2])
    /\ Segment(d, taken, m[2], m[3])
    /\ Segment(d, xbuf, m[3], m[4])
    /\ Segment(d, socket, m[4], m[5])
    /\ Segment(d, buffer[d], m[5], made[d])

Marks == [1 .. 5 -> Nat]

Complete(d) == backend = "x11" => d = "mouse"

Going == sess = "running" /\ pc # "exited"

Accounted ==
    Going => \A d \in Devices : Complete(d) => \E m \in Marks : Chain(d, m)

LEMMA OneOwn ==
    ASSUME NEW ev \in Event, NEW lo \in Nat, ev.id = lo + 1
    PROVE  Segment(ev.dev, <<ev>>, lo, lo + 1)
<1>1. Segment(ev.dev, <<>>, lo, lo) /\ <<>> \in Seq(Event)
  BY SegmentEmpty
<1>2. Segment(ev.dev, Append(<<>>, ev), lo, lo + 1)
  BY <1>1, SegmentAppendOwn
<1> QED
  BY <1>2

LEMMA OneForeign ==
    ASSUME NEW ev \in Event, NEW lo \in Nat, NEW d, ev.dev # d
    PROVE  Segment(d, <<ev>>, lo, lo)
<1>1. Segment(d, <<>>, lo, lo) /\ <<>> \in Seq(Event)
  BY SegmentEmpty
<1>2. Segment(d, Append(<<>>, ev), lo, lo)
  BY <1>1, SegmentAppendForeign
<1> QED
  BY <1>2

(* What every lemma about a step has of the state before it.               *)
Before(d, m) ==
    /\ TypeOK /\ Routes /\ Chain(d, m)
    /\ d \in Devices /\ m \in Marks /\ Complete(d)

LEMMA UseChain ==
    ASSUME NEW d, NEW m, Before(d, m), NEW e \in Devices, Use(e)
    PROVE  \E k \in Marks : Chain(d, k)'
<1> DEFINE seen(via) == [dev |-> e, id |-> made[e] + 1, via |-> via]
<1>1. seen("evdev") \in Event /\ seen("x11") \in Event
  BY DEF Event, TypeOK, Before
<1>2. backend \in {"evdev", "x11"} /\ d \in Devices /\ m \in Marks
  BY DEF Use, Routes, Before
<1>3. /\ buffer \in [Devices -> Seq(Event)] /\ socket \in Seq(Event)
      /\ made \in [Devices -> Nat]
  BY DEF TypeOK, Before
<1>4. /\ made' = [made EXCEPT ![e] = @ + 1]
      /\ UNCHANGED <<handed, chan, taken, xbuf>>
  BY DEF Use, sessVars
<1>5. CASE backend = "evdev"
  <2>1. buffer' = [buffer EXCEPT ![e] = Append(@, seen("evdev"))] /\ UNCHANGED socket
    BY <1>5 DEF Use, ViaKernel, ViaServer
  <2>2. Segment(d, buffer'[d], m[5], made'[d])
    <3>1. CASE e = d
      <4>1. /\ buffer[d] \in Seq(Event) /\ made[d] \in Nat /\ m[5] \in Nat
            /\ Segment(d, buffer[d], m[5], made[d])
        BY <1>2, <1>3 DEF Before, Chain, Marks
      <4>2. /\ buffer'[d] = Append(buffer[d], seen("evdev")) /\ made'[d] = made[d] + 1
            /\ seen("evdev").dev = d /\ seen("evdev").id = made[d] + 1
        BY <1>3, <1>4, <2>1, <3>1
      <4> HIDE DEF seen
      <4> QED
        BY <1>1, <4>1, <4>2, SegmentAppendOwn
    <3>2. CASE e # d
      BY <1>2, <1>3, <1>4, <2>1, <3>2 DEF Before, Chain
    <3> QED
      BY <3>1, <3>2
  <2> QED
    BY <1>2, <1>4, <2>1, <2>2 DEF Before, Chain
<1>6. CASE backend = "x11"
  <2>1. d = "mouse" /\ buffer["mouse"] = <<>>
    BY <1>6 DEF Before, Complete, Routes
  <2>2. m[5] = made[d]
    BY <1>2, <1>3, <2>1, SegmentEmpty DEF Before, Chain, Marks
  <2>3. CASE e = "mouse"
    <3> DEFINE k == [m EXCEPT ![5] = @ + 1]
    <3>1. socket' = Append(socket, seen("x11")) /\ UNCHANGED buffer
      BY <1>6, <2>3 DEF Use, ViaKernel, ViaServer
    <3>2. Segment(d, socket', m[4], m[5] + 1)
      <4>1. Segment(d, socket, m[4], m[5]) /\ m[4] \in Nat /\ m[5] \in Nat
        BY <1>2 DEF Before, Chain, Marks
      <4>2. seen("x11").dev = d /\ seen("x11").id = m[5] + 1
        BY <2>1, <2>2, <2>3
      <4> HIDE DEF seen
      <4> QED
        BY <1>1, <1>3, <3>1, <4>1, <4>2, SegmentAppendOwn
    <3>3. made'[d] = m[5] + 1 /\ m[5] + 1 \in Nat
      BY <1>2, <1>3, <1>4, <2>1, <2>2, <2>3 DEF Marks
    <3>4. Segment(d, buffer'[d], m[5] + 1, made'[d])
      BY <2>1, <3>1, <3>3, SegmentEmpty
    <3>5. k \in Marks /\ k[1] = m[1] /\ k[2] = m[2] /\ k[3] = m[3] /\ k[4] = m[4] /\ k[5] = m[5] + 1
      BY <1>2, <3>3 DEF Marks
    <3> HIDE DEF k
    <3>6. Chain(d, k)'
      BY <1>4, <3>2, <3>4, <3>5 DEF Before, Chain
    <3> QED
      BY <3>5, <3>6
  <2>4. CASE e # "mouse"
    <3>1. buffer'[d] = buffer[d] /\ made'[d] = made[d]
      BY <1>2, <1>3, <1>4, <2>1, <2>4 DEF Use
    <3>2. socket' \in {socket, Append(socket, seen("x11"))}
      BY DEF Use
    <3>3. Segment(d, socket, m[4], m[5]) /\ m[4] \in Nat /\ m[5] \in Nat
      BY <1>2 DEF Before, Chain, Marks
    <3>4. seen("x11").dev # d
      BY <2>1, <2>4
    <3>5. Segment(d, socket', m[4], m[5])
      BY <1>1, <1>3, <3>2, <3>3, <3>4, SegmentAppendForeign
    <3> QED
      BY <1>2, <1>4, <3>1, <3>5 DEF Before, Chain
  <2> QED
    BY <2>3, <2>4
<1> QED
  BY <1>2, <1>5, <1>6

LEMMA FromKernelChain ==
    ASSUME NEW d, NEW m, Before(d, m), NEW e \in Devices, FromKernel(e),
           pc # "hand", backend = "evdev" \/ e = "keyboard"
    PROVE  \E k \in Marks : Chain(d, k)'
<1> DEFINE head == Head(buffer[e])
<1>1. /\ buffer \in [Devices -> Seq(Event)] /\ buffer[e] # <<>>
      /\ made \in [Devices -> Nat] /\ taken = <<>>
  BY DEF TypeOK, Before, FromKernel
<1>2. d \in Devices /\ m \in Marks
  BY DEF Before
<1>3. head \in Event /\ head.dev = e
  BY <1>1, TailShifts DEF Before, Routes
<1>4. /\ taken' = <<head>> /\ buffer' = [buffer EXCEPT ![e] = Tail(@)]
      /\ UNCHANGED <<handed, chan, xbuf, socket, made>>
  BY DEF FromKernel, Fetched, sessVars
<1>5. m[2] = m[3]
  BY <1>1, <1>2, SegmentEmpty DEF Before, Chain, Marks
<1>6. CASE e = d
  <2>1. xbuf = <<>> /\ socket = <<>>
    <3>1. backend # "x11"
      BY <1>6 DEF Before, Complete
    <3> QED
      BY <3>1 DEF Before, Routes
  <2>2. m[3] = m[4] /\ m[4] = m[5]
    BY <1>2, <2>1, SegmentEmpty DEF Before, Chain, Marks
  <2> DEFINE t == m[2] + 1
             k == [m EXCEPT ![3] = t, ![4] = t, ![5] = t]
  <2>3. head.id = t /\ Segment(d, buffer'[d], t, made'[d])
    <3>1. /\ Segment(d, buffer[d], m[5], made[d]) /\ m[5] \in Nat /\ made[d] \in Nat
          /\ buffer[d] \in Seq(Event) /\ buffer[d] # <<>> /\ Head(buffer[d]).dev = d
      BY <1>1, <1>2, <1>3, <1>6 DEF Before, Chain, Marks
    <3>2. t = m[5] + 1 /\ made'[d] = made[d] /\ buffer'[d] = Tail(buffer[d])
      BY <1>1, <1>2, <1>4, <1>5, <1>6, <2>2
    <3> HIDE DEF t
    <3> QED
      BY <1>6, <3>1, <3>2, SegmentTailOwn
  <2>4. t \in Nat /\ Segment(d, taken', m[2], t)
    <3>1. m[2] \in Nat
      BY <1>2 DEF Marks
    <3>2. Segment(d, <<head>>, m[2], m[2] + 1)
      <4> HIDE DEF head, k
      <4> QED
        BY <1>3, <1>6, <2>3, <3>1, OneOwn
    <3> QED
      BY <1>4, <3>1, <3>2
  <2>5. Segment(d, <<>>, t, t)
    BY <2>4, SegmentEmpty
  <2>6. k \in Marks /\ k[1] = m[1] /\ k[2] = m[2] /\ k[3] = t /\ k[4] = t /\ k[5] = t
    BY <1>2, <2>4 DEF Marks
  <2> HIDE DEF k, t
  <2>7. Chain(d, k)'
    BY <1>4, <2>1, <2>3, <2>4, <2>5, <2>6 DEF Before, Chain
  <2> QED
    BY <2>6, <2>7
<1>7. CASE e # d
  <2>1. buffer'[d] = buffer[d]
    BY <1>1, <1>2, <1>4, <1>7
  <2>2. Segment(d, taken', m[2], m[3])
    BY <1>2, <1>3, <1>4, <1>5, <1>7, OneForeign DEF Marks
  <2> QED
    BY <1>2, <1>4, <2>1, <2>2 DEF Before, Chain
<1> QED
  BY <1>6, <1>7

LEMMA X11DrainChain ==
    ASSUME NEW d, NEW m, Before(d, m), X11Drain
    PROVE  \E k \in Marks : Chain(d, k)'
<1> DEFINE ready == IF xbuf = <<>> THEN socket ELSE xbuf
           head == Head(ready)
<1>1. /\ ready \in Seq(Event) /\ ready # <<>> /\ taken = <<>>
      /\ made \in [Devices -> Nat]
  BY DEF TypeOK, Before, X11Drain
<1>2. d \in Devices /\ m \in Marks /\ d = "mouse"
  BY DEF Before, Complete, Routes, X11Drain
<1>3. head \in Event
  BY <1>1, HeadTailProperties
<1>4. xbuf' = Tail(ready) /\ UNCHANGED <<handed, chan, buffer, made>>
  BY DEF X11Drain, Fetched, sessVars
<1>5. m[2] = m[3]
  BY <1>1, <1>2, SegmentEmpty DEF Before, Chain, Marks
<1>6. \E t \in Nat : Segment(d, ready, m[3], t) /\ Segment(d, socket', t, m[5])
  <2>0. m[4] \in Nat /\ m[5] \in Nat
    BY <1>2 DEF Marks
  <2>1. CASE xbuf = <<>>
    <3>1. m[3] = m[4]
      BY <1>2, <2>1, SegmentEmpty DEF Before, Chain, Marks
    <3>2. socket' = <<>>
      BY <2>1 DEF X11Drain
    <3> QED
      BY <1>2, <2>0, <2>1, <3>1, <3>2, SegmentEmpty DEF Before, Chain
  <2>2. CASE xbuf # <<>>
    BY <2>0, <2>2 DEF X11Drain, Before, Chain
  <2> QED
    BY <2>1, <2>2
<1>7. taken' = <<head>> \/ (taken' = <<>> /\ head.dev # d)
  BY <1>1, <1>2 DEF X11Drain, Fetched
<1>8. m[1] \in Nat /\ m[2] \in Nat /\ m[3] \in Nat /\ m[5] \in Nat
  BY <1>2 DEF Marks
<1>11. PICK top \in Nat : Segment(d, ready, m[3], top) /\ Segment(d, socket', top, m[5])
  BY <1>6
<1> HIDE DEF ready, head
<1>9. CASE head.dev = d
  <2> DEFINE k == [m EXCEPT ![3] = m[3] + 1, ![4] = top]
  <2>1. head.id = m[3] + 1 /\ Segment(d, xbuf', m[3] + 1, top)
    BY <1>1, <1>2, <1>4, <1>11, <1>8, <1>9, SegmentTailOwn DEF head
  <2>2. Segment(d, taken', m[2], m[3] + 1)
    BY <1>3, <1>5, <1>7, <1>8, <1>9, <2>1, OneOwn
  <2>3. k \in Marks /\ k[1] = m[1] /\ k[2] = m[2] /\ k[3] = m[3] + 1 /\ k[4] = top /\ k[5] = m[5]
    BY <1>2 DEF Marks
  <2> HIDE DEF k
  <2>4. Chain(d, k)'
    BY <1>4, <1>11, <2>1, <2>2, <2>3 DEF Before, Chain
  <2> QED
    BY <2>3, <2>4
<1>10. CASE head.dev # d
  <2> DEFINE k == [m EXCEPT ![4] = top]
  <2>1. Segment(d, xbuf', m[3], top)
    BY <1>1, <1>2, <1>4, <1>11, <1>8, <1>10, SegmentTailForeign DEF head
  <2>2. Segment(d, taken', m[2], m[3])
    BY <1>3, <1>5, <1>7, <1>8, <1>10, OneForeign, SegmentEmpty
  <2>3. k \in Marks /\ k[1] = m[1] /\ k[2] = m[2] /\ k[3] = m[3] /\ k[4] = top /\ k[5] = m[5]
    BY <1>2 DEF Marks
  <2> HIDE DEF k
  <2>4. Chain(d, k)'
    BY <1>4, <1>11, <2>1, <2>2, <2>3 DEF Before, Chain
  <2> QED
    BY <2>3, <2>4
<1> QED
  BY <1>9, <1>10

LEMMA HandChain ==
    ASSUME NEW d, NEW m, Before(d, m), chan' = chan \o taken, taken' = <<>>,
           UNCHANGED <<handed, xbuf, socket, buffer, made>>
    PROVE  \E k \in Marks : Chain(d, k)'
<1> DEFINE k == [m EXCEPT ![2] = m[3]]
<1>1. chan \in Seq(Event) /\ taken \in Seq(Event) /\ m \in Marks
  BY DEF Before, TypeOK
<1>2. m[1] \in Nat /\ m[2] \in Nat /\ m[3] \in Nat
  BY <1>1 DEF Marks
<1>3. Segment(d, chan', m[1], m[3])
  BY <1>1, <1>2, SegmentConcat DEF Before, Chain
<1>4. Segment(d, taken', m[3], m[3])
  BY <1>2, SegmentEmpty
<1>5. k \in Marks /\ k[1] = m[1] /\ k[2] = m[3] /\ k[3] = m[3] /\ k[4] = m[4] /\ k[5] = m[5]
  BY <1>1 DEF Marks
<1> HIDE DEF k
<1>6. Chain(d, k)'
  BY <1>3, <1>4, <1>5 DEF Before, Chain
<1> QED
  BY <1>5, <1>6

LEMMA ReceiveChain ==
    ASSUME NEW d, NEW m, Before(d, m), Receive
    PROVE  \E k \in Marks : Chain(d, k)'
<1> DEFINE head == Head(chan)
<1>1. chan \in Seq(Event) /\ chan # <<>> /\ handed \in Seq(Event) /\ m \in Marks
  BY DEF Before, TypeOK, Receive
<1>2. m[1] \in Nat /\ m[2] \in Nat
  BY <1>1 DEF Marks
<1>3. head \in Event
  BY <1>1, HeadTailProperties
<1>4. /\ handed' = Append(handed, head) /\ chan' = Tail(chan)
      /\ UNCHANGED <<taken, xbuf, socket, buffer, made>>
  BY DEF Receive, sourceVars
<1>5. Segment(d, handed, 0, m[1]) /\ Segment(d, chan, m[1], m[2])
  BY DEF Before, Chain
<1>6. CASE head.dev = d
  <2> DEFINE k == [m EXCEPT ![1] = m[1] + 1]
  <2>1. head.id = m[1] + 1 /\ Segment(d, chan', m[1] + 1, m[2])
    BY <1>1, <1>2, <1>4, <1>5, <1>6, SegmentTailOwn
  <2>2. Segment(d, handed', 0, m[1] + 1)
    BY <1>1, <1>2, <1>3, <1>4, <1>5, <1>6, <2>1, SegmentAppendOwn
  <2>3. k \in Marks /\ k[1] = m[1] + 1 /\ k[2] = m[2] /\ k[3] = m[3] /\ k[4] = m[4] /\ k[5] = m[5]
    BY <1>1 DEF Marks
  <2> HIDE DEF k
  <2>4. Chain(d, k)'
    BY <1>4, <2>1, <2>2, <2>3 DEF Before, Chain
  <2> QED
    BY <2>3, <2>4
<1>7. CASE head.dev # d
  <2>1. Segment(d, handed', 0, m[1]) /\ Segment(d, chan', m[1], m[2])
    BY <1>1, <1>2, <1>3, <1>4, <1>5, <1>7, SegmentAppendForeign, SegmentTailForeign
  <2> QED
    BY <1>1, <1>4, <2>1 DEF Before, Chain
<1> QED
  BY <1>6, <1>7

-----------------------------------------------------------------------------
(* The steps that move no event.                                           *)
Places == <<handed, chan, taken, xbuf, socket, buffer, made>>

LEMMA InitCapture == Init => Routes /\ Accounted
<1> SUFFICES ASSUME Init PROVE Routes /\ Accounted
  OBVIOUS
<1>1. Routes
  BY DEF Init, Routes, Alive, Devices
<1>2. ASSUME NEW d \in Devices PROVE \E m \in Marks : Chain(d, m)
  <2> DEFINE m == [i \in 1 .. 5 |-> 0]
  <2>1. m \in Marks /\ \A i \in 1 .. 5 : m[i] = 0
    BY DEF Marks
  <2>2. Segment(d, <<>>, 0, 0)
    BY SegmentEmpty
  <2>3. /\ handed = <<>> /\ chan = <<>> /\ taken = <<>> /\ xbuf = <<>> /\ socket = <<>>
        /\ buffer[d] = <<>> /\ made[d] = 0
    BY DEF Init
  <2> HIDE DEF m
  <2>4. Chain(d, m)
    BY <2>1, <2>2, <2>3 DEF Chain
  <2> QED
    BY <2>1, <2>4
<1> QED
  BY <1>1, <1>2 DEF Accounted

LEMMA FromKernelRoutes ==
    ASSUME TypeOK, Routes, NEW e \in Devices, FromKernel(e), backend \in {"evdev", "x11"}
    PROVE  Routes'
<1>1. buffer \in [Devices -> Seq(Event)] /\ buffer[e] # <<>>
  BY DEF TypeOK, FromKernel
<1>2. buffer' = [buffer EXCEPT ![e] = Tail(@)] /\ pc' = "hand" /\ UNCHANGED <<backend, xbuf, socket>>
  BY DEF FromKernel, Fetched, backendVars
<1>3. \A d \in Devices : \A i \in 1 .. Len(buffer'[d]) : buffer'[d][i].dev = d
  <2> SUFFICES ASSUME NEW d \in Devices, NEW i \in 1 .. Len(buffer'[d])
               PROVE  buffer'[d][i].dev = d
    OBVIOUS
  <2>1. CASE d = e
    <3>1. buffer'[d] = Tail(buffer[d])
      BY <1>1, <1>2, <2>1
    <3>2. i + 1 \in 1 .. Len(buffer[d]) /\ Tail(buffer[d])[i] = buffer[d][i + 1]
      BY <1>1, <2>1, <3>1, TailShifts
    <3> QED
      BY <3>1, <3>2 DEF Routes
  <2>2. CASE d # e
    BY <1>1, <1>2, <2>2 DEF Routes
  <2> QED
    BY <2>1, <2>2
<1>4. backend # "evdev" => e # "mouse"
  BY <1>1 DEF Routes
<1>5. backend # "evdev" => buffer'["mouse"] = <<>>
  BY <1>1, <1>2, <1>4 DEF Routes, Devices
<1> QED
  BY <1>2, <1>3, <1>5 DEF Routes, Alive

LEMMA UseRoutes ==
    ASSUME TypeOK, Routes, NEW e \in Devices, Use(e)
    PROVE  Routes'
<1> DEFINE seen(via) == [dev |-> e, id |-> made[e] + 1, via |-> via]
<1>1. seen("evdev") \in Event
  BY DEF Event, TypeOK
<1>2. /\ backend \in {"evdev", "x11"} /\ UNCHANGED <<backend, pc, xbuf>>
      /\ buffer \in [Devices -> Seq(Event)]
  BY DEF Use, Routes, TypeOK, backendVars
<1>3. \/ UNCHANGED buffer
      \/ ViaKernel(e) /\ buffer' = [buffer EXCEPT ![e] = Append(@, seen("evdev"))]
  BY DEF Use
<1>4. \A d \in Devices : \A i \in 1 .. Len(buffer'[d]) : buffer'[d][i].dev = d
  <2> SUFFICES ASSUME NEW d \in Devices, NEW i \in 1 .. Len(buffer'[d]), buffer' # buffer
               PROVE  buffer'[d][i].dev = d
    BY DEF Routes
  <2>1. CASE d = e
    <3>1. buffer'[d] = Append(buffer[d], seen("evdev")) /\ buffer[d] \in Seq(Event)
      BY <1>2, <1>3, <2>1
    <3>2. /\ Len(buffer'[d]) = Len(buffer[d]) + 1 /\ Len(buffer[d]) \in Nat
          /\ \A j \in 1 .. Len(buffer[d]) : buffer'[d][j] = buffer[d][j]
          /\ buffer'[d][Len(buffer[d]) + 1] = seen("evdev")
      BY <1>1, <3>1, AppendProperties
    <3>3. CASE i \in 1 .. Len(buffer[d])
      BY <3>2, <3>3 DEF Routes
    <3>4. CASE i = Len(buffer[d]) + 1
      BY <2>1, <3>2, <3>4
    <3> QED
      BY <3>2, <3>3, <3>4
  <2>2. CASE d # e
    BY <1>2, <1>3, <2>2 DEF Routes
  <2> QED
    BY <2>1, <2>2
<1>5. backend # "x11" => UNCHANGED socket
  BY DEF Use, ViaServer
<1>6. backend # "evdev" => buffer'["mouse"] = <<>>
  BY <1>2, <1>3 DEF Routes, ViaKernel, Devices
<1> QED
  BY <1>2, <1>4, <1>5, <1>6 DEF Routes, Alive

(* Every step keeps the routes and, while session and thread go on, what   *)
(* they carry.                                                             *)
StaysOrMoves ==
    /\ Routes'
    /\ Going' => Going
    /\ Going' => \/ UNCHANGED Places
                 \/ \A d, m : Before(d, m) => \E k \in Marks : Chain(d, k)'
    /\ backend = "none" \/ UNCHANGED backend

LEMMA ExitStays ==
    ASSUME TypeOK, Routes, Exit
    PROVE  StaysOrMoves
  BY DEF Exit, StaysOrMoves, Going, Routes, Alive, sourceVars

LEMMA QuietStays ==
    ASSUME Routes, UNCHANGED <<backend, Places>>, sess' = "running" => sess = "running",
           \/ UNCHANGED pc
           \/ pc = "top" /\ pc' = "look"
           \/ backend = "x11" /\ pc \in {"look", "poll", "drain"} /\ pc' \in {"look", "poll", "drain"}
    PROVE  StaysOrMoves
  BY DEF StaysOrMoves, Going, Routes, Alive, Places

LEMMA FromKernelStays ==
    ASSUME TypeOK, Routes, NEW e \in Devices, FromKernel(e),
           pc \in {"look", "poll"}, backend = "evdev" \/ (backend = "x11" /\ e = "keyboard")
    PROVE  StaysOrMoves
<1>1. Routes'
  BY FromKernelRoutes
<1>2. \A d, m : Before(d, m) => \E k \in Marks : Chain(d, k)'
  BY FromKernelChain
<1>3. UNCHANGED backend /\ UNCHANGED sess
  BY DEF FromKernel, Fetched, backendVars, sessVars
<1> QED
  BY <1>1, <1>2, <1>3 DEF StaysOrMoves, Going

LEMMA StepCapture ==
    ASSUME TypeOK, Routes, [Next]_vars
    PROVE  StaysOrMoves
<1> USE DEF backendVars, sourceVars, watchVars, sessVars
<1>1. CASE Create
  <2>1. CASE Exit
    BY <2>1, ExitStays
  <2>2. CASE /\ backend' \in Backends /\ pc = "starting" /\ pc' = "top"
             /\ UNCHANGED <<taken, sourceVars, chan, sessVars>>
    <3>1. backend = "none" /\ backend' \in {"evdev", "x11"}
      BY <2>2, CaptureAssumption DEF Routes
    <3>2. Routes'
      BY <2>2, <3>1 DEF Routes, Alive
    <3> QED
      BY <2>2, <3>1, <3>2 DEF StaysOrMoves, Going, Places
  <2> QED
    BY <1>1, <2>1, <2>2 DEF Create
<1>2. CASE Top
  <2>1. CASE Exit
    BY <2>1, ExitStays
  <2>2. CASE /\ pc = "top" /\ pc' = "look"
             /\ UNCHANGED <<backend, taken, sourceVars, chan, sessVars>>
    BY <2>2, QuietStays DEF Places
  <2> QED
    BY <1>2, <2>1, <2>2 DEF Top
<1>3. CASE EvdevEvent
  <2>1. PICK e \in Devices : FromKernel(e)
    BY <1>3 DEF EvdevEvent
  <2>2. pc = "look" /\ backend = "evdev"
    BY <1>3 DEF EvdevEvent
  <2> HIDE DEF backendVars, sourceVars, watchVars, sessVars
  <2> QED
    BY <2>1, <2>2, FromKernelStays
<1>4. CASE EvdevInterrupted \/ X11Breaks
  BY <1>4, ExitStays DEF EvdevInterrupted, X11Breaks
<1>5. CASE /\ backend = "x11" /\ pc \in {"look", "poll", "drain"} /\ pc' \in {"look", "poll", "drain"}
           /\ UNCHANGED <<backendVars, taken, sourceVars, chan, sessVars>>
  BY <1>5, QuietStays DEF Places
<1>6. CASE X11Look
  BY <1>5, <1>6, FromKernelStays DEF X11Look, Devices
<1>7. CASE X11Wake
  <2>1. backend = "x11"
    BY <1>7 DEF X11Wake, Routes
  <2> QED
    BY <1>5, <1>7, <2>1, FromKernelStays DEF X11Wake, Devices
<1>8. CASE X11Drain
  <2>1. backend = "x11" /\ pc = "drain"
    BY <1>8 DEF X11Drain, Routes
  <2>2. UNCHANGED <<backend, sess, buffer>> /\ pc' \in {"drain", "hand"}
    BY <1>8, <2>1 DEF X11Drain, Fetched
  <2>3. Routes'
    BY <2>1, <2>2 DEF Routes, Alive
  <2>4. \A d, m : Before(d, m) => \E k \in Marks : Chain(d, k)'
    BY <1>8, X11DrainChain
  <2> QED
    BY <2>1, <2>2, <2>3, <2>4 DEF StaysOrMoves, Going
<1>9. CASE X11Drained
  <2>1. backend = "x11"
    BY <1>9 DEF X11Drained, Routes
  <2> QED
    BY <1>5, <1>9, <2>1 DEF X11Drained
<1>10. CASE Hand
  <2>1. CASE Exit
    BY <2>1, ExitStays
  <2>2. CASE /\ chan' = chan \o taken /\ taken' = <<>> /\ pc = "hand" /\ pc' = "top"
             /\ UNCHANGED <<backendVars, sourceVars, sessVars>>
    <3>1. Routes'
      BY <2>2 DEF Routes, Alive
    <3>2. \A d, m : Before(d, m) => \E k \in Marks : Chain(d, k)'
      BY <2>2, HandChain
    <3> QED
      BY <2>2, <3>1, <3>2 DEF StaysOrMoves, Going
  <2> QED
    BY <1>10, <2>1, <2>2 DEF Hand
<1>11. CASE Receive
  <2>1. UNCHANGED <<backend, pc, sess, xbuf, socket, buffer>>
    BY <1>11 DEF Receive
  <2>2. Routes'
    BY <2>1 DEF Routes, Alive
  <2>3. \A d, m : Before(d, m) => \E k \in Marks : Chain(d, k)'
    BY <1>11, ReceiveChain
  <2> QED
    BY <2>1, <2>2, <2>3 DEF StaysOrMoves, Going
<1>12. CASE Leave
  <2>1. sess' = "waiting" /\ UNCHANGED <<backend, pc, xbuf, socket, buffer>>
    BY <1>12 DEF Leave
  <2> QED
    BY <2>1 DEF StaysOrMoves, Going, Routes, Alive
<1>13. CASE Return
  BY <1>13, QuietStays DEF Return, Places
<1>14. CASE Watch \/ SetGrab \/ Shutdown
  BY <1>14, QuietStays DEF Watch, SetGrab, Shutdown, Places
<1>15. ASSUME NEW e \in Devices, Use(e) PROVE StaysOrMoves
  <2>1. UNCHANGED <<backend, pc, sess>>
    BY <1>15 DEF Use
  <2>2. \A d, m : Before(d, m) => \E k \in Marks : Chain(d, k)'
    BY <1>15, UseChain
  <2> QED
    BY <1>15, <2>1, <2>2, UseRoutes DEF StaysOrMoves, Going
<1>16. CASE UNCHANGED vars
  BY <1>16, QuietStays DEF vars, Places
<1> QED
  BY <1>1, <1>2, <1>3, <1>4, <1>6, <1>7, <1>8, <1>9, <1>10, <1>11, <1>12, <1>13, <1>14,
     <1>15, <1>16 DEF Next, Thread

LEMMA StepAccounted ==
    ASSUME TypeOK, Routes, Accounted, [Next]_vars
    PROVE  Routes' /\ Accounted'
<1>1. StaysOrMoves
  BY StepCapture
<1>2. ASSUME Going', NEW d \in Devices, Complete(d)' PROVE (\E m \in Marks : Chain(d, m))'
  <2>1. Going /\ Complete(d)
    BY <1>1, <1>2 DEF StaysOrMoves, Complete
  <2>2. PICK m \in Marks : Chain(d, m)
    BY <2>1 DEF Accounted
  <2>3. Before(d, m)
    BY <2>1, <2>2 DEF Before
  <2>4. CASE UNCHANGED Places
    BY <2>2, <2>4 DEF Chain, Places
  <2>5. CASE \E k \in Marks : Chain(d, k)'
    BY <2>5
  <2> QED
    BY <1>1, <1>2, <2>3, <2>4, <2>5 DEF StaysOrMoves
<1> QED
  BY <1>1, <1>2 DEF StaysOrMoves, Accounted

(* The places in a row make the whole way.                                 *)
LEMMA WayGrows ==
    ASSUME NEW d, NEW p \in Seq(Event), NEW q \in Seq(Event), NEW mid \in Nat, NEW hi \in Nat,
           Segment(d, p, 0, mid), Segment(d, q, mid, hi)
    PROVE  p \o q \in Seq(Event) /\ Segment(d, p \o q, 0, hi)
<1>1. Segment(d, p \o q, 0, hi)
  BY SegmentConcat
<1>2. p \o q \in Seq(Event)
  BY ConcatProperties
<1> QED
  BY <1>1, <1>2

LEMMA ChainIsTheWay ==
    ASSUME NEW d, NEW m, Before(d, m)
    PROVE  InOrder(d, OnTheWay(d), 0, made[d])
<1>1. /\ handed \in Seq(Event) /\ chan \in Seq(Event) /\ taken \in Seq(Event)
      /\ xbuf \in Seq(Event) /\ socket \in Seq(Event) /\ buffer[d] \in Seq(Event)
      /\ made[d] \in Nat
  BY DEF Before, TypeOK
<1>2. m[1] \in Nat /\ m[2] \in Nat /\ m[3] \in Nat /\ m[4] \in Nat /\ m[5] \in Nat
  BY DEF Before, Marks
<1>3. /\ Segment(d, handed, 0, m[1]) /\ Segment(d, chan, m[1], m[2])
      /\ Segment(d, taken, m[2], m[3]) /\ Segment(d, xbuf, m[3], m[4])
      /\ Segment(d, socket, m[4], m[5]) /\ Segment(d, buffer[d], m[5], made[d])
  BY DEF Before, Chain
<1> DEFINE upTo2 == handed \o chan
           upTo3 == upTo2 \o taken
           upTo4 == upTo3 \o xbuf
           upTo5 == upTo4 \o socket
<1>4. upTo2 \in Seq(Event) /\ Segment(d, upTo2, 0, m[2])
  <2>1. /\ handed \in Seq(Event) /\ chan \in Seq(Event) /\ m[1] \in Nat /\ m[2] \in Nat
        /\ Segment(d, handed, 0, m[1]) /\ Segment(d, chan, m[1], m[2])
    BY <1>1, <1>2, <1>3
  <2> QED
    BY <2>1, WayGrows
<1>5. upTo3 \in Seq(Event) /\ Segment(d, upTo3, 0, m[3])
  <2>1. /\ taken \in Seq(Event) /\ m[2] \in Nat /\ m[3] \in Nat
        /\ Segment(d, taken, m[2], m[3])
    BY <1>1, <1>2, <1>3
  <2> HIDE DEF upTo2
  <2> QED
    BY <1>4, <2>1, WayGrows
<1>6. upTo4 \in Seq(Event) /\ Segment(d, upTo4, 0, m[4])
  <2>1. /\ xbuf \in Seq(Event) /\ m[3] \in Nat /\ m[4] \in Nat
        /\ Segment(d, xbuf, m[3], m[4])
    BY <1>1, <1>2, <1>3
  <2> HIDE DEF upTo3
  <2> QED
    BY <1>5, <2>1, WayGrows
<1>7. upTo5 \in Seq(Event) /\ Segment(d, upTo5, 0, m[5])
  <2>1. /\ socket \in Seq(Event) /\ m[4] \in Nat /\ m[5] \in Nat
        /\ Segment(d, socket, m[4], m[5])
    BY <1>1, <1>2, <1>3
  <2> HIDE DEF upTo4
  <2> QED
    BY <1>6, <2>1, WayGrows
<1>8. Segment(d, upTo5 \o buffer[d], 0, made[d])
  <2>1. /\ buffer[d] \in Seq(Event) /\ m[5] \in Nat /\ made[d] \in Nat
        /\ Segment(d, buffer[d], m[5], made[d])
    BY <1>1, <1>2, <1>3
  <2> HIDE DEF upTo5
  <2> QED
    BY <1>7, <2>1, WayGrows
<1> QED
  BY <1>8 DEF Segment, OnTheWay

(* As long as session and thread go on, the session receives every event   *)
(* of the devices once and in order, or it is still on its way: whatever   *)
(* the grab does, and however long the thread waits for a slot in the      *)
(* channel (lib.rs:905-940).                                               *)
THEOREM EveryEventOnce == Spec => []NothingLostOnTheWay
<1>1. TypeOK /\ Routes /\ Accounted => NothingLostOnTheWay
  <2> SUFFICES ASSUME TypeOK, Routes, Accounted, sess = "running", Alive,
                      NEW d \in Devices, Complete(d)
               PROVE  InOrder(d, OnTheWay(d), 0, made[d])
    BY DEF NothingLostOnTheWay, Complete
  <2>1. PICK m \in Marks : Chain(d, m)
    BY DEF Accounted, Going, Alive
  <2> QED
    BY <2>1, ChainIsTheWay DEF Before
<1> QED
  BY <1>1, InitType, StepType, InitCapture, StepAccounted, PTL DEF Spec
=============================================================================
