-------------------------- MODULE SharedStateProofs --------------------------
(***************************************************************************)
(* Proofs about SharedState, for any number of sessions and of keys, any   *)
(* chord, and events and sessions without end.                             *)
(***************************************************************************)
EXTENDS SharedState, TLAPS

(* Where a session is says what its thread and its channel can be.         *)
Threads ==
    /\ \A s \in Sessions : mode[s] \in {"none", "recvonly"} => capture[s] = "exited"
    /\ alone => \A s, t \in Sessions : Running(s) /\ Running(t) => s = t

Inv == TypeOK /\ Threads /\ RemoteIsSomebodys /\ IdleIsClean /\ AloneGrabFollowsFocus

-----------------------------------------------------------------------------
(* Tracking never makes up a key.                                          *)
LEMMA AfterType == \A keys, evs : After(keys, evs) \in SUBSET Keys
BY DEF After

(* What is left of a queue, and a queue with one event more, are queues.   *)
LEMMA QueueType ==
    ASSUME NEW q \in Seq(Event), q # <<>>, NEW k \in 1 .. Len(q)
    PROVE  /\ Tail(q) \in Seq(Event)
           /\ SubSeq(q, k + 1, Len(q)) \in Seq(Event)
<1>1. Tail(q) \in Seq(Event)
  OBVIOUS
<1>2. k + 1 \in 1 .. Len(q) + 1
  OBVIOUS
<1> QED BY <1>1, <1>2

LEMMA BatchSizeType ==
    ASSUME TypeOK, NEW s \in Sessions, Waiting(s)
    PROVE  BatchSize(s) \in 1 .. Len(captured[s])
<1>1. captured[s] \in Seq(Event) /\ captured[s] # <<>>
  BY DEF TypeOK, Waiting
<1>2. Len(captured[s]) \in Nat /\ Len(captured[s]) >= 1
  BY <1>1
<1> QED BY <1>2, LimitsAssumption DEF BatchSize

(* A thread that returns leaves the threads, and the sessions, well-typed, *)
(* and makes no session run that did not.                                  *)
LEMMA ReturnType ==
    ASSUME TypeOK, Threads, NEW gone \in SUBSET Sessions, Return(gone)
    PROVE  /\ mode' \in [Sessions -> Modes]
           /\ grabbed' \in [Sessions -> BOOLEAN]
           /\ holder' \in {s \in Sessions : grabbed'[s]} \cup {Nobody}
           /\ capture' \in [Sessions -> {"running", "exited"}]
           /\ \A s \in Sessions : /\ Running(s)' <=> Running(s)
                                  /\ mode'[s] \in {"full", "recvonly"} => mode'[s] = mode[s]
                                  /\ capture'[s] = "running" => capture[s] = "running"
                                  /\ mode'[s] = "none" => capture'[s] = "exited"
                                  /\ mode'[s] = "recvonly" => capture'[s] = "exited"
<1>1. mode' \in [Sessions -> Modes] /\ grabbed' \in [Sessions -> BOOLEAN]
  BY DEF Return, TypeOK, Modes
<1>2. holder' \in {s \in Sessions : grabbed'[s]} \cup {Nobody}
  BY SessionsAssumption DEF Return, TypeOK
<1>3. capture' \in [Sessions -> {"running", "exited"}]
  BY DEF Return, TypeOK
<1>4. ASSUME NEW s \in Sessions
      PROVE  /\ Running(s)' <=> Running(s)
             /\ mode'[s] \in {"full", "recvonly"} => mode'[s] = mode[s]
             /\ capture'[s] = "running" => capture[s] = "running"
             /\ mode'[s] = "none" => capture'[s] = "exited"
             /\ mode'[s] = "recvonly" => capture'[s] = "exited"
  BY DEF Return, TypeOK, Threads, Running
<1> QED BY <1>1, <1>2, <1>3, <1>4

(* The two ends of the watch channel.                                      *)
LEMMA SetGrabType ==
    ASSUME TypeOK, NEW s \in Sessions, NEW v \in BOOLEAN, SetGrab(s, v)
    PROVE  /\ asked' \in [Sessions -> BOOLEAN] /\ news' \in [Sessions -> BOOLEAN]
           /\ capture[s] = "running" => asked'[s] = v
           /\ \A t \in Sessions : t # s => asked'[t] = asked[t]
BY DEF SetGrab, TypeOK

LEMMA GoRemoteType ==
    ASSUME TypeOK, Threads, NEW s \in Sessions, Running(s), GoRemote(s)
    PROVE  /\ focus' = TRUE
           /\ asked' \in [Sessions -> BOOLEAN] /\ news' \in [Sessions -> BOOLEAN]
           /\ capture[s] = "running" => asked'[s] = TRUE
BY SetGrabType DEF GoRemote, TypeOK, Threads

LEMMA GoLocalType ==
    ASSUME TypeOK, Threads, NEW s \in Sessions, Running(s), GoLocal(s)
    PROVE  /\ focus' = FALSE
           /\ asked' \in [Sessions -> BOOLEAN] /\ news' \in [Sessions -> BOOLEAN]
           /\ capture[s] = "running" => asked'[s] = FALSE
BY SetGrabType DEF GoLocal, TypeOK, Threads

-----------------------------------------------------------------------------
LEMMA InitInv == Init => Inv
<1> SUFFICES ASSUME Init PROVE Inv
  OBVIOUS
<1>1. TypeOK
  <2>1. captured \in [Sessions -> Seq(Event)]
    BY DEF Init
  <2> QED BY <2>1, LimitsAssumption DEF Init, TypeOK, Modes
<1>2. Threads /\ RemoteIsSomebodys /\ IdleIsClean /\ AloneGrabFollowsFocus
  BY DEF Init, Threads, RemoteIsSomebodys, IdleIsClean, AloneGrabFollowsFocus, Running
<1> QED BY <1>1, <1>2 DEF Inv

(* A branch of the select! loops of s that leaves modes and threads alone. *)
(* It either leaves focus and the watch channels as they are, or moves     *)
(* focus and says so to the thread of s.                                   *)
LEMMA BranchStep ==
    ASSUME Inv, NEW s \in Sessions, Running(s),
           UNCHANGED <<mode, threadVars, keyboardVars, alone, starts>>,
           pressed' \in SUBSET Keys, captured' \in [Sessions -> Seq(Event)],
           UNCHANGED <<focus, asked, news>> \/ GoRemote(s) \/ GoLocal(s)
    PROVE  Inv'
<1>1. TypeOK /\ Threads /\ RemoteIsSomebodys /\ AloneGrabFollowsFocus
  BY DEF Inv
<1>2. \A t \in Sessions : (Running(t)' <=> Running(t)) /\ capture'[t] = capture[t]
  BY DEF Running, threadVars
<1>3. /\ asked' \in [Sessions -> BOOLEAN] /\ news' \in [Sessions -> BOOLEAN]
      /\ focus' \in BOOLEAN
      /\ \/ UNCHANGED <<focus, asked>>
         \/ capture[s] = "running" => asked'[s] = focus'
         \/ focus' = FALSE
  BY <1>1, GoRemoteType, GoLocalType DEF TypeOK
<1>4. TypeOK'
  BY <1>1, <1>3 DEF TypeOK, threadVars, keyboardVars
<1>5. Threads'
  BY <1>1, <1>2 DEF Threads, threadVars
<1>6. RemoteIsSomebodys'
  <2>1. CASE UNCHANGED <<focus, asked, news>>
    BY <2>1, <1>1, <1>2 DEF RemoteIsSomebodys
  <2>2. CASE GoRemote(s)
    <3>1. capture[s] = "running" => asked'[s] = TRUE
      BY <2>2, <1>1, GoRemoteType
    <3>2. capture[s] \in {"running", "exited"}
      BY <1>1 DEF TypeOK
    <3> QED BY <3>1, <3>2, <1>2 DEF RemoteIsSomebodys
  <2>3. CASE GoLocal(s)
    BY <2>3 DEF GoLocal, RemoteIsSomebodys
  <2> QED BY <2>1, <2>2, <2>3
<1>7. IdleIsClean'
  BY <1>2 DEF IdleIsClean
<1>8. AloneGrabFollowsFocus'
  <2> SUFFICES ASSUME alone, NEW t \in Sessions, Running(t), capture[t] = "running"
               PROVE  asked'[t] = focus'
    BY <1>2 DEF AloneGrabFollowsFocus
  <2>1. t = s
    BY <1>1 DEF Threads
  <2>2. CASE UNCHANGED <<focus, asked, news>>
    BY <2>2, <1>1 DEF AloneGrabFollowsFocus
  <2>3. CASE GoRemote(s)
    BY <2>1, <2>3, <1>1, GoRemoteType
  <2>4. CASE GoLocal(s)
    BY <2>1, <2>4, <1>1, GoLocalType
  <2> QED BY <2>2, <2>3, <2>4
<1> QED BY <1>4, <1>5, <1>6, <1>7, <1>8 DEF Inv

(* Threads come and go, and events are read; focus, tracked keys and watch *)
(* channels stay what they are.                                            *)
LEMMA ThreadStep ==
    ASSUME Inv, NEW gone \in SUBSET Sessions, Return(gone),
           UNCHANGED <<stateVars, asked, news, alone, starts>>,
           phys' \in SUBSET Keys, budget' \in Nat,
           captured' \in [Sessions -> Seq(Event)]
    PROVE  Inv'
<1>1. TypeOK /\ Threads /\ RemoteIsSomebodys /\ IdleIsClean /\ AloneGrabFollowsFocus
  BY DEF Inv
<1>2. /\ mode' \in [Sessions -> Modes]
      /\ grabbed' \in [Sessions -> BOOLEAN]
      /\ holder' \in {s \in Sessions : grabbed'[s]} \cup {Nobody}
      /\ capture' \in [Sessions -> {"running", "exited"}]
      /\ \A s \in Sessions : /\ Running(s)' <=> Running(s)
                             /\ mode'[s] \in {"full", "recvonly"} => mode'[s] = mode[s]
                             /\ capture'[s] = "running" => capture[s] = "running"
                             /\ mode'[s] = "none" => capture'[s] = "exited"
                             /\ mode'[s] = "recvonly" => capture'[s] = "exited"
  BY <1>1, ReturnType
<1>3. TypeOK'
  BY <1>1, <1>2 DEF TypeOK, stateVars
<1>4. Threads'
  BY <1>1, <1>2 DEF Threads
<1>5. RemoteIsSomebodys'
  BY <1>1, <1>2 DEF RemoteIsSomebodys, stateVars, TypeOK
<1>6. IdleIsClean'
  BY <1>1, <1>2 DEF IdleIsClean, stateVars
<1>7. AloneGrabFollowsFocus'
  BY <1>1, <1>2 DEF AloneGrabFollowsFocus, stateVars
<1> QED BY <1>3, <1>4, <1>5, <1>6, <1>7 DEF Inv

(* One physical event more in the queues of those that read it.            *)
LEMMA PhysicalStep ==
    ASSUME Inv, NEW ev \in Event, Physical(ev), phys' \in SUBSET Keys
    PROVE  Inv'
<1>1. captured' \in [Sessions -> Seq(Event)]
  <2>1. \A s \in Sessions : captured[s] \in Seq(Event) /\ Append(captured[s], ev) \in Seq(Event)
    BY DEF Inv, TypeOK
  <2> QED BY <2>1 DEF Physical
<1>2. budget' \in Nat
  BY DEF Inv, TypeOK, Physical
<1>3. {s \in Readers : mode[s] = "draining"} \in SUBSET Sessions
  BY DEF Readers
<1> QED BY <1>1, <1>2, <1>3, ThreadStep DEF Physical

-----------------------------------------------------------------------------
LEMMA InvStep == Inv /\ [Next]_vars => Inv'
<1> SUFFICES ASSUME Inv, [Next]_vars PROVE Inv'
  OBVIOUS
<1>0. TypeOK /\ Threads /\ RemoteIsSomebodys /\ IdleIsClean /\ AloneGrabFollowsFocus
  BY DEF Inv
<1>1. ASSUME NEW s \in Sessions, Start(s) PROVE Inv'
  <2>1. /\ mode' = [mode EXCEPT ![s] = "full"] /\ mode[s] = "none"
        /\ asked' = [asked EXCEPT ![s] = FALSE] /\ news' = [news EXCEPT ![s] = FALSE]
        /\ capture' = [capture EXCEPT ![s] = "running"]
        /\ alone' = \A t \in Sessions : ~Running(t)
        /\ UNCHANGED <<focus, pressed, grabbed, holder, captured, phys, budget>>
    BY <1>1 DEF Start, stateVars, keyboardVars
  <2>2. ~Running(s) /\ Running(s)' /\ \A t \in Sessions : t # s => (Running(t)' <=> Running(t))
    BY <2>1, <1>0 DEF Running, TypeOK
  <2>3. TypeOK'
    BY <2>1, <1>0, <1>1 DEF TypeOK, Modes, Start
  <2>4. Threads'
    BY <2>1, <2>2, <1>0 DEF Threads, TypeOK
  <2>5. RemoteIsSomebodys'
    BY <2>1, <2>2, <1>0 DEF RemoteIsSomebodys, TypeOK
  <2>6. IdleIsClean'
    BY <2>2 DEF IdleIsClean
  <2>7. AloneGrabFollowsFocus'
    BY <2>1, <2>2, <1>0 DEF AloneGrabFollowsFocus, IdleIsClean, TypeOK
  <2> QED BY <2>3, <2>4, <2>5, <2>6, <2>7 DEF Inv
<1>2. ASSUME NEW s \in Sessions, Emergency(s) PROVE Inv'
  <2>1. pressed' \in SUBSET Keys
    BY <1>2, AfterType DEF Emergency, Track
  <2>2. captured' \in [Sessions -> Seq(Event)]
    <3>1. captured[s] \in Seq(Event) /\ captured[s] # <<>>
      BY <1>0, <1>2 DEF TypeOK, Emergency, Waiting
    <3> QED BY <3>1, <1>0, <1>2 DEF TypeOK, Emergency
  <2> QED BY <2>1, <2>2, <1>2, BranchStep DEF Emergency, Waiting, Running
<1>3. ASSUME NEW s \in Sessions, Forward(s) PROVE Inv'
  <2>1. pressed' \in SUBSET Keys
    BY <1>3, AfterType DEF Forward
  <2>2. captured' \in [Sessions -> Seq(Event)]
    <3>1. captured[s] \in Seq(Event) /\ captured[s] # <<>> /\ BatchSize(s) \in 1 .. Len(captured[s])
      BY <1>0, <1>3, BatchSizeType DEF TypeOK, Forward, Waiting
    <3>2. SubSeq(captured[s], BatchSize(s) + 1, Len(captured[s])) \in Seq(Event)
      BY <3>1, QueueType
    <3> QED BY <3>2, <1>0, <1>3 DEF TypeOK, Forward
  <2> QED BY <2>1, <2>2, <1>3, BranchStep DEF Forward, Waiting, Running
<1>4. ASSUME NEW s \in Sessions, TrackLocal(s) PROVE Inv'
  <2>1. pressed' \in SUBSET Keys
    BY <1>4, AfterType DEF TrackLocal, Track
  <2>2. captured' \in [Sessions -> Seq(Event)]
    <3>1. captured[s] \in Seq(Event) /\ captured[s] # <<>>
      BY <1>0, <1>4 DEF TypeOK, TrackLocal, Waiting
    <3> QED BY <3>1, <1>0, <1>4 DEF TypeOK, TrackLocal
  <2> QED BY <2>1, <2>2, <1>4, BranchStep DEF TrackLocal, Waiting, Running
<1>5. ASSUME NEW s \in Sessions, CaptureClosed(s) PROVE Inv'
  <2>1. /\ mode[s] = "full" /\ capture[s] = "exited"
        /\ mode' = [mode EXCEPT ![s] = "recvonly"]
        /\ UNCHANGED <<focus, pressed, asked, news, grabbed, holder, capture, captured,
                       phys, budget, alone, starts>>
    BY <1>5 DEF CaptureClosed, stateVars, threadVars, keyboardVars
  <2>2. \A t \in Sessions : Running(t)' <=> Running(t)
    BY <2>1, <1>0 DEF Running, TypeOK
  <2>3. TypeOK'
    BY <2>1, <1>0 DEF TypeOK, Modes
  <2>4. Threads'
    BY <2>1, <2>2, <1>0 DEF Threads, TypeOK
  <2>5. RemoteIsSomebodys' /\ IdleIsClean' /\ AloneGrabFollowsFocus'
    BY <2>1, <2>2, <1>0 DEF RemoteIsSomebodys, IdleIsClean, AloneGrabFollowsFocus
  <2> QED BY <2>3, <2>4, <2>5 DEF Inv
<1>6. ASSUME NEW s \in Sessions, RecvDatagram(s) \/ HearFocus(s) PROVE Inv'
  BY <1>0, <1>6, BranchStep DEF RecvDatagram, HearFocus, TypeOK
<1>7. ASSUME NEW s \in Sessions, EndSession(s) PROVE Inv'
  <2>1. /\ focus' = FALSE /\ pressed' = {}
        /\ captured' = [captured EXCEPT ![s] = <<>>]
        /\ mode' = [mode EXCEPT ![s] = IF capture[s] = "running" THEN "draining" ELSE "none"]
        /\ UNCHANGED <<asked, news, grabbed, holder, capture, phys, budget, alone, starts>>
    BY <1>7 DEF EndSession, threadVars, keyboardVars
  <2>2. ~Running(s)' /\ \A t \in Sessions : t # s => (Running(t)' <=> Running(t))
    BY <2>1, <1>0 DEF Running, TypeOK
  <2>3. TypeOK'
    <3>1. mode' \in [Sessions -> Modes]
      BY <2>1, <1>0 DEF TypeOK, Modes
    <3>2. captured' \in [Sessions -> Seq(Event)]
      BY <2>1, <1>0 DEF TypeOK
    <3> QED BY <3>1, <3>2, <2>1, <1>0 DEF TypeOK
  <2>4. Threads'
    BY <2>1, <2>2, <1>0 DEF Threads, TypeOK
  <2>5. RemoteIsSomebodys' /\ IdleIsClean'
    BY <2>1 DEF RemoteIsSomebodys, IdleIsClean
  <2>6. AloneGrabFollowsFocus'
    <3>1. ASSUME NEW t \in Sessions, alone, Running(t)' PROVE FALSE
      BY <3>1, <2>2, <1>0, <1>7 DEF Threads, EndSession
    <3> QED BY <3>1, <2>1 DEF AloneGrabFollowsFocus
  <2> QED BY <2>3, <2>4, <2>5, <2>6 DEF Inv
<1>8. ASSUME NEW s \in Sessions, CaptureFails(s) PROVE Inv'
  BY <1>0, <1>8, ThreadStep DEF CaptureFails, TypeOK, keyboardVars
<1>9. ASSUME NEW s \in Sessions, ApplyGrab(s) PROVE Inv'
  <2>1. /\ news' = [news EXCEPT ![s] = FALSE]
        /\ grabbed' = [grabbed EXCEPT ![s] = asked[s]]
        /\ UNCHANGED <<mode, focus, pressed, asked, capture, captured, phys, budget,
                       alone, starts>>
    BY <1>9 DEF ApplyGrab, stateVars, keyboardVars
  <2>2. holder' \in {t \in Sessions : grabbed'[t]} \cup {Nobody}
    <3>1. holder' = IF asked[s] /\ ~grabbed[s] /\ holder = Nobody THEN s
                    ELSE IF ~asked[s] /\ holder = s THEN Nobody ELSE holder
      BY <1>9 DEF ApplyGrab
    <3>2. CASE holder = s
      BY <3>1, <3>2, <2>1, <1>0, SessionsAssumption DEF TypeOK
    <3>3. CASE holder # s
      BY <3>1, <3>3, <2>1, <1>0, SessionsAssumption DEF TypeOK
    <3> QED BY <3>2, <3>3
  <2>3. TypeOK'
    BY <2>1, <2>2, <1>0 DEF TypeOK
  <2>4. Threads' /\ RemoteIsSomebodys' /\ IdleIsClean' /\ AloneGrabFollowsFocus'
    BY <2>1, <1>0 DEF Threads, RemoteIsSomebodys, IdleIsClean, AloneGrabFollowsFocus, Running
  <2> QED BY <2>3, <2>4 DEF Inv
<1>10. CASE PressKey
  <2>1. PICK k \in Keys \ phys : /\ Physical([kind |-> "key", key |-> k, down |-> TRUE])
                                 /\ phys' = phys \cup {k}
    BY <1>10 DEF PressKey
  <2> QED BY <2>1, <1>0, PhysicalStep DEF TypeOK, Event, KeyEvent
<1>11. CASE ReleaseKey
  <2>1. PICK k \in phys : Physical(KeyUp(k)) /\ phys' = phys \ {k}
    BY <1>11 DEF ReleaseKey
  <2>2. KeyUp(k) \in Event
    BY <1>0 DEF TypeOK, Event, KeyEvent, KeyUp
  <2> QED BY <2>1, <2>2, <1>0, PhysicalStep DEF TypeOK
<1>12. CASE MoveMouse
  <2>1. [kind |-> "move"] \in Event
    BY DEF Event
  <2> QED BY <2>1, <1>12, <1>0, PhysicalStep DEF MoveMouse, TypeOK
<1>13. CASE UNCHANGED vars
  BY <1>0, <1>13 DEF vars, Inv, TypeOK, Threads, RemoteIsSomebodys, IdleIsClean,
                     AloneGrabFollowsFocus, Running
<1> QED BY <1>1, <1>2, <1>3, <1>4, <1>5, <1>6, <1>7, <1>8, <1>9, <1>10, <1>11, <1>12, <1>13
        DEF Next, SessionStep

-----------------------------------------------------------------------------
(* The state of a daemon keeps its types, whatever its sessions do to it   *)
(* and to each other, and whoever holds the devices grabbed them.          *)
THEOREM TypeCorrect == Spec => []TypeOK
<1>1. Inv => TypeOK
  BY DEF Inv
<1> QED BY InitInv, InvStep, <1>1, PTL DEF Spec

(* However many sessions share the flag, a remote focus has a session that *)
(* runs and asked for the devices, or runs without a capture.              *)
THEOREM RemoteHasSession == Spec => []RemoteIsSomebodys
<1>1. Inv => RemoteIsSomebodys
  BY DEF Inv
<1> QED BY InitInv, InvStep, <1>1, PTL DEF Spec

(* A daemon whose sessions are all over is as good as new.                 *)
THEOREM IdleDaemonIsClean == Spec => []IdleIsClean
<1>1. Inv => IdleIsClean
  BY DEF Inv
<1> QED BY InitInv, InvStep, <1>1, PTL DEF Spec

(* A session that no other one overlaps asks for the devices exactly while *)
(* focus is remote, whatever the sessions before it left behind.           *)
THEOREM SequentialSessions == Spec => []AloneGrabFollowsFocus
<1>1. Inv => AloneGrabFollowsFocus
  BY DEF Inv
<1> QED BY InitInv, InvStep, <1>1, PTL DEF Spec
=============================================================================
