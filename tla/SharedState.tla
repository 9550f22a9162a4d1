----------------------------- MODULE SharedState -----------------------------
(***************************************************************************)
(* Several sessions of one daemon.  Daemon::run accepts every connection   *)
(* and dials on request, so that a second machine, or the same one dialled *)
(* from both sides, makes a second peer_session.  Each has its own capture *)
(* thread, event channel and grab watch channel; all share one DaemonState *)
(* (lib.rs:41-58), with one focus flag and one set of tracked keys, and    *)
(* all capture the same devices.                                           *)
(*                                                                         *)
(* The capture is the one for evdev: every thread that has the devices     *)
(* open reads every event, unless one of them has grabbed the devices.     *)
(* The peers are the environment: they may hand focus over, or hang up, at *)
(* any time.  What is sent to them is PeerSession, and so is the cursor,   *)
(* of which only matters here that a motion may reach the target edge.     *)
(***************************************************************************)
EXTENDS Integers, Sequences, FiniteSets, KeyTracking

CONSTANTS
    Sessions,    \* those that may run at the same time
    Nobody,      \* no session
    BatchLimit,  \* EVENT_BATCH_LIMIT
    Starts,      \* bound on the sessions that start
    Budget       \* bound on the physical events

ASSUME SessionsAssumption == Nobody \notin Sessions

ASSUME LimitsAssumption == /\ Hotkey \subseteq Keys
                           /\ BatchLimit \in Nat \ {0}
                           /\ Starts \in Nat /\ Budget \in Nat

VARIABLES
    mode,      \* mode[s]: where peer_session of s is
    focus,     \* focus_is_remote
    pressed,   \* pressed_keys and pressed_buttons
    asked,     \* asked[s]: the value of the grab watch channel
    news,      \* news[s]: has_changed of its receiver
    grabbed,   \* grabbed[s]: the capture of s takes the devices for grabbed
    holder,    \* who has grabbed the devices
    capture,   \* capture[s]: the capture thread
    captured,  \* captured[s]: events captured and not yet handled
    phys,      \* keys physically held
    alone,     \* no two sessions ran at once since the first one of those
               \* that run now started (history)
    starts,    \* sessions that may still start (bound)
    budget     \* physical events left (bound)

stateVars   == <<focus, pressed>>
threadVars  == <<grabbed, holder, capture>>
keyboardVars == <<phys, budget>>
vars == <<mode, focus, pressed, asked, news, grabbed, holder, capture, captured,
          phys, alone, starts, budget>>

Event == KeyEvent \cup [kind : {"move"}]

(* "none": no session, or one that has returned; the others as in          *)
(* PeerSession.                                                            *)
Modes == {"none", "full", "recvonly", "draining"}

Running(s) == mode[s] \in {"full", "recvonly"}

Track(keys, ev) == After(keys, <<ev>>)

-----------------------------------------------------------------------------
Init ==
    /\ mode = [s \in Sessions |-> "none"]
    /\ focus = FALSE /\ pressed = {}
    /\ asked = [s \in Sessions |-> FALSE]
    /\ news = [s \in Sessions |-> FALSE]
    /\ grabbed = [s \in Sessions |-> FALSE]
    /\ holder = Nobody
    /\ capture = [s \in Sessions |-> "exited"]
    /\ captured = [s \in Sessions |-> <<>>]
    /\ phys \in SUBSET Keys
    /\ alone = TRUE
    /\ starts = Starts /\ budget = Budget

(* The handshake is over: peer_session makes its channels and its thread.  *)
(* It touches neither focus nor the tracked keys.                          *)
Start(s) ==
    /\ mode[s] = "none" /\ starts > 0
    /\ starts' = starts - 1
    /\ mode' = [mode EXCEPT ![s] = "full"]
    /\ asked' = [asked EXCEPT ![s] = FALSE]
    /\ news' = [news EXCEPT ![s] = FALSE]
    /\ capture' = [capture EXCEPT ![s] = "running"]
    /\ alone' = \A t \in Sessions : ~Running(t)
    /\ UNCHANGED <<stateVars, grabbed, holder, captured, keyboardVars>>

-----------------------------------------------------------------------------
(* The capture threads.                                                    *)

(* Threads return: their devices are closed, which gives up a grab, and a  *)
(* session that waits for its thread returns.  Mistake: the files stay     *)
(* open.                                                                   *)
ReturnHolding(gone) ==
    /\ capture' = [s \in Sessions |-> IF s \in gone THEN "exited" ELSE capture[s]]
    /\ grabbed' = [s \in Sessions |-> s \notin gone /\ grabbed[s]]
    /\ mode' = [s \in Sessions |->
                   IF s \in gone /\ mode[s] = "draining" THEN "none" ELSE mode[s]]
    /\ UNCHANGED holder

Return(gone) ==
    /\ capture' = [s \in Sessions |-> IF s \in gone THEN "exited" ELSE capture[s]]
    /\ grabbed' = [s \in Sessions |-> s \notin gone /\ grabbed[s]]
    /\ holder' = IF holder \in gone THEN Nobody ELSE holder
    /\ mode' = [s \in Sessions |->
                   IF s \in gone /\ mode[s] = "draining" THEN "none" ELSE mode[s]]

CaptureFails(s) ==
    /\ capture[s] = "running"
    /\ Return({s})
    /\ UNCHANGED <<stateVars, asked, news, captured, keyboardVars, alone, starts>>

(* run_capture_loop looks at the watch channel.  EVIOCGRAB fails while     *)
(* another file has the devices; grab_pointer reports success all the same.*)
ApplyGrab(s) ==
    /\ capture[s] = "running" /\ news[s]
    /\ news' = [news EXCEPT ![s] = FALSE]
    /\ grabbed' = [grabbed EXCEPT ![s] = asked[s]]
    /\ holder' = IF asked[s] /\ ~grabbed[s] /\ holder = Nobody THEN s
                 ELSE IF ~asked[s] /\ holder = s THEN Nobody ELSE holder
    /\ UNCHANGED <<mode, stateVars, asked, capture, captured, keyboardVars, alone, starts>>

Readers == {s \in Sessions : capture[s] = "running" /\ holder \in {s, Nobody}}

(* A physical event is read by every thread that can, and passed on; a     *)
(* thread whose channel is closed returns.                                 *)
Physical(ev) ==
    /\ budget > 0 /\ budget' = budget - 1
    /\ captured' = [s \in Sessions |-> IF s \in Readers /\ mode[s] = "full"
                                       THEN Append(captured[s], ev) ELSE captured[s]]
    /\ Return({s \in Readers : mode[s] = "draining"})
    /\ UNCHANGED <<stateVars, asked, news, alone, starts>>

PressKey == \E k \in Keys \ phys :
    /\ Physical([kind |-> "key", key |-> k, down |-> TRUE])
    /\ phys' = phys \cup {k}

ReleaseKey == \E k \in phys :
    /\ Physical(KeyUp(k))
    /\ phys' = phys \ {k}

MoveMouse == Physical([kind |-> "move"]) /\ UNCHANGED phys

-----------------------------------------------------------------------------
(* grab_tx.send: without a receiver it fails and the value stays.          *)
SetGrab(s, value) ==
    /\ asked' = IF capture[s] = "running" THEN [asked EXCEPT ![s] = value] ELSE asked
    /\ news'  = IF capture[s] = "running" THEN [news EXCEPT ![s] = TRUE] ELSE news

(* Focus goes to the peer of s.  Only the main loop asks for the grab; the *)
(* capture of a session that is in the other loop is gone.  Mistake: no    *)
(* branch asks for it.                                                     *)
GoRemoteUngrabbed(s) == focus' = TRUE /\ UNCHANGED <<asked, news>>

GoRemote(s) ==
    /\ focus' = TRUE
    /\ \/ mode[s] = "full" /\ SetGrab(s, TRUE)
       \/ mode[s] = "recvonly" /\ UNCHANGED <<asked, news>>

(* Focus is local again.  Mistake: the thread of s is not told.            *)
GoLocalGrabbing(s) == focus' = FALSE /\ UNCHANGED <<asked, news>>

GoLocal(s) ==
    /\ focus' = FALSE
    /\ \/ mode[s] = "full" /\ SetGrab(s, FALSE)
       \/ mode[s] = "recvonly" /\ UNCHANGED <<asked, news>>

(* The loops are left, for whatever reason: the cleanup resets what all    *)
(* sessions share and the session waits for its thread.  Mistake: keys are *)
(* forgotten only when they were flushed.                                  *)
EndSessionKeeping(s) ==
    /\ Running(s)
    /\ focus' = FALSE
    /\ pressed' = IF focus THEN {} ELSE pressed
    /\ captured' = [captured EXCEPT ![s] = <<>>]
    /\ mode' = [mode EXCEPT ![s] = IF capture[s] = "running" THEN "draining" ELSE "none"]
    /\ UNCHANGED <<asked, news, threadVars, keyboardVars, alone, starts>>

EndSession(s) ==
    /\ Running(s)
    /\ focus' = FALSE /\ pressed' = {}
    /\ captured' = [captured EXCEPT ![s] = <<>>]
    /\ mode' = [mode EXCEPT ![s] = IF capture[s] = "running" THEN "draining" ELSE "none"]
    /\ UNCHANGED <<asked, news, threadVars, keyboardVars, alone, starts>>

-----------------------------------------------------------------------------
(* The branches of the select! loops.                                      *)
Waiting(s) == mode[s] = "full" /\ captured[s] # <<>>

Emergency(s) ==
    LET keys == Track(pressed, Head(captured[s])) IN
    /\ Waiting(s)
    /\ focus /\ ChordHeld(keys)
    /\ pressed' = keys
    /\ captured' = [captured EXCEPT ![s] = Tail(@)]
    /\ GoLocal(s)
    /\ UNCHANGED <<mode, threadVars, keyboardVars, alone, starts>>

BatchSize(s) == IF Len(captured[s]) < BatchLimit THEN Len(captured[s]) ELSE BatchLimit

Forward(s) ==
    /\ Waiting(s)
    /\ focus /\ ~ChordHeld(Track(pressed, Head(captured[s])))
    /\ pressed' = After(pressed, SubSeq(captured[s], 1, BatchSize(s)))
    /\ captured' = [captured EXCEPT ![s] = SubSeq(@, BatchSize(s) + 1, Len(@))]
    /\ UNCHANGED <<mode, focus, asked, news, threadVars, keyboardVars, alone, starts>>

(* Of a motion event it is open whether it reaches the target edge.        *)
TrackLocal(s) ==
    LET ev == Head(captured[s]) IN
    /\ Waiting(s)
    /\ ~focus
    /\ pressed' = Track(pressed, ev)
    /\ captured' = [captured EXCEPT ![s] = Tail(@)]
    /\ \/ UNCHANGED <<focus, asked, news>>
       \/ ev.kind = "move" /\ GoRemote(s)
    /\ UNCHANGED <<mode, threadVars, keyboardVars, alone, starts>>

CaptureClosed(s) ==
    /\ mode[s] = "full"
    /\ capture[s] = "exited" /\ captured[s] = <<>>
    /\ mode' = [mode EXCEPT ![s] = "recvonly"]
    /\ UNCHANGED <<stateVars, asked, news, threadVars, captured, keyboardVars, alone, starts>>

(* A datagram whose motion reaches the target edge; any other changes      *)
(* nothing here.                                                           *)
RecvDatagram(s) ==
    /\ Running(s) /\ ~focus
    /\ GoRemote(s)
    /\ UNCHANGED <<mode, pressed, threadVars, captured, keyboardVars, alone, starts>>

HearFocus(s) ==
    /\ Running(s)
    /\ GoLocal(s)
    /\ UNCHANGED <<mode, pressed, threadVars, captured, keyboardVars, alone, starts>>

-----------------------------------------------------------------------------
SessionStep(s) ==
    \/ Start(s) \/ Emergency(s) \/ Forward(s) \/ TrackLocal(s) \/ CaptureClosed(s)
    \/ RecvDatagram(s) \/ HearFocus(s) \/ EndSession(s)
    \/ CaptureFails(s) \/ ApplyGrab(s)

Next == (\E s \in Sessions : SessionStep(s)) \/ PressKey \/ ReleaseKey \/ MoveMouse

Spec == Init /\ [][Next]_vars

-----------------------------------------------------------------------------
(* The type invariant.                                                     *)
TypeOK ==
    /\ mode \in [Sessions -> Modes]
    /\ focus \in BOOLEAN
    /\ pressed \in SUBSET Keys
    /\ asked \in [Sessions -> BOOLEAN] /\ news \in [Sessions -> BOOLEAN]
    /\ grabbed \in [Sessions -> BOOLEAN]
    /\ holder \in {s \in Sessions : grabbed[s]} \cup {Nobody}
    /\ capture \in [Sessions -> {"running", "exited"}]
    /\ captured \in [Sessions -> Seq(Event)]
    /\ phys \in SUBSET Keys
    /\ alone \in BOOLEAN
    /\ starts \in Nat /\ budget \in Nat

(* Whatever several sessions do to the flag they share, a remote focus is  *)
(* somebody's: a session runs that asked for the devices, or that has lost *)
(* its own capture.  There is always one to whom the chord, the peer or    *)
(* the end of the session gives focus back.                                *)
RemoteIsSomebodys ==
    focus => \E s \in Sessions : Running(s) /\ (asked[s] \/ capture[s] = "exited")

(* A daemon without a session has its focus at home and no key on its      *)
(* list, in whatever order its sessions ended: the next one starts clean   *)
(* (lib.rs:795-799), with no half of a chord left over.                    *)
IdleIsClean ==
    (\A s \in Sessions : ~Running(s)) => ~focus /\ pressed = {}

(* Sessions that follow one another do not disturb each other, although    *)
(* the thread of the last one may still hold the devices when the next     *)
(* begins: a session that is, and was, alone asks for the devices exactly  *)
(* while focus is remote.                                                  *)
AloneGrabFollowsFocus ==
    alone => \A s \in Sessions :
                Running(s) /\ capture[s] = "running" => asked[s] = focus
=============================================================================
