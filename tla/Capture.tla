------------------------------ MODULE Capture ------------------------------
(***************************************************************************)
(* The capture of one session: the thread of run_capture_loop, the two     *)
(* kinds of next_event it may block in (evdev_capture.rs, x11_capture.rs), *)
(* the watch channel that tells it to grab the devices, the channel it     *)
(* hands events over in, the watcher that interrupts it, and the session   *)
(* that waits for it in the end.                                           *)
(*                                                                         *)
(* The thread looks at the watch channel and at the shutdown only between  *)
(* two events, at "top".  Within next_event it sleeps until a device, or   *)
(* under evdev the watcher, wakes it.                                      *)
(***************************************************************************)
EXTENDS Integers, Sequences

CONSTANTS
    Backends,   \* the backends that can be created, of "evdev" and "x11"
    Capacity,   \* slots of the capture channel
    Events,     \* Events[d]: bound on the physical events of device d
    Wishes      \* bound on the changes of focus

Devices == {"keyboard", "mouse"}

ASSUME CaptureAssumption == /\ Backends \subseteq {"evdev", "x11"}
                            /\ Capacity \in Nat \ {0}
                            /\ Events \in [Devices -> Nat]
                            /\ Wishes \in Nat

VARIABLES
    backend,   \* the backend in use
    pc,        \* where the thread is
    taken,     \* the event next_event returned, until it is handed over
    grabbed,   \* the devices are grabbed
    kbd,       \* kbd_grabbed of X11Capture
    buffer,    \* buffer[d]: the kernel's buffer of the open evdev device d
    socket,    \* events on the socket of the X server
    xbuf,      \* events x11rb has read from it
    eventfd,   \* the shutdown fd is readable
    watcher,   \* the thread that polls the shutdown channel
    chan,      \* the capture channel
    sess,      \* the session: "running", "waiting" for the thread, "returned"
    wish,      \* value of the grab channel
    fresh,     \* ... which the thread has not seen
    shut,      \* value of the shutdown channel
    handed,    \* events the session has received (history)
    late,      \* events fetched since the wish is fresh (history)
    made,      \* made[d]: physical events of device d so far
    wishes     \* changes of focus left (bound)

backendVars == <<backend, grabbed, kbd>>
sourceVars  == <<buffer, socket, xbuf, made>>
watchVars   == <<eventfd, watcher>>
sessVars    == <<sess, wish, shut, handed, wishes>>
vars == <<backendVars, pc, taken, sourceVars, watchVars, chan, sessVars, fresh, late>>

(* An event is the i-th of its device, seen through the kernel or through  *)
(* the X server.  (Motion is accumulated up to the SYN that ends it.)      *)
Event == [dev : Devices, id : Nat \ {0}, via : {"evdev", "x11"}]

Init ==
    /\ backend = "none" /\ pc = "starting" /\ taken = <<>>
    /\ grabbed = FALSE /\ kbd = FALSE
    /\ buffer = [d \in Devices |-> <<>>] /\ socket = <<>> /\ xbuf = <<>>
    /\ eventfd = FALSE /\ watcher = "none"
    /\ chan = <<>> /\ sess = "running"
    /\ wish = FALSE /\ fresh = FALSE /\ shut = FALSE
    /\ handed = <<>> /\ late = 0
    /\ made = [d \in Devices |-> 0] /\ wishes = Wishes

Alive == pc \notin {"starting", "exited"}

-----------------------------------------------------------------------------
(* The user.  The kernel gives an event to everybody who has the device    *)
(* open, so to the X server unless the device is grabbed.  The X11 backend *)
(* opens the keyboards only, and reads them only while they are grabbed.   *)
ViaKernel(d) == backend = "evdev" \/ d = "keyboard"
ViaServer(d) == backend = "x11" /\ (d = "keyboard" => ~kbd)

Use(d) ==
    LET seen(via) == [dev |-> d, id |-> made[d] + 1, via |-> via] IN
    /\ Alive /\ made[d] < Events[d]
    /\ made' = [made EXCEPT ![d] = @ + 1]
    /\ buffer' = IF ViaKernel(d) THEN [buffer EXCEPT ![d] = Append(@, seen("evdev"))] ELSE buffer
    /\ socket' = IF ViaServer(d) THEN Append(socket, seen("x11")) ELSE socket
    /\ UNCHANGED <<backendVars, pc, taken, xbuf, watchVars, chan, sessVars, fresh, late>>

-----------------------------------------------------------------------------
(* The thread.  Whatever it grabbed goes free when it returns, because the *)
(* files and the connection to the X server are closed.                    *)
Exit ==
    /\ pc' = "exited"
    /\ grabbed' = FALSE /\ kbd' = FALSE
    /\ taken' = <<>>
    /\ UNCHANGED <<backend, sourceVars, chan, sessVars, fresh, late>>

(* create_capture: the wanted backend, another one, or none at all.  Only  *)
(* the capture of evdev has a fd for a watcher to write to.                *)
Create ==
    /\ pc = "starting"
    /\ \/ /\ backend' \in Backends
          /\ pc' = "top"
          /\ watcher' = IF backend' = "evdev" THEN "polling" ELSE "none"
          /\ UNCHANGED <<grabbed, kbd, taken, sourceVars, eventfd, chan, sessVars, fresh, late>>
       \/ Exit /\ UNCHANGED watchVars

(* Mistake: a notice is taken for a change of the value.                   *)
FollowNotice ==
    /\ grabbed' = ~grabbed
    /\ kbd' = (backend = "x11" /\ ~grabbed)

(* The grab of the pointer is refused under X11 while somebody else has    *)
(* it; nothing tries again.  The keyboards are grabbed as far as they can  *)
(* be.                                                                     *)
FollowWish ==
    \/ wish = grabbed /\ UNCHANGED <<grabbed, kbd>>
    \/ ~wish /\ grabbed /\ grabbed' = FALSE /\ kbd' = FALSE
    \/ wish /\ ~grabbed /\ grabbed' = TRUE /\ kbd' \in (IF backend = "x11" THEN BOOLEAN ELSE {FALSE})
    \/ wish /\ ~grabbed /\ backend = "x11" /\ UNCHANGED <<grabbed, kbd>>

Top ==
    /\ pc = "top"
    /\ \/ shut /\ Exit
       \/ /\ ~shut
          /\ \/ fresh /\ FollowWish
             \/ ~fresh /\ UNCHANGED <<grabbed, kbd>>
          /\ fresh' = FALSE /\ late' = 0
          /\ pc' = "look"
          /\ UNCHANGED <<backend, taken, sourceVars, chan, sessVars>>
    /\ UNCHANGED watchVars

(* next_event returns an event.                                            *)
Fetched(ev) ==
    /\ taken' = <<ev>>
    /\ pc' = "hand"
    /\ late' = IF fresh THEN late + 1 ELSE late
    /\ UNCHANGED <<backendVars, made, watchVars, chan, sessVars, fresh>>

FromKernel(d) ==
    /\ buffer[d] # <<>>
    /\ Fetched(Head(buffer[d]))
    /\ buffer' = [buffer EXCEPT ![d] = Tail(@)]
    /\ UNCHANGED <<socket, xbuf>>

(* evdev: the devices and the shutdown fd in whatever order epoll reports  *)
(* them.  Its timeout only goes round inside next_event.                   *)
EvdevEvent ==
    /\ pc = "look" /\ backend = "evdev"
    /\ \E d \in Devices : FromKernel(d)

EvdevInterrupted ==
    /\ pc = "look" /\ backend = "evdev"
    /\ eventfd
    /\ Exit /\ UNCHANGED watchVars

(* X11: grabbed keyboards come first; then the thread sleeps.              *)
X11Look ==
    /\ pc = "look" /\ backend = "x11"
    /\ \/ kbd /\ FromKernel("keyboard")
       \/ /\ ~(kbd /\ buffer["keyboard"] # <<>>)
          /\ pc' = "poll"
          /\ UNCHANGED <<backendVars, taken, sourceVars, watchVars, chan, sessVars, fresh, late>>

(* With a grabbed keyboard it sleeps 10 ms at most, else until the socket  *)
(* or a keyboard that nobody reads is readable; what x11rb has in its own  *)
(* buffer does not wake it.  A key that came in meanwhile goes first.      *)
X11Wake ==
    /\ pc = "poll"
    /\ \/ kbd /\ FromKernel("keyboard")
       \/ /\ kbd \/ socket # <<>> \/ buffer["keyboard"] # <<>>
          /\ ~(kbd /\ buffer["keyboard"] # <<>>)
          /\ pc' = "drain"
          /\ UNCHANGED <<backendVars, taken, sourceVars, watchVars, chan, sessVars, fresh, late>>

(* x11rb takes one event from its buffer, which it fills from the socket   *)
(* when it is empty.  Keys are thrown away while the keyboard is grabbed.  *)
X11Drain ==
    LET ready == IF xbuf = <<>> THEN socket ELSE xbuf IN
    /\ pc = "drain"
    /\ ready # <<>>
    /\ xbuf' = Tail(ready)
    /\ socket' = IF xbuf = <<>> THEN <<>> ELSE socket
    /\ UNCHANGED buffer
    /\ \/ kbd /\ Head(ready).dev = "keyboard"
          /\ UNCHANGED <<backendVars, pc, taken, made, watchVars, chan, sessVars, fresh, late>>
       \/ ~(kbd /\ Head(ready).dev = "keyboard") /\ Fetched(Head(ready))

X11Drained ==
    /\ pc = "drain" /\ xbuf = <<>> /\ socket = <<>>
    /\ pc' = "look"
    /\ UNCHANGED <<backendVars, taken, sourceVars, watchVars, chan, sessVars, fresh, late>>

X11Breaks ==
    /\ pc = "drain"
    /\ Exit /\ UNCHANGED watchVars

(* Mistake: one slot too many.                                             *)
HasRoomLate == Len(chan) <= Capacity

HasRoom == Len(chan) < Capacity

(* Mistakes: an event is dropped when the channel is full; the thread      *)
(* reads on without a look at the channels.                                *)
HandDropping ==
    /\ pc = "hand"
    /\ \/ /\ sess = "running"
          /\ chan' = IF Len(chan) < Capacity THEN chan \o taken ELSE chan
          /\ taken' = <<>> /\ pc' = "top"
          /\ UNCHANGED <<backendVars, sourceVars, sessVars, fresh, late>>
       \/ sess # "running" /\ Exit
    /\ UNCHANGED watchVars

HandReadingOn ==
    /\ pc = "hand"
    /\ \/ /\ sess = "running" /\ HasRoom
          /\ chan' = chan \o taken
          /\ taken' = <<>> /\ pc' = IF buffer["keyboard"] # <<>> THEN "look" ELSE "top"
          /\ UNCHANGED <<backendVars, sourceVars, sessVars, fresh, late>>
       \/ sess # "running" /\ Exit
    /\ UNCHANGED watchVars

(* blocking_send, which waits for a slot and fails once the session has    *)
(* closed the channel.                                                     *)
Hand ==
    /\ pc = "hand"
    /\ \/ /\ sess = "running" /\ HasRoom
          /\ chan' = chan \o taken
          /\ taken' = <<>> /\ pc' = "top"
          /\ UNCHANGED <<backendVars, sourceVars, sessVars, fresh, late>>
       \/ sess # "running" /\ Exit
    /\ UNCHANGED watchVars

(* Mistake: the watcher writes a zero, which makes no eventfd readable.    *)
SignalNothing == FALSE

(* The watcher sees the shutdown and writes to the shutdown fd, which is   *)
(* closed when the thread has returned.                                    *)
Signal == Alive

Watch ==
    /\ watcher = "polling" /\ shut
    /\ watcher' = "done"
    /\ eventfd' = Signal
    /\ UNCHANGED <<backendVars, pc, taken, sourceVars, chan, sessVars, fresh, late>>

-----------------------------------------------------------------------------
(* The session.                                                            *)
Receive ==
    /\ sess = "running" /\ chan # <<>>
    /\ handed' = Append(handed, Head(chan))
    /\ chan' = Tail(chan)
    /\ UNCHANGED <<backendVars, pc, taken, sourceVars, watchVars, sess, wish, shut, wishes,
                   fresh, late>>

(* grab_tx.send; after the thread is gone nobody hears it.                 *)
SetGrab ==
    /\ sess = "running" /\ wishes > 0
    /\ wishes' = wishes - 1
    /\ wish' \in BOOLEAN
    /\ fresh' = TRUE
    /\ UNCHANGED <<backendVars, pc, taken, sourceVars, watchVars, chan, sess, shut, handed, late>>

(* The session leaves its loop, on a shutdown or for reasons of its own,   *)
(* closes the channel and waits for the thread.  It does not ask for the   *)
(* grab to be released.                                                    *)
Leave ==
    /\ sess = "running"
    /\ sess' = "waiting" /\ chan' = <<>>
    /\ UNCHANGED <<backendVars, pc, taken, sourceVars, watchVars, wish, shut, handed, wishes,
                   fresh, late>>

LeaveOnShutdown == shut /\ Leave

Return ==
    /\ sess = "waiting" /\ pc = "exited"
    /\ sess' = "returned"
    /\ UNCHANGED <<backendVars, pc, taken, sourceVars, watchVars, chan, wish, shut, handed, wishes,
                   fresh, late>>

Shutdown ==
    /\ ~shut /\ shut' = TRUE
    /\ UNCHANGED <<backendVars, pc, taken, sourceVars, watchVars, chan, sess, wish, handed, wishes,
                   fresh, late>>

-----------------------------------------------------------------------------
Thread == \/ Create \/ Top \/ Hand \/ EvdevEvent \/ EvdevInterrupted
          \/ X11Look \/ X11Wake \/ X11Drain \/ X11Drained

Next == \/ Thread \/ X11Breaks \/ Watch
        \/ Receive \/ SetGrab \/ Leave \/ Return \/ Shutdown
        \/ \E d \in Devices : Use(d)

Spec == Init /\ [][Next]_vars

(* The thread runs when it is not asleep; epoll reports a readable fd in   *)
(* the end; the select! of the session takes its branches.  Nobody has to  *)
(* touch a device.                                                         *)
Fairness == /\ WF_vars(Thread) /\ WF_vars(Watch)
            /\ WF_vars(Receive) /\ WF_vars(LeaveOnShutdown)

FairSpec == Spec /\ Fairness

-----------------------------------------------------------------------------
(* The type invariant.                                                     *)
TypeOK ==
    /\ backend \in Backends \cup {"none"}
    /\ pc \in {"starting", "top", "look", "poll", "drain", "hand", "exited"}
    /\ taken \in Seq(Event) /\ Len(taken) = (IF pc = "hand" THEN 1 ELSE 0)
    /\ grabbed \in BOOLEAN /\ kbd \in BOOLEAN
    /\ buffer \in [Devices -> Seq(Event)]
    /\ socket \in Seq(Event) /\ xbuf \in Seq(Event)
    /\ eventfd \in BOOLEAN /\ watcher \in {"none", "polling", "done"}
    /\ chan \in Seq(Event) /\ Len(chan) <= Capacity
    /\ sess \in {"running", "waiting", "returned"}
    /\ wish \in BOOLEAN /\ fresh \in BOOLEAN /\ shut \in BOOLEAN
    /\ handed \in Seq(Event) /\ late \in Nat
    /\ made \in [Devices -> Nat] /\ wishes \in Nat

(* The events of device d among evs are its events lo + 1 to hi, once      *)
(* each and in the order they were made.                                   *)
InOrder(d, evs, lo, hi) ==
    LET own == {i \in 1 .. Len(evs) : evs[i].dev = d} IN
    /\ {evs[i].id : i \in own} = lo + 1 .. hi
    /\ \A i, j \in own : i < j => evs[i].id < evs[j].id

OnTheWay(d) == handed \o chan \o taken \o xbuf \o socket \o buffer[d]

(* As long as a session and its thread live, every event is on its way or  *)
(* has been handed over, once, in the order it was made, whatever the grab *)
(* and the limits of the channel did meanwhile: of both devices under      *)
(* evdev, of the mouse under X11.                                          *)
NothingLostOnTheWay ==
    (sess = "running" /\ Alive) =>
        \A d \in Devices : (backend = "x11" => d = "mouse") =>
            InOrder(d, OnTheWay(d), 0, made[d])

(* Under evdev the grab is what the session asked for last, unless that is *)
(* still to be seen; notices that were merged do no harm.  (Under X11 a    *)
(* refused grab is not tried again.)                                       *)
GrabKeepsUp == backend = "evdev" /\ Alive /\ ~fresh => grabbed = wish

(* At most one event is fetched with the old grab after the session asked  *)
(* for another.                                                            *)
LateAtMostOne == late <= 1

(* Under evdev every event reaches the session if that goes on.            *)
EventsArrive ==
    \A d \in Devices : \A i \in 1 .. Events[d] :
        (backend = "evdev" /\ made[d] >= i) ~>
            \/ sess # "running" \/ ~Alive
            \/ \E j \in 1 .. Len(handed) : handed[j].dev = d /\ handed[j].id = i

(* Under evdev a shutdown ends the thread, though it may sleep in          *)
(* next_event or be stuck at a full channel, and so the session.           *)
ShutdownEndsCapture == (shut /\ backend = "evdev") ~> (pc = "exited" /\ sess # "running")
=============================================================================
