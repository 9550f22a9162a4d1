------------------------------ MODULE InputPath ------------------------------
(***************************************************************************)
(* What a session makes of an input: from the devices of the machine that  *)
(* has them grabbed, through next_event of evdev_capture.rs or             *)
(* x11_capture.rs, to the machine that has the focus, which tracks the     *)
(* cursor, looks for its edge and replays the event with evdev_emulate.rs  *)
(* or x11_emulate.rs.  The network is taken to deliver everything, one     *)
(* event a frame; PeerSession has what it really does.                     *)
(*                                                                         *)
(* Motion is counted in 1/Unit of a pixel, buttons and keys are named by   *)
(* their evdev codes.                                                      *)
(***************************************************************************)
EXTENDS EdgeDetector, Sequences, FiniteSets

CONSTANTS
    Unit,      \* fractions of a pixel that a raw motion of XInput may have
    Paths,     \* backends of the two machines and how keys are read, below
    Mice,      \* relative devices
    Keyboard,  \* the other device
    Gestures,  \* what a user does with a mouse between two SYN_REPORTs
    Codes,     \* the keys of the keyboard
    Screens,   \* screens of the machine with the focus
    Inputs     \* bound on what the user does

REL_X == 0
REL_Y == 1
REL_HWHEEL == 6
REL_WHEEL == 8

Buttons == 272 .. 276   \* BTN_LEFT, BTN_RIGHT, BTN_MIDDLE, BTN_SIDE, BTN_EXTRA

(* A path: what captures, whether an X11 capture could grab the keyboards  *)
(* (kbd_grabbed), what replays.                                            *)
Path == [capture : {"evdev", "x11"}, kbd : BOOLEAN, emulate : {"uinput", "xtest"}]

Gesture == [dx : Int, dy : Int, wheel : Int, tilt : Int, button : Buttons \cup {0}]

ASSUME PathAssumption == /\ Unit \in Nat \ {0}
                         /\ Paths \subseteq Path /\ Gestures \subseteq Gesture
                         /\ Keyboard \notin Mice /\ Codes \subseteq Nat \ Buttons
                         /\ \A s \in Screens : IsScreen(s)
                         /\ Inputs \in Nat

VARIABLES
    path,      \* the path in use
    screen,    \* the screen of the machine with the focus, its target edge
    edge,
    buffer,    \* buffer[d]: raw events of the evdev device d
    reading,   \* the device next_event is draining, or "none"
    pending,   \* pending_dx and pending_dy
    server,    \* events of the X server
    wire,      \* events on their way
    cursor,    \* the tracked cursor
    over,      \* the edge was hit, the focus is on its way back
    replayed,  \* what the emulated devices reported: motion in pixels, notches
    held,      \* buttons and keys that are down on the emulated devices
    made,      \* what the user did (history), motion in units
    phys,      \* phys[d]: buttons and keys that are down on d
    typed,     \* keys that were ever down (history)
    inputs     \* inputs left (bound)

places    == <<path, screen, edge>>
userVars  == <<made, phys, typed, inputs>>
replayVars == <<cursor, over, replayed, held>>
vars == <<places, buffer, reading, pending, server, wire, replayVars, userVars>>

Devices == Mice \cup {Keyboard}

Nothing == [x |-> 0, y |-> 0, wheel |-> 0, tilt |-> 0]

(* InputEvent.                                                             *)
Move(dx, dy)   == [kind |-> "move", dx |-> dx, dy |-> dy]
Scroll(dx, dy) == [kind |-> "scroll", dx |-> dx, dy |-> dy]
Press(k, b, v) == [kind |-> k, code |-> b, down |-> v]

InputEvent == [kind : {"move", "scroll"}, dx : Int, dy : Int]
                  \cup [kind : {"button", "key"}, code : Nat, down : BOOLEAN]

(* Everything but the choice of a screen.                                  *)
Start == /\ path \in Paths /\ edge \in Edges
         /\ buffer = [d \in Devices |-> <<>>] /\ reading = "none"
         /\ pending = [x |-> 0, y |-> 0]
         /\ server = <<>> /\ wire = <<>>
         /\ cursor = Centre(screen) /\ over = FALSE
         /\ replayed = Nothing /\ held = {}
         /\ made = Nothing /\ phys = [d \in Devices |-> {}] /\ typed = {}

Init == screen \in Screens /\ Start /\ inputs = Inputs

-----------------------------------------------------------------------------
(* The user.  The kernel hands a packet over as a whole; here what is      *)
(* returned at once stands between a motion and the SYN that ends it.      *)
Raw(type, code, value) == [type |-> type, code |-> code, value |-> value]

Unless(zero, v, raw) == IF v = zero THEN <<>> ELSE <<raw>>

Packet(g, down) ==
    Unless(0, g.dx, Raw("REL", REL_X, g.dx)) \o Unless(0, g.dy, Raw("REL", REL_Y, g.dy))
    \o Unless(0, g.button, Raw("KEY", g.button, IF down THEN 1 ELSE 0))
    \o Unless(0, g.wheel, Raw("REL", REL_WHEEL, g.wheel))
    \o Unless(0, g.tilt, Raw("REL", REL_HWHEEL, g.tilt))
    \o <<Raw("SYN", 0, 0)>>

(* The X server reports the raw motion, which may have fractions, and a    *)
(* click of the buttons 4 to 7 for each notch.                             *)
XNumber == [b \in Buttons |-> CASE b = 272 -> 1 [] b = 273 -> 3 [] b = 274 -> 2
                                [] b = 275 -> 8 [] b = 276 -> 9]

Size(n) == IF n < 0 THEN -n ELSE n

Clicks(n, back, forth) ==
    [i \in 1 .. 2 * Size(n) |-> [type |-> "RawButton", detail |-> IF n < 0 THEN back ELSE forth,
                                 down |-> i % 2 = 1]]

XEvents(g, down) ==
    Unless(<<0, 0>>, <<g.dx, g.dy>>, [type |-> "RawMotion", dx |-> g.dx, dy |-> g.dy])
    \o Unless(0, g.button, [type |-> "RawButton",
                            detail |-> IF g.button = 0 THEN 0 ELSE XNumber[g.button], down |-> down])
    \o Clicks(g.wheel, 5, 4) \o Clicks(g.tilt, 6, 7)

(* Nobody uses the same button of two mice within a moment: the capture    *)
(* takes the two for one, and may read a press before an earlier release.  *)
Free(d, k) == \A e \in Devices \ {d} :
                 k \notin phys[e] /\ \A i \in 1 .. Len(buffer[e]) : buffer[e][i].code # k

Toggled(d, k) == [phys EXCEPT ![d] = IF k \in @ THEN @ \ {k} ELSE @ \cup {k}]

WholePixels(g) == g.dx % Unit = 0 /\ g.dy % Unit = 0

UseMouse(d, g) ==
    LET down == g.button \notin phys[d] IN
    /\ inputs > 0 /\ inputs' = inputs - 1
    /\ g.button # 0 => Free(d, g.button)
    /\ made' = [x |-> made.x + g.dx, y |-> made.y + g.dy,
                wheel |-> made.wheel + g.wheel, tilt |-> made.tilt + g.tilt]
    /\ phys' = IF g.button = 0 THEN phys ELSE Toggled(d, g.button)
    /\ \/ /\ path.capture = "evdev" /\ WholePixels(g)
          /\ buffer' = [buffer EXCEPT ![d] = @ \o
                Packet([g EXCEPT !.dx = @ \div Unit, !.dy = @ \div Unit], down)]
          /\ UNCHANGED server
       \/ /\ path.capture = "x11"
          /\ server' = server \o XEvents(g, down)
          /\ UNCHANGED buffer
    /\ UNCHANGED <<places, reading, pending, wire, replayVars, typed>>

(* A key goes down or up, or repeats; the X server knows no code above     *)
(* 247.  (A grabbed keyboard is read by the capture itself.)               *)
ViaServer == path.capture = "x11" /\ ~path.kbd

UseKeyboard(k, value) ==
    LET down == k \in phys[Keyboard] IN
    /\ inputs > 0 /\ inputs' = inputs - 1
    /\ value = 0 <=> (down /\ value # 2)
    /\ value = 2 => down /\ ~ViaServer
    /\ phys' = IF value = 2 THEN phys ELSE Toggled(Keyboard, k)
    /\ typed' = typed \cup {k}
    /\ \/ /\ ~ViaServer
          /\ buffer' = [buffer EXCEPT ![Keyboard] = @ \o
                           <<Raw("KEY", k, value), Raw("SYN", 0, 0)>>]
          /\ UNCHANGED server
       \/ /\ ViaServer /\ k <= 247
          /\ server' = Append(server, [type |-> "RawKey", detail |-> k + 8, down |-> value = 1])
          /\ UNCHANGED buffer
    /\ UNCHANGED <<places, reading, pending, wire, replayVars, made>>

-----------------------------------------------------------------------------
(* next_event of evdev: one raw event after the other from a device that   *)
(* is readable, until the device is drained or an event is returned.  The  *)
(* motion of all devices is added up in one place.                         *)
Returned(ev) == wire' = Append(wire, ev) /\ reading' = "none"

ReadOn(d) == /\ reading' = (IF Len(buffer[d]) > 1 THEN d ELSE "none")
             /\ UNCHANGED wire

(* Mistakes: the motion of before goes on counting; a wheel forgets the    *)
(* motion that waits for its SYN.                                          *)
EndOfReportKeeping(d) ==
    /\ IF pending = [x |-> 0, y |-> 0] THEN ReadOn(d) ELSE Returned(Move(pending.x, pending.y))
    /\ UNCHANGED pending

EndOfReport(d) ==
    /\ IF pending = [x |-> 0, y |-> 0] THEN ReadOn(d) ELSE Returned(Move(pending.x, pending.y))
    /\ pending' = [x |-> 0, y |-> 0]

Relative(d, raw) ==
    \/ raw.code = REL_X /\ pending' = [pending EXCEPT !.x = @ + raw.value * Unit] /\ ReadOn(d)
    \/ raw.code = REL_Y /\ pending' = [pending EXCEPT !.y = @ + raw.value * Unit] /\ ReadOn(d)
    \/ raw.code = REL_WHEEL /\ Returned(Scroll(0, -raw.value)) /\ UNCHANGED pending
    \/ raw.code = REL_HWHEEL /\ Returned(Scroll(raw.value, 0)) /\ UNCHANGED pending

(* translate_key_event: a key that repeats is ignored.                     *)
TranslateKey(d, raw) ==
    /\ CASE raw.code \in Buttons -> Returned(Press("button", raw.code, raw.value # 0))
         [] raw.code \notin Buttons /\ raw.value = 2 -> ReadOn(d)
         [] OTHER -> Returned(Press("key", raw.code, raw.value # 0))
    /\ UNCHANGED pending

ReadEvdev(d) ==
    LET raw == Head(buffer[d]) IN
    /\ path.capture = "evdev"
    /\ reading \in {"none", d} /\ buffer[d] # <<>>
    /\ \/ raw.type = "SYN" /\ EndOfReport(d)
       \/ raw.type = "REL" /\ Relative(d, raw)
       \/ raw.type = "KEY" /\ TranslateKey(d, raw)
    /\ buffer' = [buffer EXCEPT ![d] = Tail(@)]
    /\ UNCHANGED <<places, server, replayVars, userVars>>

(* next_event of X11: the keyboards it has grabbed, whatever their codes,  *)
(* and the events of the server.                                           *)
ReadKeyboard ==
    LET raw == Head(buffer[Keyboard]) IN
    /\ path.capture = "x11" /\ path.kbd /\ buffer[Keyboard] # <<>>
    /\ IF raw.type = "KEY" /\ raw.value # 2
          THEN Returned(Press("key", raw.code, raw.value # 0))
          ELSE UNCHANGED <<wire, reading>>
    /\ buffer' = [buffer EXCEPT ![Keyboard] = Tail(@)]
    /\ UNCHANGED <<places, pending, server, replayVars, userVars>>

(* map_x11_button, to the names of MouseButton.  Mistake: the order of the *)
(* buttons of evdev.                                                       *)
MapButtonInOrder(n) == IF n <= 3 THEN 271 + n ELSE 267 + n

MapButton(n) == CHOOSE b \in Buttons : XNumber[b] = n

ReadServer ==
    LET ev == Head(server)
        notch == [n \in 4 .. 7 |-> CASE n = 4 -> Scroll(0, -1) [] n = 5 -> Scroll(0, 1)
                                     [] n = 6 -> Scroll(-1, 0) [] n = 7 -> Scroll(1, 0)] IN
    /\ path.capture = "x11" /\ server # <<>>
    /\ server' = Tail(server)
    /\ CASE ev.type = "RawMotion" -> Returned(Move(ev.dx, ev.dy))
         [] ev.type = "RawKey" -> Returned(Press("key", ev.detail - 8, ev.down))
         [] ev.type = "RawButton" /\ ev.detail \in 4 .. 7 ->
               IF ev.down THEN Returned(notch[ev.detail]) ELSE UNCHANGED <<wire, reading>>
         [] OTHER -> Returned(Press("button", MapButton(ev.detail), ev.down))
    /\ UNCHANGED <<places, buffer, pending, replayVars, userVars>>

-----------------------------------------------------------------------------
(* The other machine.  "as i32" and "as i16" cut towards zero.             *)
Trunc(v) == IF v < 0 THEN -((-v) \div Unit) ELSE v \div Unit

Moved(ev) == [dx |-> Trunc(ev.dx), dy |-> Trunc(ev.dy)]

(* The edge is hit: the frame is not replayed, the cursor is re-centred.   *)
(* Mistake: it stays where it is.                                          *)
HitEdgeStaying(p) == over' = TRUE /\ cursor' = p /\ UNCHANGED <<replayed, held>>

HitEdge(p) == over' = TRUE /\ cursor' = Centre(screen) /\ UNCHANGED <<replayed, held>>

(* A uinput device reports the keys it has registered, 1 to 255 and the    *)
(* five buttons; XTest adds 8 and keeps eight bits, and the X server       *)
(* refuses a keycode below 8.                                              *)
Registered == 1 .. 255 \cup Buttons

KeyReplayed(code) == IF path.emulate = "uinput" THEN {code} \cap Registered
                                                ELSE {((code + 8) % 256) - 8} \cap Nat

(* Mistake: the wheel is turned the way the protocol counts.               *)
WheelUnturned(dy) == dy

Wheel(dy) == -dy

Replay(ev) ==
    /\ replayed' = CASE ev.kind = "move"   -> [replayed EXCEPT !.x = @ + Trunc(ev.dx),
                                                               !.y = @ + Trunc(ev.dy)]
                     [] ev.kind = "scroll" -> [replayed EXCEPT !.wheel = @ + Wheel(ev.dy),
                                                               !.tilt = @ + ev.dx]
                     [] OTHER -> replayed
    /\ held' = LET codes == CASE ev.kind = "button" -> {ev.code}
                              [] ev.kind = "key" -> KeyReplayed(ev.code)
                              [] OTHER -> {}
               IN  IF codes # {} /\ ev.down THEN held \cup codes ELSE held \ codes
    /\ UNCHANGED over

(* A datagram of one event, with no cooldown on; after a hit the machine   *)
(* has given the focus away and ignores what still comes.                  *)
Receive ==
    LET ev == Head(wire)
        p == IF ev.kind = "move" THEN MoveCursor(screen, cursor, Moved(ev)) ELSE cursor IN
    /\ wire # <<>> /\ ~over
    /\ wire' = Tail(wire)
    /\ \/ ev.kind = "move" /\ Hits(screen, edge, p) /\ HitEdge(p)
       \/ ~(ev.kind = "move" /\ Hits(screen, edge, p)) /\ cursor' = p /\ Replay(ev)
    /\ UNCHANGED <<places, buffer, reading, pending, server, userVars>>

-----------------------------------------------------------------------------
Next == \/ \E d \in Mice, g \in Gestures : UseMouse(d, g)
        \/ \E k \in Codes, value \in 0 .. 2 : UseKeyboard(k, value)
        \/ \E d \in Devices : ReadEvdev(d)
        \/ ReadKeyboard \/ ReadServer \/ Receive

Spec == Init /\ [][Next]_vars

-----------------------------------------------------------------------------
(* The type invariant.  The X server knows nine buttons, four of them for  *)
(* the wheels, and no keycode below 8.                                     *)
RawEvent == [type : {"REL", "KEY", "SYN"}, code : Nat, value : Int]

ServerEvent == [type : {"RawMotion"}, dx : Int, dy : Int]
                   \cup [type : {"RawButton"}, detail : 1 .. 9, down : BOOLEAN]
                   \cup [type : {"RawKey"}, detail : Nat \ (0 .. 7), down : BOOLEAN]

Count == [x : Int, y : Int, wheel : Int, tilt : Int]

TypeOK == /\ path \in Paths /\ screen \in Screens /\ edge \in Edges
          /\ buffer \in [Devices -> Seq(RawEvent)] /\ reading \in Devices \cup {"none"}
          /\ pending \in [x : Int, y : Int]
          /\ server \in Seq(ServerEvent) /\ wire \in Seq(InputEvent)
          /\ cursor \in Positions(screen) /\ over \in BOOLEAN
          /\ replayed \in Count /\ made \in Count
          /\ held \subseteq Nat /\ phys \in [Devices -> SUBSET (Codes \cup Buttons)]
          /\ typed \subseteq Codes /\ inputs \in 0 .. Inputs

Quiet == /\ \A d \in Devices : buffer[d] = <<>>
         /\ server = <<>> /\ wire = <<>> /\ ~over

(* The motion of all mice arrives, to the pixel, though it is added up in  *)
(* one place, buttons and wheels are returned in between and next_event    *)
(* may come back to another device.  (XInput's fractions do not: each      *)
(* event loses its own.)                                                   *)
MotionArrives ==
    Quiet /\ path.capture = "evdev"
        => replayed.x * Unit = made.x /\ replayed.y * Unit = made.y

(* Every notch of a wheel arrives, and in the direction it was made, from  *)
(* each backend to each.                                                   *)
ScrollArrives == Quiet => replayed.wheel = made.wheel /\ replayed.tilt = made.tilt

(* A button or key is down over there iff it is down here, of those that   *)
(* the emulated device can report; XTest can as long as no code was typed  *)
(* but 1 to 247: it would take a higher one for another key, and code 0,   *)
(* which the kernel reserves, for a key that no uinput device has.         *)
KeysArrive ==
    (Quiet /\ (path.emulate = "xtest" => typed \subseteq 1 .. 247))
        => held = Registered \cap UNION {phys[d] : d \in Devices}

(* Re-centring really disarms the detector: on every screen of at least    *)
(* three pixels a side the next hit needs at least one motion event that   *)
(* leaves the centre (lib.rs:671 "so next switch requires reaching edge    *)
(* again").                                                                *)
RecentredIsQuiet ==
    (over /\ screen.w >= 3 /\ screen.h >= 3) => ~Hits(screen, edge, cursor)

(* The length of the target edge that is not eaten by the dead zones: an   *)
(* edge at least two dead zones long keeps a stretch that hands focus      *)
(* over, wherever the corners' off-by-one falls.                           *)
Side(s, e) == IF e \in {"Left", "Right"} THEN s.h ELSE s.w

EdgeStaysReachable ==
    Side(screen, edge) >= 2 * screen.dz
        => \E p \in Positions(screen) : Hits(screen, edge, p)
=============================================================================
