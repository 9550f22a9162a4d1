# A TLA+ model of kmflow

kmflow lets two computers share one keyboard and mouse: when the cursor reaches
a screen edge, input is captured, sent to the other machine over QUIC and
replayed there. This directory models the parts of it whose behaviour depends on
the order in which things happen, checks them with TLC on small instances and
proves the most important invariants with TLAPS for all values of the constants.
Paths below are relative to `crates/` of the repository.

## The system

| component | state | operations | hard part |
|---|---|---|---|
| peer session (`kmflow-daemon/src/lib.rs`, `peer_session`) | `DaemonState`: focus flag, tracked cursor, pressed keys and buttons, `seq_counter`, `last_focus_switch`; channels to the capture thread | one `select!` loop with branches for shutdown, captured events, datagrams, control messages, clipboard; a second loop for a machine that cannot capture | both machines act at once; two channels with different guarantees; the state survives the session |
| capture loop (`run_capture_loop`) | the device grab, the watch channels it looks at | a blocking thread: read an event, queue it, look at grab and shutdown before each | it only looks when an event arrives |
| edge detector (`edge.rs`) | none | `check`, `in_corner` | off-by-one at borders and corners |
| handshake (`lib.rs:263-396`) | control stream | Handshake / HandshakeAck, choice of the target edge | either side may fail half way; each infers its edge from the other's |
| control framing (`quic.rs:166-182`) | the bytes of the control stream | `send_control`, `recv_control` | `recv_control` is dropped half way by `select!` |
| shared state (`DaemonState`) | one focus flag and one set of keys | every session reads and resets them | several sessions, one state, the same devices |
| daemon main loop and dialling (`lib.rs:127-261, 813-864`) | connection state, map of peers, dial queue | accept, dial with retries, IPC | blocks while dialling; two sessions on one `DaemonState` |
| connection state (`state.rs`) | one enum | `transition_to` | failures are ignored by the callers |
| clipboard sync (`clipboard.rs`, `lib.rs:433-536`) | shared hash, three channels, a stream per text | poll, send, accept, receive, write | the poller and the receiver race; the main loop waits at both ends |
| QUIC transport (`kmflow-net/src/quic.rs`) | connection, streams | datagrams, length-prefixed control messages | `recv_control` is dropped and restarted by `select!` |
| discovery (`discovery.rs`) | a UDP broadcast socket, the map of peers heard of | announce, listen, expire, ask for a dial | a peer is dialled when it is new, and only then |
| trust (`tls.rs`, `TofuVerifier`) | identity and known peers on disk | load or generate, trust | two files, no atomic write |
| IPC and command line (`ipc.rs`, `kmflow-cli`) | none | one request, one response | `Stop` races with the session |
| X11 and evdev devices (`kmflow-input`) | fds, grabs, pending motion | capture, emulate | two sources of key events under X11; four encodings of one event |

Interaction: the capture thread sends events to the session through a channel of
256 slots; the session tells the thread to grab or not through a watch channel;
sessions exchange event frames in unreliable datagrams and control messages on
one reliable stream; the clipboard uses a stream per text; `Stop` sets a watch
channel that the main loop, the sessions and the capture threads all look at.

What makes each part correct: the two focus flags agree but for notices that are on
their way or were lost; the grab follows the focus; the tracked keys are the keys held; what a user
does to the devices is what the emulated devices do; the end of one session ends
the other; a control message that is handled was sent; sessions of one daemon
leave it as they found it; the detector triggers where it should and not again
without a motion; a text that is copied arrives and does not come back, and no
text keeps the input waiting.

## Modules

| module | models | kind |
|---|---|---|
| `EdgeDetector` | `edge.rs` and the cursor arithmetic around it | operators |
| `EdgeDetectorProofs` | facts about every screen | proofs |
| `InputPath` | an event from the device to the emulated device: both captures, the wire, the tracked cursor and its edge, both emulators | specification |
| `MCInputPath` | gestures, paths and every small screen | checked instance |
| `InputPathProofs` | motion, notches, buttons and keys arrive, and what the hit of an edge leaves behind, for all constants | proofs |
| `FocusHandoff` | what kmflow promises about focus | abstract specification |
| `KeyTracking` | `track_key_state`, `flush_pressed_keys`, `check_emergency_hotkey` | operators |
| `PeerSession` | the loops of `peer_session` on both machines, with devices and network; the mapping to `FocusHandoff` | specification |
| `MCPeerSession` | instances, the documents' claims | checked instance |
| `PeerSessionProofs` | invariants of `PeerSession`, and that it implements `FocusHandoff`, for all constants | proofs |
| `SharedState` | several sessions of one daemon on one `DaemonState` and the same devices | specification |
| `MCSharedState` | instances, a claim of the documents | checked instance |
| `SharedStateProofs` | invariants of `SharedState` for any number of sessions | proofs |
| `ControlStream` | the handshake and the control stream byte by byte | specification |
| `MCControlStream` | instances, a claim of the documents | checked instance |
| `ControlStreamProofs` | what is handled was sent, edges agree, for all sizes | proofs |
| `Dialling` | discovery, `Daemon::run`, `connect_to`, the handshake and what overlapping sessions do to one connection state | specification |
| `MCDialling` | instances, a claim of the documents | checked instance |
| `DiallingProofs` | invariants of `Dialling` for all constants | proofs |
| `Capture` | the capture thread of one session with its devices, under evdev and X11 | specification |
| `MCCapture` | instances | checked instance |
| `CaptureProofs` | no event is lost or doubled, the grab follows the session's wish, for all constants | proofs |
| `Clipboard` | clipboard synchronisation from one clipboard to the other, with its channels, streams and main loops | specification |
| `MCClipboard` | instances | checked instance |
| `ClipboardProofs` | a text does not come back, for all texts and channels | proofs |

The modules describe the same pair of daemons at several places and fit together
at their borders. `PeerSession` starts where `Activate` of `Dialling` ends and its
end is `Reset` there; its `grab`, `capture` and `captured` are what `Capture`
looks into; an event in `captured` is one that `InputPath` has made of a device's.
`PeerSession` takes from `ControlStream` that a message that is handled is a whole
message of the peer and that one may be cut off and lost (`CutOff`), and knows one
session per daemon: `SharedState` has several,
and takes from `PeerSession` what one does. `KeyTracking` and `EdgeDetector` are
the operators they share.

### EdgeDetector

A screen is `[w, h, dz]`. `Hits` is `check`, `InCorner` is `in_corner` with its
comparisons as they stand, `MoveCursor` the clamped sum that precedes every
check. Moves are whole numbers: the code truncates with `as i32` before it adds,
which is `Trunc` of `InputPath`.

### InputPath

| variable | code |
|---|---|
| `buffer`, `reading` | raw evdev events of each device; the fd that `next_event` is draining |
| `pending` | `pending_dx`, `pending_dy`, one pair for all devices |
| `server` | raw events of XInput |
| `wire` | the events on their way, one a frame |
| `cursor`, `over` | the tracked cursor of the machine with the focus; whether it has just hit its edge |
| `replayed`, `held` | what the uinput device or XTest has made of them: motion, notches, buttons and keys that are down |
| `made`, `phys`, `typed` | the same, as the user did it |

`ReadEvdev`, `ReadKeyboard` and `ReadServer` are the sources of `next_event`,
`Receive` the datagram branch with edge check and `emit`. A `Gesture` is what a
mouse does within one report. The kernel, the X server and the user are external.

Abstractions: nothing is lost or reordered (`PeerSession` has that); no cooldown
runs; the capture is grabbed, and X11 either could grab the keyboards or could
not; there is one keyboard. What one user does with the same button of two mice at
once is left out, since the code takes all devices for one. Motion beyond 16 bits,
which XTest would wrap, is left out.

### PeerSession

One action is one branch of the `select!` loop, from the await that made it ready
to the next turn of the loop. Within a machine branches do not interleave, since
one task runs them; between the machines, the capture threads and the network
everything does.

| variable | code |
|---|---|
| `mode` | the loop the task is in: `full`, `recvonly` (capture channel closed), `draining` (past the cleanup, awaiting the capture thread), `ended` |
| `focus`, `cursor`, `pressed`, `seq` | the fields of `DaemonState` |
| `cooling` | `last_focus_switch.elapsed() < EDGE_COOLDOWN` |
| `grab` | the value of the grab watch channel |
| `capture`, `captured` | the capture thread, and what it has read that was not handled: the channel and the buffers below it |
| `phys`, `early`, `budget` | the keyboard itself; keys held since before the session; the bound on physical events |
| `held` | keys the emulated device holds down |
| `ctrl`, `dgram`, `up` | control stream, datagrams on their way, the connection |
| `torn` | `recv_control` would start in the middle of a message, because the last call was dropped there |
| `missed` | history: the machine is remote, and a notice to it was torn since it took focus |
| `shutdown` | the shutdown watch channel |

| action | branch |
|---|---|
| `Emergency`, `Forward`, `TrackLocal` | the three outcomes of a captured event (`lib.rs:608-683`) |
| `CaptureClosed` | the channel is closed: the receive-only loop (`lib.rs:511-516`) |
| `RecvDatagram` | `lib.rs:685-736` and `538-579` |
| `HearFocus`, `RecvError` | `lib.rs:738-776` and `580-603` |
| `CutOff` | another branch of `select!` drops `recv_control` with what it has read (`quic.rs:174-181`) |
| `HandleShutdown`, `EndSession` | `lib.rs:484-487` and the cleanup `780-811` |
| `PressKey`, `ReleaseKey`, `MoveMouse`, `CaptureFails`, `CaptureInterrupted` | the capture thread |
| `CooldownExpires`, `Shutdown`, `ProcessExit`, `ConnectionLost`, `LoseDatagram` | time, the operator, the runtime, the network |

Abstractions, and why they keep the behaviour:

- A control message is handled whole and in the order of sending, or is lost on a
  live connection: `CutOff` may take any of them away and leave the reading out of
  step (`torn`), where no later message is heard until another cut falls on the
  border of two. `ControlStream` shows byte by byte that nothing but whole messages
  is handled (`HeardIsSent`), and that one may be lost (`Torn`). Out of step, what is
  read may fail to decode and end the session (`RecvError`); only the end of the
  stream or of the connection makes it do so for sure (`StreamOver`). The cut is a
  step of its own and not part of the branch that causes it: there is always one
  that touches nothing here, that of the clipboard.
- The daemon has this one session; `SharedState` has what others do to its state.
- `Ping`, `Pong` and `PeerDisconnecting` are never sent by this code and are
  left out; clipboard branches touch none of these variables.
- Scroll events are forwarded like motion and tracked by nothing: left to `InputPath`.
- `seq` counts from the start of the session, though the counter goes on from the
  last one: only differences matter. It does not wrap.
- A batch takes what is queued; the code may also pick up events that arrive
  while it drains, which is the same as their having arrived before.
- A frame fits a datagram when it has at most `FrameFit` events; the real limit
  is in bytes.
- The capture reports every event once, and a thread whose `next_event` can be
  interrupted ends on a shutdown. `Capture` shows both for evdev
  (`NothingLostOnTheWay`, `ShutdownEndsCapture`), and why X11 is different.
- `ProcessExit` stands for the task being dropped by the runtime after
  `Daemon::run` has returned; a capture thread that outlives it no longer has
  anybody to talk to. The peer's idle timeout is the `up = FALSE` of this step.
- `pressed` merges keys and buttons: nothing treats them differently but the
  chord, which is made of keys.

### SharedState

`mode`, `focus`, `pressed`, `capture`, `captured` and `phys` are those of
`PeerSession`, per session where the code has them per session. `asked` and `news`
are the grab watch channel of a session, `grabbed` what its capture takes for
true, `holder` who really has the devices: `EVIOCGRAB` fails for all but the first,
and `grab_pointer` reports success all the same. `Start`, the branches of the
loop, `EndSession`, `CaptureFails`, `ApplyGrab` and the physical events are the
actions. The peers are the environment, and of the cursor only matters that a
motion may reach the edge. A session may start while the thread of an earlier
one still waits in `next_event`. `alone` remembers whether the sessions that run
now have ever had company.

### ControlStream

Offsets into the two directions of the stream stand for its bytes: `sent` are the
messages with their places, `start` is where the current call of `recv_control`
began, and how much of the stream has arrived is left open. `OtherBranch` drops the
call anywhere before its end: the next one begins behind what was read. The bytes
are reconstructed from the places (`Byte`), so that a call that begins at a
wrong place takes letters for a length, asks for what they say (`Claim`) and may
find enough bytes later on. Whether a text decodes is decided by what it does
contain: JSON has no zero byte, and every length has one. A text that is none of
the bodies sent but has no zero byte might decode to anything (`Meanings`); the
proof shows that none is ever found. `Greet`, `Welcome`, `Reject` and `Infer` are
the handshake, during which nothing drops the call.

A session that leaves its loop (`Leave`, or `RecvError` after the handshake) is
`draining`: it awaits its capture thread (`lib.rs:808`) and holds the stream, unread
and open. Only its `Return` closes the stream; it needs the next physical event, so
that it may never come. A handshake that fails returns at once.

A length has two bytes instead of four and a byte `Base` values instead of 256; of
both only matters that bodies are shorter than `Base`, that the high bytes of
a length are zero and that a letter is not. The error of a `send_control` on a dead
connection ends a handshake at its next read instead of at once.

### FocusHandoff

Two peers, each local or remote, and notices on their way. The mapping
(`ImplementsFocusHandoff`, at the end of `PeerSession`) takes `remote` to be the
machines with the focus flag set and `notice` those with a `SwitchFocus` or
`ReleaseFocus` on their control stream. The link loses notices: `Miss` of
`FocusHandoff` is `CutOff` of `PeerSession`, and `missed` has the remote machines
whose notice is gone. So the promise is weaker than one would like. Two machines
that are both remote, with a notice lost, may stay so until somebody presses the
chord; what is promised is that nothing else leads there.

### Dialling

A daemon is one main loop and a task per session.

| variable | code |
|---|---|
| `loop`, `attempt` | where `Daemon::run` is: at its `select!`, in `connect_to` waiting for a connection (`dialling`) or sleeping (`backoff`), or `down`; the counter of `connect_to` |
| `dialled`, `pending` | the connection that `transport.connect` and `transport.accept` wait for; empty or one |
| `known`, `queue` | the peer map of `discovery.rs`, requests in `connect_rx` |
| `state`, `listed` | `connection_state` and `peers` of `DaemonState` |
| `dialler`, `stage` | a QUIC connection: who opened it and how far it is |
| `sess` | the task of `peer_session` for a connection at either end |

| action | code |
|---|---|
| `HearAnnounce`, `Expire` | the listener and its sweep (`discovery.rs`) |
| `Pair`, `TakeRequest` | the IPC request; the dial branch of `run` with the look at the state in `connect_to` |
| `DialSucceeds`, `DialFails`, `Redial` | the outcomes of an attempt and the delay between two |
| `Accept`, `AcceptReturns` | the two awaits of the accept branch, dropped when the dial branch is taken |
| `Acknowledge`, `Activate`, `GreetingFails` | the handshake |
| `Reset`, `Unlist`, `Return` | the cleanup, the clearing of the map, the wait for the capture thread |
| `Exit`, `Restart`, `ConnectionLost` | the process and the network |

Abstractions:

- There are as many names of connections as are alive at once; a name is used
  again when neither end holds on to it (`Free`). A session that waits for its
  capture thread may lose its name, because it writes nothing shared any more.
- `HearAnnounce` puts the peer into the map and asks for the dial in one step;
  only the listener touches the map in between. When the queue is full
  the listener waits, which is the guard of `Ask`.
- The three delays of `connect_to` are one: nothing but their end is visible.
- A session resets the state when its peer has hung up or the connection is dead.
  The sessions of a daemon that is told to stop end with its `Exit`.
- The choice of the edge is in `ControlStream`, what is sent once a session is
  active in `PeerSession`, focus and keys of overlapping sessions in `SharedState`.

### Capture

The thread is at `top` of its loop, where it looks at the shutdown and the grab
channel; in `next_event` (`look`; under X11 also `poll`, asleep, and `drain`,
reading what the X server sent); at `hand`, in `blocking_send`; or `exited`.

| variable | code |
|---|---|
| `wish`, `fresh` | the grab watch channel: its value, and whether `has_changed` would say so |
| `shut`, `watcher`, `eventfd` | the shutdown channel, the thread that polls it, the fd it writes to |
| `grabbed`, `kbd` | the grab of the capture; `kbd_grabbed` of X11 |
| `buffer`, `socket`, `xbuf` | where an event waits: the kernel, the socket of the X server, the buffer of x11rb |
| `taken`, `chan` | the event to be handed over, the channel |
| `sess` | the session at the other end |
| `handed`, `late` | history: what the session received, and how many events were fetched since the last change of `wish` |

`Use` is the user. Who sees an event follows from who has the device open: the
kernel gives keys to every reader, so under X11 a key pressed while the keyboard
is not grabbed waits in a device that nobody reads and comes again after
the next grab; while it is grabbed, keys the X server still sends are dropped.
This, a refused grab that nothing repeats, events left in the
buffer of x11rb while the thread sleeps, and the missing shutdown fd are why the
properties about keys, grab and shutdown are stated for evdev. They fail for X11,
and the hazards say so.

The kernel's buffer has no limit here, so that it never drops events of its own
accord (`SYN_DROPPED`); an `EVIOCGRAB` of evdev that fails is not reported by
`grab_pointer`, so `grabbed` is what the thread believes.

An event is a whole packet up to its SYN. A failing device is left out for evdev,
where it is skipped, and is `X11Breaks` for X11.

### Clipboard

Each machine has a poller (`Read`, `Compare`, `Store`, `HandOut`: the shared hash
is loaded and stored in different steps), a main loop (`Relay`, `TakeIn`,
`HandIn`, `End`, `Return`), an accept task (`AcceptStream`, `PassOn`) and a receiver
(`Receive`, which stores the hash, and `Write`). A text is its own hash.

| variable | code |
|---|---|
| `board`, `hash` | the clipboard; `shared_hash` |
| `poller`, `main`, `acceptor`, `receiver` | where each task waits, and with which text |
| `out`, `inbox`, `incoming` | the three channels of `Capacity` slots |
| `streams` | texts on streams that the other machine has not accepted |
| `link`, `broken` | the connection; the machines none of whose tools works |

The main loop has the input to forward as well, so every await inside one of its
branches matters: it is `writing` while the peer has not read a text of `Large`
beyond the window of its stream, and `passing` while its receiver's channel is
full. `End` takes the session out of its loop. It is then `Draining`: it awaits its
capture thread (`lib.rs:808`) with all its channels still there and nobody to empty
them, so that its accept task waits for a slot once `inbox` is full, and a peer
that writes a large text to it hangs (`Blocks`). `Return` drops the channels; it needs
the next physical event, so nothing says that it happens. The accept task holds a
clone of the connection and goes on after the session has returned, which is what
frees a peer that is writing. Texts above 10 MB
are dropped by the receiving side and are not modelled.

## Runs

Passing:

| run | bounds | question |
|---|---|---|
| `InputPath` | 2 mice, a keyboard with a low and a high code, nine gestures, every pair of backends; three inputs on a 7x3 screen, one on every screen up to 7x7 with dead zones up to 3 and all edges | motion, notches, buttons and keys arrive as they were made; no re-trigger after re-centring, no unreachable edge |
| `AnyStart` | 1 key, 3 events of one user, batches and frames of 2, any cursors, any cooldown of the receiver and keys held by the typist; reordering, loss, any cut of the control stream | whatever an earlier session left behind, tracking through hand-overs and batches, and the numbers of frames, are right |
| `HandOver` | 1 key, 2 and 1 events of the two users, any cut of the control stream, fair | both users at once: conflicts are noticed and end, but for a lost notice; the grab follows the focus; the end of one session ends the other; every step is one that `FocusHandoff` allows |
| `SharedState` | 2 sessions at a time, 3 starts, 2 keys, 3 physical events, batches of 2 | a remote focus is somebody's, an idle daemon is clean, a session that was alone has the grab it asked for |
| `ControlStream` | 2 versions, the edges configured on neither, one or both sides, 2 dropped calls on each side, 4 values of a byte, bodies of 1 to 3 bytes, fair | what is handled was sent; a configured edge is kept and an inferred one is opposite to the peer's; the return of a session is heard |
| `Dialling` | 2 daemons, 3 connections, 2 attempts, queue of 2, one trouble (a pairing, an exit, a lost connection or an expiry), fair | both daemons dial and accept at once, sessions overlap: state and list have a session behind them, handshakes and main loops end |
| `Capture` | both backends, 2 keys and 1 motion, 2 changes of focus, 1 slot, fair | nothing is lost or doubled, the grab keeps up, a shutdown ends the thread |
| `Clipboard` | 2 texts, one of them large, channels of 1 slot; 1 copy and 3 changes of the tools, or a text in every channel to and from the streams and both main loops writing to begin with; fair | the text arrives and does not come back; no main loop waits for good but in `Jam` and `Blocks`; the return of a session ends the other |

Screens in the session runs are strips of 3 pixels side by side, so that a cursor
is at the shared border, in the centre or at the far one, and one motion event
crosses. `BatchLimit` is 2, so that three events are a crossing and a batch.
`Emulators` is both machines; `Interruptible` one, so that both kinds of capture
thread occur. Sessions and users stop when the budget is used up, so the runs do not
check for deadlock. In `HandOver` two events of one user and one of the other are a
crossing on both sides and one more input, a chord or a frame. A batch too large for
a datagram on a live connection would take a third event of the same user: the
proofs have it (any `BatchLimit`, `FrameFit` and number of events), in the runs a
frame fails only with its connection. How often a control stream is cut is not bounded: every message may be.

In `Dialling` two dials that cross, a third one by a retry or a pairing, and a
trouble at any moment is the smallest setting in which a failing dial meets a
running session of the same daemon and two sessions end in either order. Two
attempts stand for ten: one that is retried and one that is not. Two requests
fill the queue while one is dialled. One slot of the capture channel is full after
one event, so that the thread blocks with the next in its hand while a third
waits in the device; two changes of focus are one and its taking back before the
thread looks.

In `InputPath` three inputs are two reports of two mice that mingle in `pending` and
a key between them, and every press has room for its release; beyond twice the
dead zone plus the centre a larger screen only adds pixels that no comparison
tells apart. In `SharedState` the third start is the session that begins while two
others end in either order. In `ControlStream` letters have one value and lengths
up to three bytes, so that a call begun at a wrong place can find what it asks for;
two drops are one in the length and one in the body. In `Clipboard` three changes of the
tools are a failure, its repair and another one; one slot is full after one text, and
the full start (`Busy` of `MCClipboard`) is what several large copies in a row lead
to, which takes more copies than a run can have.

Fairness of `PeerSession`: weak fairness of the branch that reads the control stream,
when it can hear a message (`HearFocus`) and when the stream or the connection is over,
because `select!` polls its branches in random order and a branch that stays ready is
taken in the end. Nothing else: none for the other branches, the users, the delivery of
datagrams, `Shutdown`, `CutOff`, a decoding that fails, or a capture thread that blocks. In
`Clipboard`, weak fairness of each task, and strong fairness of the main loop's hearing
that the peer's session or the connection has ended: it can hear it only at its
`select!`, to which it returns again and again, and where ready branches are
polled in random order. None for copies, failing tools, a lost connection, the
end of a session for other reasons, or `Return`. In `ControlStream`, weak fairness of
a session's own reading, since a live connection delivers; none for the other
branches, for leaving, for `Return`, or for losing the connection. In `Dialling`, weak fairness of each
branch of the main loop, of each session's next step up to its cleanup, and of
announcements, which are repeated every few seconds; a dial ends because QUIC gives
up after its idle timeout. `Return` has none, since a session may wait for its
capture thread as long as nobody touches a device, and `Restart` has none. In
`Capture`, weak fairness of the thread (which is enabled only when it
is not asleep), of the watcher, and of the session's receiving and leaving on a
shutdown; none for the user, for `SetGrab`, or for `Leave` for other reasons.

Disagreements with the documents (each run finds the shortest counterexample):

| run | document | what happens |
|---|---|---|
| `Stranded` | README.md:85, Ctrl+Alt+Esc gives mouse and keyboard back | with two sessions, the one that handles the chord releases its own grab; the other one has the devices and keeps them |
| `StuckKey` | PLAN.html:587, releases are flushed when focus switches | only the chord and the cleanup flush; a key held while focus returns stays down on the peer |
| `Reconnect` | PLAN.html:584, a lost connection is detected and made again | discovery asks for a dial only when a peer is new, its announcements keep the entry from expiring, and nobody dials after a session |
| `Torn` | README.md:98, control messages are ordered and reliable | a `recv_control` that has read a length, or part of a body, is dropped when another branch of `select!` is ready: the message is lost, on a live connection |

What the models show besides, without a run of its own:

- A chord completed by an event that is drained into a batch is tracked and
  forwarded, and releases focus with the next event only (`Forward` of
  `PeerSession`).
- The timeout of `epoll_wait` in `evdev_capture.rs:141` is commented "check grab
  state", but `next_event` goes round its own loop; the grab is looked at after the
  next physical event. `LateAtMostOne` is what holds.
- With a second copy, a poller that read the clipboard before an arrival and
  compares after it sends an old text back, and texts copied on both machines within
  one polling period are exchanged and stay so. `NoEcho` and `Converges` are
  about one copy; PLAN.html:407 promises as much as `NoEcho` for all.
- A `SwitchFocus` that is cut off while both machines are remote leaves both
  keyboards without effect until somebody presses the chord (`CutOff` of
  `PeerSession`; `missed` in its properties).
- A session that has left its loop keeps a peer that writes a large text to it from
  its input until somebody touches a device of the first machine (`Blocks` of
  `Clipboard`).
- Two edges that are both configured are compared by nobody: the cursor then leaves
  one screen at an edge and comes back over another one (`EdgesAgree`).
- `Jam` of `Clipboard` is reachable: both main loops write a text the other machine
  does not read, because both accept tasks wait for a slot that only a main loop
  frees. It takes full channels and texts beyond a stream's window.
- Keys typed under X11 while the keyboard was not grabbed wait in the evdev buffers
  and are sent after the next grab (`Capture`).
- A frame that reaches the edge is not replayed at all, with the key releases
  that were batched behind the motion (`RecvDatagram` of `PeerSession`).
- `InCorner` keeps the comparisons of the code, which make the dead zone one pixel
  narrower along the right and the bottom border than along the other two.

## Proofs

Assumptions on the constants: two different machines, a finite set of keys,
screens with at least one pixel, whole-number moves, a positive batch limit.
Nothing is assumed about the network, the emulators or the number of events.

`PeerSessionProofs`:

- `TypeCorrect`: `TypeOK` is inductive. The parts that need an argument are the
  clamped cursor, flushes (injective sequences over a finite set) and queues cut
  in two by a batch.
- `ConflictNoticed` and `GrabTracksFocus`: each is inductive with `TypeOK`. Both
  rest on `FocusSteps`, which says that a step leaves focus alone, makes one
  machine local, or makes one machine remote together with a message. The first says
  that of two remote machines one has a notice on its way to it or has lost one to a
  torn stream since it took focus; without the second half it is false of the code.
- `KeyboardTracked`: `PressedTracksKeyboard` is not inductive by itself: a key
  released while it counts as held from before must be one that is held. The
  invariant adds `early[n] \subseteq phys[n]`. The core is algebra on the
  operator `After`: `TrackingIsAssociative` (tracking a queue is tracking a prefix
  and then the rest), and its three uses for an event appended, a head taken and
  a batch taken.
- `FramesNumbered`: with `TypeOK`; the counter grows and each frame takes a number
  above it, the flush that follows a failed batch included.
- `HandoffImplemented` (`ImplementsFocusHandoff`): every behaviour of the two
  sessions is one of `FocusHandoff`. `TypeOK` is all the invariant it needs. What a
  step does to the control streams is what it does to the notices (`SendNotices`,
  `HangUpNotices`, `NoticeSent`, `NoticeKept`), what it does to focus is in
  `FocusSteps`, and what a cut does to both in `CutOffMapped`; together they make each
  action of `PeerSession` one of `FocusHandoff` or a step that leaves its variables
  alone.

`DiallingProofs`: `StateHasSession` (`ConnectedMeansSession`) and `ListHasSession`
(`ListedMeansSession`), for any number of connections, attempts and troubles. The
invariant adds to `TypeOK`: the state is one of the three that the transitions
asked for lead to (`StatesUsed`), so that a failing dial cannot make a
disconnected daemon look connected; a connection whose end is awaited has no
session there (`AwaitedEnds`), so that a new session takes the place of none; an
attempt is left between two (`AttemptsLeft`). `SessionsKept` disposes of the steps
that leave state and list alone, `KnockTakesFreeName` of the names used again.

`CaptureProofs`: `GrabIsTheWish` (`GrabKeepsUp`) and `OneLateEvent`
(`LateAtMostOne`), for any backends, capacity and number of events. The invariant
adds that a thread which has not started owes the session nothing, and that an
event is late only between its fetching and the next look at the channels.
`EveryEventOnce` (`NothingLostOnTheWay`) follows the events of a device through
the places they pass: `handed`, `chan`, `taken`, `xbuf`, `socket` and `buffer`. The
invariant (`Accounted`) gives each place its own stretch of the numbers from the
first event to the last one made (`Chain`), so that a step which takes an event
from one place and puts it at the end of the one before it moves one boundary by
one (`SegmentAppendOwn`, `SegmentTailOwn` and, for events of the other device,
`SegmentAppendForeign`, `SegmentTailForeign`); `SegmentConcat` joins the stretches
to the property. `Routes` adds where events can be at all: a capture by
evdev has the kernel's buffers only, one by X11 has the mouse from the server
only, and a buffer has events of its own device.

`ControlStreamProofs`: `HeardIsWhole` (`HeardIsSent`) and `InferredEdgesFace`
(`EdgesAgree`), for any sizes of bodies below `Base` and any number of drops. The
invariant says that the messages of a direction lie one behind the other without a
gap (`LaidOut`), that reading is inside the stream, and that what was heard is
behind it. The heart is `WrongClaim`: of two bytes at a wrong place the second is a
letter or the low byte of the next length, so that they say `Base` or more, which
is more than any body has; hence (`WholeTextIsBody`) the frame runs over the high
byte of a later length, which is zero, and does not decode. The same holds for the
four bytes of the code and focus messages below 256 bytes. For the edges the
invariant follows the first message of each direction (what it carries, and that it
is the one the handshake hears): a machine without a configured edge has the one
that faces its peer's. Of two configured edges the theorem says that both are kept,
which may be Right and Top.

`SharedStateProofs`: the three invariants of the run, for any number of
sessions and events. They are inductive together with `Threads`: a session that
captures nothing has no thread, and while `alone` holds there is one session.

`InputPathProofs`, for any paths, mice (also infinitely many), gestures, key codes,
screens and number of inputs:

- `HitIsQuiet` and `EdgeIsReachable`, from `Recentred` (after a hit the cursor is in
  the centre) and the lemmas of `EdgeDetectorProofs`: the cursor stays on the
  screen, the centre is quiet, a long edge is reachable, for screens and dead zones
  of any size.
- `TypeCorrect`, and with it `Known` (which events each queue can hold, by device and
  code) and `Apart` (the X server has events only under X11, `pending` is in use
  only under evdev).
- `EveryPixelArrives` (`MotionArrives`) and `EveryNotchArrives` (`ScrollArrives`),
  from `Ledger`. The arrival properties speak of the moment when nothing is under
  way and are far from inductive. The invariant keeps books (`Balance`): what the
  user made on an axis is, in units of the device, what was replayed plus what the
  events on the wire say, plus those of the server, plus those of all buffers, plus
  what `pending` holds; and `pending` is empty unless some buffer still has the
  end of its report (`Ended`). Each action moves an amount from one entry to
  another, through its changes of sign and unit.
- `EveryKeyArrives` (`KeysArrive`): for each code the emulated device has, one device
  owns it, and the chain from the state replayed through the wire, the server and
  the owner's buffer ends in what the user holds (`Link`, `Chain`). Every event says
  what it makes of the state before it, so that repeats, and the events that say
  nothing of this code, fit in. For XTest the codes must be 1 to 247 (`Worn`), as in
  the property.

What a queue adds up to, or leads to, is not defined by recursion but said by a
run of states: `Leads(S, effect, q, s, t)` holds when there is a sequence of states
from `s` to `t`, one per event of `q`. Appending an event, taking the first one and
joining two queues are lemmas; uniqueness of the end is the only place that needs
induction, and takes it as the least counterexample of a well-founded order
(`Least`, `Constant`, with `WFMin` of the library).

`ClipboardProofs`: `TypeCorrect`, and `NothingComesBack` (`NoEcho`) for any texts,
capacity, failures and lost links. The invariant (`EInv`, for as long as one text
has been copied, on one machine): what a machine hands over was copied there
(`OwnGoesOut`); what is on its way to it was copied on the other one, and a receiver
that holds a text has stored its hash (`ForeignComesIn`); of the texts its poller
has read or may read next, one not copied there has the hash that is stored
(`FindsNothingNew`). The last is where the order of storing and writing matters.

Assumed by `DiallingProofs` and `CaptureProofs`: at least one slot and one attempt,
two daemons, counts that are natural numbers. By `ControlStreamProofs`: bodies of 1
to `Base - 1` bytes and letters above zero. By `SharedStateProofs`: a positive batch
limit and a chord made of keys. By `InputPathProofs`: a positive unit, paths and
gestures of the kinds the code has, a keyboard that is no mouse, keys whose codes
are not those of buttons, screens as above. By `ClipboardProofs`: two peers, a
positive capacity, `Nothing` and `NoHash` that are no texts.

Every invariant that a passing run checks, and the refinement of `FocusHandoff`, is
a theorem. Only model-checked is liveness (`ConflictResolves`, `TeardownPropagates`,
`HandshakeResolves`, `MainLoopReturns`, `EventsArrive`, `ShutdownEndsCapture`,
`EndIsHeard`, `Converges`, `MainLoopResponds`, `EndFreesPeer`): it needs fairness
and `ENABLED`, which are out of the prover's reach.

## Plan

Done, in this order: EdgeDetector; PeerSession with FocusHandoff; their proofs;
Dialling and Capture with their proofs; ControlStream, SharedState and InputPath
with their proofs; Clipboard with its channels and streams; then the refinement of
FocusHandoff, the chain of Capture, the arrivals of InputPath and the loop
suppression of Clipboard as theorems.

What could follow:

1. A proof that `SharedState` with one session is `PeerSession` on one machine.
2. The safety halves of the liveness properties as invariants with proofs: which
   task is the one that frees a main loop of `Clipboard` (everything but `Jam`), and
   what a session of `Dialling` waits for before its cleanup.

## Not modelled

- Identity files and the known peers (`tls.rs`, `TofuVerifier`): file I/O. Every peer
  is trusted, so that nothing depends on what was read; the two files that are
  written one after the other are a hazard in `PROJECT.json`.
- The query of the screen's geometry, the command line but for `start`, the socket
  of IPC: text and I/O.
- Which devices are opened, the windows and confinement of the X11 capture, the
  set-up of uinput beyond its key bits, TLS and endpoint configuration: I/O.
- Images and file URIs on the clipboard, `Ping`, `Pong` and `PeerDisconnecting`: the
  code knows what to do with them, or ignores them, but nothing in it makes one.
- The limit of QUIC on concurrent streams, texts above 10 MB, `seq` and `i16`
  overflow: beyond any instance, and no other behaviour depends on them.
