----------------------------- MODULE KeyTracking -----------------------------
(***************************************************************************)
(* The keys a daemon takes to be held: track_key_state, flush_pressed_keys *)
(* and check_emergency_hotkey of kmflow-daemon (lib.rs:946-950 and         *)
(* 1011-1056), with mouse buttons counted among the keys.                  *)
(***************************************************************************)
EXTENDS Integers, Sequences, FiniteSets

CONSTANTS
    Keys,   \* scancodes and mouse buttons
    Hotkey  \* the emergency chord, Ctrl+Alt+Esc

KeyEvent == [kind : {"key"}, key : Keys, down : BOOLEAN]

(* track_key_state over a whole sequence: a key no event is about keeps    *)
(* its state, of the others the last event decides.                        *)
Untouched(evs, k) == \A i \in 1 .. Len(evs) : evs[i].kind = "key" => evs[i].key # k

LeftDown(evs, k) ==
    \E i \in 1 .. Len(evs) :
        /\ evs[i] = [kind |-> "key", key |-> k, down |-> TRUE]
        /\ \A j \in i + 1 .. Len(evs) : evs[j].kind = "key" => evs[j].key # k

After(keys, evs) ==
    {k \in Keys : (k \in keys /\ Untouched(evs, k)) \/ LeftDown(evs, k)}

(* flush_pressed_keys: a release per tracked key, in the set's own order.  *)
KeyUp(k) == [kind |-> "key", key |-> k, down |-> FALSE]

Flushes(keys) ==
    LET ups == {KeyUp(k) : k \in keys} IN
    {q \in [1 .. Cardinality(keys) -> ups] :
        \A i, j \in 1 .. Cardinality(keys) : q[i] = q[j] => i = j}

(* check_emergency_hotkey                                                  *)
ChordHeld(keys) == Hotkey \subseteq keys
=============================================================================
