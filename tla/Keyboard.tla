------------------------------ MODULE Keyboard ------------------------------
(***************************************************************************)
(* The keyboard, keyboard_asm.S: the codes its keys send, and what the     *)
(* routines of key_table make of them.  A code is named after the routine  *)
(* its entry in the table names ("none" for an entry that does nothing),   *)
(* or is a prefix, "E0" or "E1".  When a routine runs is Interrupts' part. *)
(*                                                                         *)
(* The code segment in %ds is taken as writable, as emulators do.  What    *)
(* the keyboard answers to set_leds is a "none" like others, and left out, *)
(* like Ctrl-Alt-Del, which restarts the machine.                          *)
(***************************************************************************)
EXTENDS Integers, Sequences, FiniteSetsExt

CONSTANTS
    KEY_SETS,       \* bound: the sets of keys somebody uses together
    MAX_EVENTS      \* bound: keys pressed, repeated and released

VARIABLES
    mode,           \* the bits of mode that are set, by name
    leds,           \* those of leds
    e0,             \* the prefix: 0, 1 or 2
    buffer,         \* the codes sent and not read yet
    keys,           \* environment: the keys in use
    down,           \* those of them that are held down
    locked,         \* history: caps lock, as whoever types counts it
    events          \* keys pressed, repeated and released so far

stateVars == <<mode, leds, e0>>
typingVars == <<keys, down, locked, events>>
keyboardVars == <<stateVars, buffer, typingVars>>

Modifiers == {"lshift", "rshift", "lctrl", "rctrl", "lalt", "ralt"}

(* What a key sends when it is pressed and when it is released.  "home" is *)
(* the grey key with num lock on, whose code comes in a pair of shifts;    *)
(* "pause" sends everything at once.                                       *)
Makes == [
    lshift |-> <<"lshift">>, rshift |-> <<"rshift">>,
    lctrl |-> <<"ctrl">>, rctrl |-> <<"E0", "ctrl">>,
    lalt |-> <<"alt">>, ralt |-> <<"E0", "alt">>,
    caps |-> <<"caps">>, num |-> <<"num">>, scroll |-> <<"scroll">>,
    home |-> <<"E0", "lshift", "E0", "cursor">>,
    letter |-> <<"do_self">>, f1 |-> <<"func">>,
    pause |-> <<"E1", "ctrl", "num", "E1", "unctrl", "none">>]

Breaks == [
    lshift |-> <<"unlshift">>, rshift |-> <<"unrshift">>,
    lctrl |-> <<"unctrl">>, rctrl |-> <<"E0", "unctrl">>,
    lalt |-> <<"unalt">>, ralt |-> <<"E0", "unalt">>,
    caps |-> <<"uncaps">>, num |-> <<"none">>, scroll |-> <<"none">>,
    home |-> <<"E0", "none", "E0", "unlshift">>,
    letter |-> <<"none">>, f1 |-> <<"none">>,
    pause |-> <<>>]

Codes == {
    "E0", "E1", "lshift", "rshift", "ctrl", "alt", "unlshift", "unrshift", "unctrl", "unalt",
    "caps", "uncaps", "num", "scroll", "cursor", "func", "do_self", "none"}

(* What these keys send depends on each other when they are held together: *)
(* the shifts around "home" change with a shift, "pause" with a ctrl.      *)
ASSUME KeyboardAssumption ==
    \A used \in KEY_SETS :
        /\ used \subseteq DOMAIN Makes
        /\ "home" \notin used \/ {"lshift", "rshift"} \cap used = {}
        /\ "pause" \notin used \/ {"lctrl", "rctrl"} \cap used = {}

KeyboardInit ==
    /\ mode = {}
    /\ leds = {"num"}
    /\ e0 = 0
    /\ buffer = <<>>
    /\ keys \in KEY_SETS
    /\ down = {}
    /\ locked = FALSE
    /\ events = 0

(***************************************************************************)
(* What is done with the keys                                              *)
(***************************************************************************)
Sends(codes) ==
    /\ events < MAX_EVENTS
    /\ events' = events + 1
    /\ buffer' = buffer \o codes
    /\ UNCHANGED <<stateVars, keys>>

Press(k) ==
    /\ k \notin down
    /\ Sends(Makes[k])
    /\ down' = down \cup {k}
    /\ locked' = (locked # (k = "caps"))

(* A key that is held repeats its code, without the shifts around it.      *)
Repeat(k) ==
    /\ k \in down \ {"pause"}
    /\ Sends(IF k = "home" THEN <<"E0", "cursor">> ELSE Makes[k])
    /\ UNCHANGED <<down, locked>>

Release(k) ==
    /\ k \in down
    /\ Sends(Breaks[k])
    /\ down' = down \ {k}
    /\ UNCHANGED locked

Typing == \E k \in keys : Press(k) \/ Repeat(k) \/ Release(k)

(***************************************************************************)
(* What the routine of a code does                                         *)
(***************************************************************************)
(* Wrong on purpose: a prefix is forgotten when a key is released.         *)
ModeOf_left(code) ==
    CASE code \in {"lshift", "unlshift"} -> "lshift"
      [] code \in {"rshift", "unrshift"} -> "rshift"
      [] code \in {"ctrl", "unctrl"} -> IF e0 = 0 THEN "lctrl" ELSE "rctrl"
      [] code \in {"alt", "unalt"} -> IF e0 = 0 \/ code = "unalt" THEN "lalt" ELSE "ralt"

(* The bit of a modifier: any prefix makes a left one a right one.         *)
ModeOf(code) ==
    CASE code \in {"lshift", "unlshift"} -> "lshift"
      [] code \in {"rshift", "unrshift"} -> "rshift"
      [] code \in {"ctrl", "unctrl"} -> IF e0 = 0 THEN "lctrl" ELSE "rctrl"
      [] code \in {"alt", "unalt"} -> IF e0 = 0 THEN "lalt" ELSE "ralt"

(* caps: 0x80 is set as long as the key is down.                           *)
CapsTurns(code) == code = "caps" /\ "caps_down" \notin mode

NewMode(code) ==
    CASE code \in {"lshift", "rshift", "ctrl", "alt"} -> mode \cup {ModeOf(code)}
      [] code \in {"unlshift", "unrshift", "unctrl", "unalt"} -> mode \ {ModeOf(code)}
      [] CapsTurns(code) -> SymDiff(mode, {"caps"}) \cup {"caps_down"}
      [] code = "uncaps" -> mode \ {"caps_down"}
      [] OTHER -> mode

NewLeds(code) ==
    IF CapsTurns(code) \/ code \in {"num", "scroll"} THEN SymDiff(leds, {code}) ELSE leds

(* Whether put_queue is called.  alt_map has nothing for a letter, and     *)
(* func compares a register that nothing has set.                          *)
do_self == {"ralt" \notin mode}
cursor == {TRUE}
func == BOOLEAN

Prints(code) ==
    CASE code = "do_self" -> do_self
      [] code = "cursor" -> cursor
      [] code = "func" -> func
      [] OTHER -> {FALSE}

(* keyboard_interrupt as far as it cannot be interrupted.                  *)
ReadCode ==
    /\ buffer # <<>>
    /\ buffer' = Tail(buffer)
    /\ mode' = NewMode(Head(buffer))
    /\ leds' = NewLeds(Head(buffer))

Prefix(code) == CASE code = "E0" -> 1 [] code = "E1" -> 2 [] OTHER -> 0
=============================================================================
