------------------------------- MODULE Rotary -------------------------------
(***************************************************************************)
(* The rotary encoder (rotary_enc/rotary_enc.c): quadrature counting in    *)
(* the pin interrupt, the push button polled every 20 ms, and the main     *)
(* loop of app_main_zephyr.c that turns the presses it has not yet seen    *)
(* into one air-conditioner action a second.                               *)
(***************************************************************************)
EXTENDS Integers

CONSTANTS MaxPosition,     \* bound: quarter steps either way
          MaxPresses       \* bound: presses of the button

ASSUME RotaryAssumption == MaxPosition \in Nat /\ MaxPresses \in Nat

Actions == {"POWER_ON", "TEMP_UP", "TEMP_DOWN", "POWER_OFF"}

VARIABLES
    shaft,                 \* quarter steps the shaft was turned
    enc_init,              \* how far rotary_enc_init has come
    cbs,                   \* the pins whose callback is installed
    edge,                  \* an edge interrupt is pending
    enc_state, s_count,
    seen,                  \* the position at which enc_state was read
    base,                  \* the position at which the count was zeroed
    gap,                   \* an edge came before the callbacks were installed
    slipped,               \* the shaft moved two or more steps before the interrupt
    button, presses,       \* the button, and how often it went down
    sw_poll,               \* s_sw_poll is scheduled
    s_sw_prev, s_sw_count,
    s_last_sw, sw_action   \* the main loop's last count and the last action sent

enc_vars == <<shaft, enc_init, cbs, edge, enc_state, s_count, seen, base, gap, slipped>>
sw_vars  == <<button, presses, sw_poll, s_sw_prev, s_sw_count, s_last_sw, sw_action>>
rot_vars == <<enc_vars, sw_vars>>

\* The levels of A and B, as (A << 1) | B, at a position of the shaft.
Pins(p) == CASE p % 4 = 0 -> 0 [] p % 4 = 1 -> 2 [] p % 4 = 2 -> 3 [] OTHER -> 1

RotInit ==
    /\ shaft = 0 /\ enc_init = "none" /\ cbs = {} /\ edge = FALSE
    /\ enc_state = 0 /\ s_count = 0 /\ seen = 0 /\ base = 0
    /\ gap = FALSE /\ slipped = FALSE
    /\ button = FALSE /\ presses = 0 /\ sw_poll = FALSE /\ s_sw_prev = FALSE /\ s_sw_count = 0
    /\ s_last_sw = 0 /\ sw_action = "none"

-----------------------------------------------------------------------------
(***************************************************************************)
(* rotary_enc_init: read the pins, enable both interrupts, install the     *)
(* callbacks one after the other, then the button.  An error at any of     *)
(* these ends it and leaves what was done before; the button may also be   *)
(* missing, which is no error.                                             *)
(***************************************************************************)
InitFails ==
    /\ enc_init \notin {"ready", "failed"} /\ enc_init' = "failed"
    /\ s_count' = IF enc_init = "none" THEN 0 ELSE s_count
    /\ UNCHANGED <<shaft, cbs, edge, enc_state, seen, base, gap, slipped, sw_vars>>

InitRead ==
    /\ enc_init = "none" /\ enc_init' = "read"
    /\ s_count' = 0 /\ enc_state' = Pins(shaft) /\ seen' = shaft /\ base' = shaft
    /\ UNCHANGED <<shaft, cbs, edge, gap, slipped, sw_vars>>

InitArm ==
    /\ enc_init = "read" /\ enc_init' = "armed"
    /\ UNCHANGED <<shaft, cbs, edge, enc_state, s_count, seen, base, gap, slipped, sw_vars>>

AddCallback ==
    /\ \/ enc_init = "armed" /\ enc_init' = "half" /\ cbs' = {"A"}
       \/ enc_init = "half" /\ enc_init' = "both" /\ cbs' = {"A", "B"}
    /\ UNCHANGED <<shaft, edge, enc_state, s_count, seen, base, gap, slipped, sw_vars>>

InitButton ==
    /\ enc_init = "both" /\ enc_init' = "ready"
    /\ s_sw_count' = 0 /\ s_sw_prev' = FALSE
    /\ sw_poll' \in BOOLEAN
    /\ UNCHANGED <<shaft, cbs, edge, enc_state, s_count, seen, base, gap, slipped,
                   button, presses, s_last_sw, sw_action>>

\* The pin that changes when the shaft leaves position p in direction d.
Moved(p, d) == IF (p % 2 = 0) = (d = 1) THEN "A" ELSE "B"

\* The shaft turns.  Before the pin's callback is there, the edge is lost.
Turn(d) ==
    /\ {shaft + d, s_count} \subseteq -MaxPosition .. MaxPosition
    /\ shaft' = shaft + d
    /\ edge' = (edge \/ Moved(shaft, d) \in cbs)
    /\ gap' = (gap \/ (enc_init # "none" /\ Moved(shaft, d) \notin cbs))
    /\ UNCHANGED <<enc_init, cbs, enc_state, s_count, seen, base, slipped, sw_vars>>

\* s_quad[(old << 2) | new]
\* Mutant: the rows of the table that leave state 3 are swapped.
M_s_quad(old, new) ==
    CASE <<old, new>> \in {<<0, 2>>, <<1, 0>>, <<2, 3>>, <<3, 2>>} -> 1
      [] <<old, new>> \in {<<0, 1>>, <<1, 3>>, <<2, 0>>, <<3, 1>>} -> -1
      [] OTHER -> 0

s_quad(old, new) ==
    CASE <<old, new>> \in {<<0, 2>>, <<1, 0>>, <<2, 3>>, <<3, 1>>} -> 1
      [] <<old, new>> \in {<<0, 1>>, <<1, 3>>, <<2, 0>>, <<3, 2>>} -> -1
      [] OTHER -> 0

rotary_isr ==
    /\ edge /\ edge' = FALSE
    /\ s_count' = s_count + s_quad(enc_state, Pins(shaft))
    /\ enc_state' = Pins(shaft)
    /\ seen' = shaft
    /\ slipped' = (slipped \/ shaft - seen \notin -1 .. 1)
    /\ UNCHANGED <<shaft, enc_init, cbs, base, gap, sw_vars>>

rotary_enc_reset_count ==
    /\ enc_init = "ready"
    /\ s_count' = 0 /\ base' = seen /\ slipped' = FALSE
    /\ UNCHANGED <<shaft, enc_init, cbs, edge, enc_state, seen, gap, sw_vars>>

-----------------------------------------------------------------------------
(***************************************************************************)
(* The button and the main loop.                                           *)
(***************************************************************************)
Press ==
    /\ presses < MaxPresses \/ button
    /\ button' = ~button
    /\ presses' = IF button THEN presses ELSE presses + 1
    /\ UNCHANGED <<enc_vars, sw_poll, s_sw_prev, s_sw_count, s_last_sw, sw_action>>

rotary_sw_poll_fn ==
    /\ sw_poll
    /\ s_sw_count' = IF button /\ ~s_sw_prev THEN s_sw_count + 1 ELSE s_sw_count
    /\ s_sw_prev' = button
    /\ UNCHANGED <<enc_vars, button, presses, sw_poll, s_last_sw, sw_action>>

ActionOf(sw) ==
    CASE sw % 4 = 1 -> "POWER_ON"
      [] sw % 4 = 2 -> "TEMP_UP"
      [] sw % 4 = 3 -> "TEMP_DOWN"
      [] OTHER      -> "POWER_OFF"

MainPolls ==
    /\ s_sw_count # s_last_sw
    /\ s_last_sw' = s_sw_count
    /\ sw_action' = ActionOf(s_sw_count)
    /\ UNCHANGED <<enc_vars, button, presses, sw_poll, s_sw_prev, s_sw_count>>

RotNext ==
    \/ InitFails \/ InitRead \/ InitArm \/ AddCallback \/ InitButton
    \/ (\E d \in {-1, 1} : Turn(d)) \/ rotary_isr \/ rotary_enc_reset_count
    \/ Press \/ rotary_sw_poll_fn \/ MainPolls

RotSpec == RotInit /\ [][RotNext]_rot_vars

-----------------------------------------------------------------------------
\* The count is the number of quarter steps since it was zeroed as long as the
\* interrupt kept up with the shaft; when it did not, the count is off by an even
\* number only.  With both callbacks in place nothing is missing between
\* interrupts, unless the shaft turned while the encoder was being set up; that
\* holds also when the set-up failed later, at the button.  A press counts once
\* however long it is held, and the air conditioner was last sent the action of
\* a press counted.
CountTracksShaft ==
    /\ s_sw_count <= presses /\ s_last_sw <= s_sw_count
    /\ sw_action # "none" => sw_action = ActionOf(s_last_sw)
    /\ ~slipped => s_count = seen - base
    /\ (s_count - (seen - base)) % 2 = 0
    /\ cbs = {"A", "B"} /\ ~edge /\ ~gap => seen = shaft
=============================================================================
