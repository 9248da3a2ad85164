------------------------------- MODULE LedTask -------------------------------
(***************************************************************************)
(* The LED strip: leds/led_task_zephyr.c (patterns, 20 ms tick),           *)
(* leds/led_strip_zephyr.c (pixel buffer, brightness, SK6812 and APA102    *)
(* wire formats), leds/sleep_light_table.h and the commands of             *)
(* ble/gatt_servers/svc_led.c.                                             *)
(*                                                                         *)
(* Commands run on the Bluetooth host thread and the tick on the system    *)
(* work queue; both are cooperative, so each is one step.  The timer       *)
(* interrupt only submits the tick, which is queued at most once.          *)
(***************************************************************************)
EXTENDS Integers, Sequences

CONSTANTS
    LedCount,          \* APP_LED_COUNT
    BreathingTicks, StrobeTicks,
    HueStep,           \* degrees of hue a tick of the rainbow (3 in the code)
    TickMod,           \* s_tick is kept modulo this (2^32 in the code: 2.7 years)
    Colours,           \* colours <<r, g, b, w>> a client asks for
    Brights,           \* brightness bytes a client asks for
    Percents           \* brightness percentages of a sleep light

ASSUME LedAssumption ==
    /\ LedCount \in 1 .. 60
    /\ BreathingTicks \in Nat /\ BreathingTicks >= 2
    /\ {StrobeTicks, HueStep, TickMod} \subseteq Nat \ {0}
    /\ Colours \subseteq [1 .. 4 -> 0 .. 255]
    /\ Brights \subseteq 0 .. 255 /\ Percents \subseteq 0 .. 255
    /\ \A n \in {BreathingTicks, 2 * StrobeTicks, 360 \div HueStep} : TickMod % n = 0

Patterns == {"OFF", "SOLID", "BREATHING", "RAINBOW", "STROBE", "UNKNOWN"}
Leds     == 1 .. LedCount
Channels == 1 .. 4
Dark     == <<0, 0, 0, 0>>

\* Two rows of sleep_light_preset_table stand for its eight.
Presets  == {Dark, <<45, 22, 0, 4>>}

VARIABLES
    led_type,            \* Kconfig: SK6812 or APA102
    led_started, led_inited,   \* s_started of the task, s_inited of the strip
    s_pattern, s_color, s_brightness, s_tick, s_pixels,
    wire,                \* what the LEDs were last sent, per LED
    led_status,          \* s_status of the service
    tick_queued,         \* s_tick_work is in the work queue
    unshown,             \* a command came since the last tick
    override             \* history: per LED, the colour set by hand while SOLID or OFF,
                         \* until the strip is given a pattern or a colour again

led_vars == <<led_type, led_started, led_inited, s_pattern, s_color, s_brightness, s_tick,
              s_pixels, wire, led_status, tick_queued, unshown, override>>

-----------------------------------------------------------------------------
(***************************************************************************)
(* The strip.  Brightness scales every channel; APA102 has no white and    *)
(* is sent the upper five bits of the brightness once more.                *)
(***************************************************************************)
apply_brightness(ch, br) == (ch * br) \div 256

sk6812_refresh(c, br) == [k \in Channels |-> apply_brightness(c[k], br)] \o <<31>>

apa102_refresh(c, br) ==
    [k \in 1 .. 3 |-> apply_brightness(c[k], br)] \o <<0, br \div 8>>

OnWire(c, br) ==
    IF led_type = "SK6812" THEN sk6812_refresh(c, br) ELSE apa102_refresh(c, br)

Filled(c) == [i \in Leds |-> c]

Refresh(px, br) == wire' = [i \in Leds |-> OnWire(px[i], br)]

(***************************************************************************)
(* led_task_start, from app_led_svc_init or sk6812_init; the GPIO may      *)
(* refuse, and then the strip stays unknown to every other call.           *)
(***************************************************************************)
led_strip_init(ok) ==
    /\ led_inited' = ok
    /\ s_brightness' = 255
    /\ s_pixels' = Filled(Dark)
    /\ IF ok THEN Refresh(s_pixels', 255) ELSE UNCHANGED wire

LedStart(ok) ==
    /\ ~led_started
    /\ led_strip_init(ok)
    /\ led_started' = ok
    /\ led_status' = [pattern |-> s_pattern, color |-> s_color, brightness |-> 255,
                      count |-> IF ok THEN LedCount ELSE 0]
    /\ unshown' = TRUE
    /\ UNCHANGED <<led_type, s_pattern, s_color, s_tick, tick_queued, override>>

-----------------------------------------------------------------------------
NoOverride == [i \in Leds |-> {}]

(***************************************************************************)
(* write_cmd: a command that is refused changes nothing; the others are    *)
(* followed by a notification of the refreshed status.                     *)
(***************************************************************************)
Notifies ==
    /\ led_status' = [pattern |-> s_pattern', color |-> s_color', brightness |-> s_brightness',
                      count |-> IF led_inited THEN LedCount ELSE 0]
    /\ unshown' = TRUE
    /\ UNCHANGED <<led_type, led_started, led_inited, wire, tick_queued>>

led_task_set_pattern(p, base) ==
    /\ s_pattern' = p /\ s_color' = base /\ s_tick' = 0
    /\ override' = NoOverride
    /\ UNCHANGED <<s_brightness, s_pixels>>
    /\ Notifies

led_task_set_color(base) ==
    /\ s_color' = base
    /\ override' = NoOverride
    /\ UNCHANGED <<s_pattern, s_tick, s_brightness, s_pixels>>
    /\ Notifies

led_task_set_brightness(br) ==
    /\ s_brightness' = br
    /\ UNCHANGED <<s_pattern, s_color, s_tick, s_pixels, override>>
    /\ Notifies

led_task_set_pixel(i, c) ==
    /\ led_inited
    /\ s_pixels' = [s_pixels EXCEPT ![i] = c]
    /\ override' = IF s_pattern \in {"SOLID", "OFF"} THEN [override EXCEPT ![i] = {c}] ELSE override
    /\ UNCHANGED <<s_pattern, s_color, s_tick, s_brightness>>
    /\ Notifies

sleep_light_color(preset, pct) ==
    [k \in Channels |-> (preset[k] * (IF pct > 100 THEN 100 ELSE pct)) \div 100]

\* The tick counter goes on.
led_task_set_sleep_light(preset, pct) ==
    /\ s_pattern' = "SOLID" /\ s_color' = sleep_light_color(preset, pct)
    /\ override' = NoOverride
    /\ UNCHANGED <<s_tick, s_brightness, s_pixels>>
    /\ Notifies

LedCommand ==
    \/ \E p \in Patterns, c \in Colours \cup {s_color} : led_task_set_pattern(p, c)
    \/ led_task_set_pattern("OFF", Dark)
    \/ \E c \in Colours : led_task_set_color(c)
    \/ \E br \in Brights : led_task_set_brightness(br)
    \/ \E i \in Leds, c \in Colours : led_task_set_pixel(i, c)
    \/ \E preset \in Presets, pct \in Percents : led_task_set_sleep_light(preset, pct)

-----------------------------------------------------------------------------
(***************************************************************************)
(* The tick.                                                               *)
(***************************************************************************)
hsv_to_rgb(h) ==    \* at full saturation and value
    LET remain == h % 60
        q == 255 - (255 * remain) \div 60
        t == 255 - (255 * (60 - remain)) \div 60
    IN  CASE h \div 60 = 0 -> <<255, t, 0>>
          [] h \div 60 = 1 -> <<q, 255, 0>>
          [] h \div 60 = 2 -> <<0, 255, t>>
          [] h \div 60 = 3 -> <<0, q, 255>>
          [] h \div 60 = 4 -> <<t, 0, 255>>
          [] OTHER         -> <<255, 0, q>>

\* The triangle wave, with the 8-bit conversion of the result.
Envelope(tick) ==
    LET phase == tick % BreathingTicks
        half  == BreathingTicks \div 2
        up    == IF phase < half THEN phase ELSE BreathingTicks - phase
    IN  ((up * 255) \div half) % 256

Drawn ==
    CASE s_pattern = "OFF"       -> Filled(Dark)
      [] s_pattern = "SOLID"     -> Filled(s_color)
      [] s_pattern = "BREATHING" ->
            Filled([k \in Channels |-> (s_color[k] * Envelope(s_tick)) \div 255])
      [] s_pattern = "RAINBOW"   ->
            [i \in Leds |-> hsv_to_rgb((((s_tick * HueStep) % 360) + ((i - 1) * 360) \div LedCount) % 360)
                            \o <<s_color[4]>>]
      [] s_pattern = "STROBE"    ->
            Filled(IF (s_tick \div StrobeTicks) % 2 = 0 THEN s_color ELSE Dark)
      [] OTHER                   -> s_pixels

timer_expiry ==
    /\ led_started /\ ~tick_queued
    /\ tick_queued' = TRUE
    /\ UNCHANGED <<led_type, led_started, led_inited, s_pattern, s_color, s_brightness, s_tick,
                   s_pixels, wire, led_status, unshown, override>>

\* Mutant: switching off does not clear the strip.
M_tick_fn ==
    /\ tick_queued /\ tick_queued' = FALSE
    /\ IF s_pattern = "OFF" THEN UNCHANGED <<s_pixels, wire, s_tick>>
       ELSE s_pixels' = Drawn /\ Refresh(Drawn, s_brightness) /\ s_tick' = (s_tick + 1) % TickMod
    /\ unshown' = FALSE
    /\ UNCHANGED <<led_type, led_started, led_inited, s_pattern, s_color, s_brightness,
                   led_status, override>>

tick_fn ==
    /\ tick_queued /\ tick_queued' = FALSE
    /\ s_pixels' = Drawn
    /\ Refresh(Drawn, s_brightness)
    /\ s_tick' = IF s_pattern = "OFF" THEN s_tick ELSE (s_tick + 1) % TickMod
    /\ unshown' = FALSE
    /\ UNCHANGED <<led_type, led_started, led_inited, s_pattern, s_color, s_brightness,
                   led_status, override>>

LedInit ==
    /\ led_type \in {"SK6812", "APA102"}
    /\ led_started = FALSE /\ led_inited = FALSE
    /\ s_pattern = "OFF" /\ s_color = Dark /\ s_brightness = 255 /\ s_tick = 0
    /\ s_pixels = Filled(Dark)
    /\ wire = Filled(<<0, 0, 0, 0, 0>>)
    /\ led_status = [pattern |-> "OFF", color |-> Dark, brightness |-> 0, count |-> 0]
    /\ tick_queued = FALSE /\ unshown = TRUE /\ override = NoOverride

LedNext == (\E ok \in BOOLEAN : LedStart(ok)) \/ LedCommand \/ timer_expiry \/ tick_fn

LedSpec == LedInit /\ [][LedNext]_led_vars

-----------------------------------------------------------------------------
\* One tick after the last command the strip shows what the status read by the
\* phone says: dark when off, the colour at the brightness when solid, between
\* dark and that colour and the same on every LED when breathing or blinking,
\* and pure hues on the rainbow.  LEDs set by hand while off or solid are the
\* subject of PixelHonoured.
StripShowsStatus ==
    LET st   == led_status
        full == OnWire(st.color, st.brightness)
        lit(i) == \E k \in Channels : wire[i][k] > 0
        top  == apply_brightness(255, st.brightness)
    IN  (led_started /\ ~unshown) =>
          /\ st.pattern = "OFF"       => \A i \in Leds : override[i] = {} => ~lit(i)
          /\ st.pattern = "SOLID"     => \A i \in Leds : override[i] = {} => wire[i] = full
          /\ st.pattern = "BREATHING" => \A i \in Leds : /\ wire[i] = wire[1]
                                                         /\ \A k \in Channels : wire[i][k] <= full[k]
          /\ st.pattern = "STROBE"    => \/ \A i \in Leds : ~lit(i)
                                         \/ \A i \in Leds : wire[i] = full
          /\ st.pattern = "RAINBOW"   => \A i \in Leds :
                /\ wire[i][4] = full[4]
                /\ \E k, m \in 1 .. 3 : wire[i][k] = top /\ wire[i][m] = 0

\* led_task.h: a single LED set by hand while the pattern is SOLID or OFF shows
\* that colour, at the brightness.  tick_fn fills the whole strip every 20 ms in
\* these patterns too, so this fails.
PixelHonoured ==
    (led_started /\ ~unshown) =>
        \A i \in Leds : \A c \in override[i] : wire[i] = OnWire(c, led_status.brightness)
=============================================================================
