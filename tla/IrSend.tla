------------------------------- MODULE IrSend -------------------------------
(***************************************************************************)
(* Sending infrared: ir/ir_aircon.c (commands, cached air-conditioner      *)
(* state), ir/ir_tx_zephyr.c (the transmit thread) and the commands of     *)
(* ble/gatt_servers/svc_ir.c.                                              *)
(*                                                                         *)
(* Main is app_main_task (preemptible, below the transmit thread), Ble the *)
(* Bluetooth host thread (cooperative): Main and the transmit thread run   *)
(* only while Ble is idle or blocked, Main only while the transmit thread  *)
(* is not busy-waiting.                                                    *)
(***************************************************************************)
EXTENDS Integers

CONSTANTS
    TempMin, TempMax,     \* IR_AIRCON_SAMSUNG_TEMP_MIN_C, _MAX_C
    OnTemp,               \* the temperature in k_samsung_ac_on_14
    TempArgs,             \* bytes a client may send as temperature
    CarrierMin, CarrierMax, DefaultCarrier, CarrierArgs

ASSUME IrAssumption ==
    /\ {TempMin, TempMax, OnTemp, CarrierMin, CarrierMax} \subseteq Nat
    /\ TempMin <= OnTemp /\ OnTemp <= TempMax
    /\ 0 < CarrierMin /\ DefaultCarrier \in CarrierMin .. CarrierMax
    /\ TempArgs \subseteq Nat /\ CarrierArgs \subseteq Nat

Threads == {"Main", "Ble"}
NoOne   == "none"

(***************************************************************************)
(* A frame is what the receiver can tell apart: the four learned frames,   *)
(* the cached state with a temperature, a raw Samsung frame, and raw       *)
(* symbols, which may take longer than APP_IR_TX_SEND_TIMEOUT_MS.          *)
(***************************************************************************)
Actions      == {"POWER_ON", "POWER_OFF", "TEMP_UP", "TEMP_DOWN"}
Learned(a)   == [kind |-> a, temp |-> 0]
State(c)     == [kind |-> "STATE", temp |-> c]
SamsungRaw   == [kind |-> "SAMSUNG_RAW", temp |-> 0]
RawSymbols   == [kind |-> "RAW_SYMBOLS", temp |-> 0]
NoFrame      == [kind |-> "NONE", temp |-> 0]
Frames       == {Learned(a) : a \in Actions} \cup {State(c) : c \in TempMin .. TempMax}
                \cup {SamsungRaw, RawSymbols, NoFrame}

VARIABLES
    inited,              \* ir_aircon_init has run: the module and ir_tx are ready
    s_mtx, s_busy_mtx,   \* who holds each mutex
    s_sam_power, s_sam14,
    syms,                \* the static symbols of send_symbol_frame
    s_buf, s_trigger, s_done, s_carrier_hz,
    pc, asked,           \* where each thread is, and the frame it wants sent
    tx, air,             \* the transmit thread, and the first half it emitted
    res, clean, sent,    \* of each thread's last call: its result, whether nobody
                         \* else used its buffers, whether its frame was emitted
    unit, known          \* the power of the air conditioner, and whether the
                         \* last thing it saw was a command of ir_aircon

aircon  == <<inited, s_mtx, s_sam_power, s_sam14, syms>>
ir_tx   == <<s_busy_mtx, s_buf, s_trigger, s_done, s_carrier_hz>>
emitter == <<tx, air, unit>>
ghosts  == <<res, clean, sent, known>>
ir_vars    == <<aircon, ir_tx, pc, asked, emitter, ghosts>>

IrTypeOK ==
    /\ {inited, s_sam_power, s_trigger, s_done, unit, known} \subseteq BOOLEAN
    /\ {s_mtx, s_busy_mtx} \subseteq Threads \cup {NoOne}
    /\ s_sam14 \in TempMin .. TempMax
    /\ s_carrier_hz \in CarrierMin .. CarrierMax
    /\ {syms, s_buf, air} \subseteq Frames
    /\ pc \in [Threads -> {"idle", "lock", "encode", "grab", "wait"}]
    /\ asked \in [Threads -> Frames]
    /\ tx \in {"take", "emit"}
    /\ res \in [Threads -> {"none", "ok", "error"}]
    /\ clean \in [Threads -> BOOLEAN] /\ sent \in [Threads -> BOOLEAN]

IrInit ==
    /\ inited = FALSE /\ s_mtx = NoOne /\ s_busy_mtx = NoOne
    /\ s_sam_power = FALSE /\ s_sam14 = TempMin
    /\ syms = NoFrame /\ s_buf = NoFrame
    /\ s_trigger = FALSE /\ s_done = FALSE /\ s_carrier_hz = DefaultCarrier
    /\ pc = [t \in Threads |-> "idle"] /\ asked = [t \in Threads |-> NoFrame]
    /\ tx = "take" /\ air = NoFrame
    /\ res = [t \in Threads |-> "none"]
    /\ clean = [t \in Threads |-> TRUE] /\ sent = [t \in Threads |-> FALSE]
    /\ unit \in BOOLEAN /\ known = FALSE

-----------------------------------------------------------------------------
(***************************************************************************)
(* Scheduling.                                                             *)
(***************************************************************************)
Ready(t) ==
    \/ pc[t] = "lock" /\ s_mtx \in {NoOne, t}
    \/ pc[t] = "encode"
    \/ pc[t] = "grab" /\ s_busy_mtx = NoOne
    \/ pc[t] = "wait" /\ s_done

Runs(t) == t = "Ble" \/ (~Ready("Ble") /\ tx = "take" /\ ~s_trigger)

-----------------------------------------------------------------------------
(***************************************************************************)
(* The calls.  What fails before it changes anything (a short payload, an  *)
(* unknown action, another brand, not ready) is no step.                   *)
(***************************************************************************)

\* app_ir_svc_init -> ir_aircon_init, from bt_ready_cb.
AirconInit ==
    /\ ~inited /\ inited' = TRUE
    /\ s_sam_power' = FALSE /\ s_sam14' = TempMin
    /\ UNCHANGED <<s_mtx, syms, ir_tx, pc, asked, emitter, ghosts>>

Call(t, f, at) ==
    /\ inited /\ pc[t] = "idle" /\ Runs(t)
    /\ pc' = [pc EXCEPT ![t] = at]
    /\ asked' = [asked EXCEPT ![t] = f]
    /\ res' = [res EXCEPT ![t] = "none"]
    /\ clean' = [clean EXCEPT ![t] = TRUE]
    /\ sent' = [sent EXCEPT ![t] = FALSE]
    /\ UNCHANGED <<aircon, s_busy_mtx, s_buf, s_trigger, s_done, emitter, known>>

\* ir_aircon_send, from the button sequence of app_main_task or AIRCON_ACTION.
AirconSend(t) ==
    \E a \in Actions : Call(t, Learned(a), "lock") /\ UNCHANGED s_carrier_hz

Clamp(c) == IF c < TempMin THEN TempMin ELSE IF c > TempMax THEN TempMax ELSE c

\* ir_aircon_set_temp_c, from AIRCON_SET_TEMP.
AirconSetTemp ==
    \E c \in TempArgs : Call("Ble", State(Clamp(c)), "lock") /\ UNCHANGED s_carrier_hz

\* ir_aircon_samsung_send_raw, from SAMSUNG_RAW: it does not take s_mtx.
SendRaw == Call("Ble", SamsungRaw, "encode") /\ UNCHANGED s_carrier_hz

\* Mutant: no range check.
M_ir_tx_set_carrier_hz(hz) == s_carrier_hz' = hz

\* A carrier out of range is refused; carrier_on divides by the stored one.
ir_tx_set_carrier_hz(hz) ==
    s_carrier_hz' = IF hz \in CarrierMin .. CarrierMax THEN hz ELSE s_carrier_hz

\* RAW_SYMBOLS: the carrier, zero meaning "as it is", then the symbols.
SendSymbols ==
    \E hz \in CarrierArgs :
        /\ Call("Ble", RawSymbols, "grab")
        /\ IF hz = 0 THEN UNCHANGED s_carrier_hz ELSE ir_tx_set_carrier_hz(hz)

SetCarrier ==
    /\ inited /\ pc["Ble"] = "idle"
    /\ \E hz \in CarrierArgs : ir_tx_set_carrier_hz(hz)
    /\ UNCHANGED <<aircon, s_busy_mtx, s_buf, s_trigger, s_done, pc, asked, emitter, ghosts>>

-----------------------------------------------------------------------------
(***************************************************************************)
(* A call's way to the transmit thread and back.                           *)
(***************************************************************************)

\* Mutant: the refusal returns with s_mtx held.
M_Lock(t) ==
    /\ pc[t] = "lock" /\ s_mtx \in {NoOne, t} /\ Runs(t)
    /\ s_mtx' = t
    /\ \/ /\ asked[t].kind = "STATE" /\ ~s_sam_power
          /\ pc' = [pc EXCEPT ![t] = "idle"]
          /\ asked' = [asked EXCEPT ![t] = NoFrame]
          /\ res' = [res EXCEPT ![t] = "error"]
          /\ UNCHANGED s_sam14
       \/ /\ asked[t].kind = "STATE" => s_sam_power
          /\ pc' = [pc EXCEPT ![t] = "encode"]
          /\ s_sam14' = IF asked[t].kind = "STATE" THEN asked[t].temp ELSE s_sam14
          /\ UNCHANGED <<asked, res>>
    /\ UNCHANGED <<inited, s_sam_power, syms, ir_tx, emitter, clean, sent, known>>

\* s_mtx is taken (a Zephyr mutex lets its owner in again).
\* samsung_send_state_with_temp_locked refuses while the power is off, and edits
\* the cached state before it is sent.
Lock(t) ==
    /\ pc[t] = "lock" /\ s_mtx \in {NoOne, t} /\ Runs(t)
    /\ \/ /\ asked[t].kind = "STATE" /\ ~s_sam_power
          /\ pc' = [pc EXCEPT ![t] = "idle"]
          /\ asked' = [asked EXCEPT ![t] = NoFrame]
          /\ res' = [res EXCEPT ![t] = "error"]
          /\ UNCHANGED <<s_mtx, s_sam14>>
       \/ /\ asked[t].kind = "STATE" => s_sam_power
          /\ pc' = [pc EXCEPT ![t] = "encode"]
          /\ s_mtx' = t
          /\ s_sam14' = IF asked[t].kind = "STATE" THEN asked[t].temp ELSE s_sam14
          /\ UNCHANGED <<asked, res>>
    /\ UNCHANGED <<inited, s_sam_power, syms, ir_tx, emitter, clean, sent, known>>

\* send_symbol_frame encodes into its static symbols, whoever else has just
\* done so.
Encode(t) ==
    /\ pc[t] = "encode" /\ Runs(t)
    /\ syms' = asked[t]
    /\ pc' = [pc EXCEPT ![t] = "grab"]
    /\ clean' = [u \in Threads |->
                    clean[u] /\ ~(u # t /\ pc[u] = "grab" /\ asked[u] # RawSymbols)]
    /\ UNCHANGED <<inited, s_mtx, s_sam_power, s_sam14, ir_tx, asked, emitter, res, sent, known>>

\* Mutant: the s_done of an abandoned transmission is not drained.
M_Grab(t) ==
    /\ pc[t] = "grab" /\ s_busy_mtx = NoOne /\ Runs(t)
    /\ s_busy_mtx' = t
    /\ s_buf' = IF asked[t] = RawSymbols THEN RawSymbols ELSE syms
    /\ s_trigger' = TRUE
    /\ pc' = [pc EXCEPT ![t] = "wait"]
    /\ clean' = [clean EXCEPT ![t] = @ /\ tx = "take" /\ ~s_trigger]
    /\ UNCHANGED <<aircon, s_done, s_carrier_hz, asked, emitter, res, sent, known>>

\* ir_tx_send_symbols takes s_busy_mtx, copies, drains s_done and triggers.
Grab(t) ==
    /\ pc[t] = "grab" /\ s_busy_mtx = NoOne /\ Runs(t)
    /\ s_busy_mtx' = t
    /\ s_buf' = IF asked[t] = RawSymbols THEN RawSymbols ELSE syms
    /\ s_done' = FALSE /\ s_trigger' = TRUE
    /\ pc' = [pc EXCEPT ![t] = "wait"]
    /\ clean' = [clean EXCEPT ![t] = @ /\ tx = "take" /\ ~s_trigger]
    /\ UNCHANGED <<aircon, s_carrier_hz, asked, emitter, res, sent, known>>

Leave(t, r) ==
    /\ pc' = [pc EXCEPT ![t] = "idle"]
    /\ asked' = [asked EXCEPT ![t] = NoFrame]
    /\ res' = [res EXCEPT ![t] = r]
    /\ s_busy_mtx' = NoOne
    /\ s_mtx' = IF s_mtx = t THEN NoOne ELSE s_mtx
    /\ known' = /\ known \/ asked[t].kind \in {"POWER_ON", "POWER_OFF"}
                /\ r = "ok" /\ clean[t] /\ asked[t] \notin {SamsungRaw, RawSymbols}

\* Mutant: POWER_OFF leaves s_sam_power set.
M_SendOk(t) ==
    /\ pc[t] = "wait" /\ s_done /\ Runs(t)
    /\ s_done' = FALSE
    /\ Leave(t, "ok")
    /\ s_sam_power' = (s_sam_power \/ asked[t].kind = "POWER_ON")
    /\ s_sam14' = IF asked[t].kind = "POWER_ON" THEN OnTemp ELSE s_sam14
    /\ UNCHANGED <<inited, syms, s_buf, s_trigger, s_carrier_hz, emitter, clean, sent>>

\* s_done is taken; exec_samsung_learned then updates the cached state.
SendOk(t) ==
    /\ pc[t] = "wait" /\ s_done /\ Runs(t)
    /\ s_done' = FALSE
    /\ Leave(t, "ok")
    /\ s_sam_power' = CASE asked[t].kind = "POWER_ON"  -> TRUE
                        [] asked[t].kind = "POWER_OFF" -> FALSE
                        [] OTHER -> s_sam_power
    /\ s_sam14' = IF asked[t].kind = "POWER_ON" THEN OnTemp ELSE s_sam14
    /\ UNCHANGED <<inited, syms, s_buf, s_trigger, s_carrier_hz, emitter, clean, sent>>

\* The three seconds are over: only while raw symbols are on the air.  Main
\* triggers an idle transmit thread only, so its own short frame is next.
SendTimeout(t) ==
    /\ pc[t] = "wait" /\ ~s_done
    /\ tx = "emit" /\ air = RawSymbols
    /\ t = "Ble"
    /\ Leave(t, "error")
    /\ UNCHANGED <<inited, s_sam_power, s_sam14, syms, s_buf, s_trigger, s_done, s_carrier_hz,
                   emitter, clean, sent>>

-----------------------------------------------------------------------------
(***************************************************************************)
(* ir_tx_thread: the symbols are read from s_buf as they are emitted, so a *)
(* frame goes out in two parts between which s_buf may be overwritten.     *)
(***************************************************************************)
TxTake ==
    /\ tx = "take" /\ s_trigger /\ ~Ready("Ble")
    /\ s_trigger' = FALSE
    /\ tx' = "emit" /\ air' = s_buf
    /\ UNCHANGED <<aircon, s_busy_mtx, s_buf, s_done, s_carrier_hz, pc, asked, unit, ghosts>>

TxFinish ==
    /\ tx = "emit" /\ ~Ready("Ble")
    /\ tx' = "take" /\ air' = NoFrame
    /\ s_done' = TRUE
    /\ sent' = [t \in Threads |-> sent[t] \/ (pc[t] = "wait" /\ air = asked[t] /\ s_buf = air)]
    /\ unit' = CASE s_buf # air \/ air = SamsungRaw -> unit
                 [] air.kind \in {"POWER_ON", "STATE"} -> TRUE
                 [] air.kind = "POWER_OFF" -> FALSE
                 [] OTHER -> unit
    /\ UNCHANGED <<aircon, s_busy_mtx, s_buf, s_trigger, s_carrier_hz, pc, asked, res, clean, known>>

-----------------------------------------------------------------------------
Steps(t) == Lock(t) \/ Encode(t) \/ Grab(t) \/ SendOk(t) \/ SendTimeout(t)

IrNext ==
    \/ AirconInit
    \/ \E t \in Threads : AirconSend(t) \/ Steps(t)
    \/ AirconSetTemp \/ SendRaw \/ SendSymbols \/ SetCarrier
    \/ TxTake \/ TxFinish

(***************************************************************************)
(* The scheduler runs whatever is ready.  The transmit thread and Main are *)
(* preempted by every write of a client, but get the processor whenever it *)
(* is free: strong fairness.  A wait need not time out.                    *)
(***************************************************************************)
IrSpec ==
    /\ IrInit /\ [][IrNext]_ir_vars
    /\ WF_ir_vars(Lock("Ble") \/ Encode("Ble") \/ Grab("Ble") \/ SendOk("Ble"))
    /\ SF_ir_vars(Lock("Main") \/ Encode("Main") \/ Grab("Main") \/ SendOk("Main"))
    /\ SF_ir_vars(TxTake \/ TxFinish)

-----------------------------------------------------------------------------
(***************************************************************************)
(* Properties.                                                             *)
(***************************************************************************)

\* A call that reports success had its frame emitted, whole, before it
\* returned, unless the client's raw frame was encoded over its symbols or the
\* transmit thread was still busy with raw symbols whose sender had given up.
FrameSent == \A t \in Threads : res[t] = "ok" /\ clean[t] => sent[t]

\* When nothing is under way and the last thing sent was a command of ir_aircon,
\* the cached power is the power the air conditioner was told, whichever thread
\* gave the commands.
PowerFollows ==
    known /\ (\A t \in Threads : pc[t] = "idle") /\ tx = "take" /\ ~s_trigger
        => s_sam_power = unit

\* Every call of a client returns, and every call of the main loop unless
\* clients keep the transmit thread busy for ever: no order of the two mutexes
\* and the two semaphores leaves a caller waiting.
SendReturns ==
    /\ pc["Ble"] # "idle" ~> pc["Ble"] = "idle"
    /\ <>[](pc["Main"] # "idle") => []<>(tx = "emit")
=============================================================================
