---------------------------- MODULE IrSendProofs ----------------------------
(***************************************************************************)
(* Proofs about IrSend for every range of temperatures and carriers.       *)
(***************************************************************************)
EXTENDS IrSend, TLAPS

(***************************************************************************)
(* The inductive invariant.  Busy and Owner say what holding s_busy_mtx    *)
(* and s_mtx means, Encoded that the static symbols are still the caller's *)
(* and Phase how far the transmit thread is with the frame of a caller     *)
(* whose buffers nobody else used.                                         *)
(***************************************************************************)
Plain == {SamsungRaw, RawSymbols}    \* sent without s_mtx

Busy == \A t \in Threads : pc[t] = "wait" <=> s_busy_mtx = t

Owner ==
    \A t \in Threads : pc[t] \in {"encode", "grab", "wait"} /\ asked[t] \notin Plain =>
        s_mtx = t /\ (asked[t].kind = "STATE" => s_sam_power)

Encoded ==
    \A t \in Threads : pc[t] = "grab" /\ clean[t] /\ asked[t] # RawSymbols => syms = asked[t]

\* The power that SendOk(t) will record.
PowerAfter(t) ==
    CASE asked[t].kind = "POWER_ON"  -> TRUE
      [] asked[t].kind = "POWER_OFF" -> FALSE
      [] OTHER -> s_sam_power

ToEmit(t) ==
    /\ s_buf = asked[t] /\ ~s_done
    /\ known => s_sam_power = unit
    /\ \/ s_trigger /\ tx = "take"
       \/ ~s_trigger /\ tx = "emit" /\ air = asked[t]

Emitted(t) ==
    /\ ~s_trigger /\ tx = "take" /\ s_done /\ sent[t]
    /\ known \/ asked[t].kind \in {"POWER_ON", "POWER_OFF"} => unit = PowerAfter(t)

Phase == \A t \in Threads : pc[t] = "wait" /\ clean[t] => ToEmit(t) \/ Emitted(t)

\* Between two transmissions.
Rest == known /\ s_busy_mtx = NoOne => tx = "take" /\ ~s_trigger /\ s_sam_power = unit

Unborn == ~inited => ~known /\ \A t \in Threads : pc[t] = "idle"

IrIInv == IrTypeOK /\ Busy /\ Owner /\ Encoded /\ Phase /\ Rest /\ Unborn /\ FrameSent
-----------------------------------------------------------------------------
\* A temperature is clamped into its range.
LEMMA ClampTyped == \A c \in TempArgs : Clamp(c) \in TempMin .. TempMax
BY IrAssumption DEF Clamp

\* What the frames are.
LEMMA FrameFacts ==
    /\ \A a \in Actions : Learned(a) \in Frames \ (Plain \cup {NoFrame}) /\ Learned(a).kind # "STATE"
    /\ \A c \in TempMin .. TempMax : State(c) \in Frames
    /\ SamsungRaw \in Frames /\ RawSymbols \in Frames /\ NoFrame \in Frames
    /\ SamsungRaw # RawSymbols
    /\ \A f \in Plain : f.kind \notin {"POWER_ON", "POWER_OFF", "STATE"}
    /\ \A f \in Frames : f.kind = "STATE" => f.temp \in TempMin .. TempMax
<1> USE DEF Learned, State, SamsungRaw, RawSymbols, NoFrame
<1>1. \A a \in Actions : Learned(a) \in Frames
  BY DEF Frames
<1>2. \A a \in Actions : /\ Learned(a).kind = a
                         /\ a \notin {"SAMSUNG_RAW", "RAW_SYMBOLS", "NONE", "STATE"}
  BY DEF Actions
<1>3. \A a \in Actions : Learned(a) \notin Plain \cup {NoFrame} /\ Learned(a).kind # "STATE"
  BY <1>2 DEF Plain
<1>4. \A c \in TempMin .. TempMax : State(c) \in Frames
  BY DEF Frames
<1>5. SamsungRaw \in Frames /\ RawSymbols \in Frames /\ NoFrame \in Frames /\ SamsungRaw # RawSymbols
  BY DEF Frames
<1>6. \A f \in Plain : f.kind \notin {"POWER_ON", "POWER_OFF", "STATE"}
  BY DEF Plain
<1>7. ASSUME NEW f \in Frames, f.kind = "STATE" PROVE f.temp \in TempMin .. TempMax
  <2>1. CASE \E c \in TempMin .. TempMax : f = State(c)
    BY <2>1
  <2> QED BY <1>2, <1>7, <2>1 DEF Frames
<1> QED BY <1>1, <1>3, <1>4, <1>5, <1>6, <1>7

\* Nobody is neither thread.
LEMMA ThreadFacts == Threads = {"Main", "Ble"} /\ NoOne \notin Threads
BY DEF Threads, NoOne

\* Power-on.
LEMMA InitIrIInv == IrInit => IrIInv
<1> SUFFICES ASSUME IrInit PROVE IrIInv
  OBVIOUS
<1> USE ThreadFacts
<1>1. /\ inited \in BOOLEAN /\ s_sam_power \in BOOLEAN /\ s_trigger \in BOOLEAN
      /\ s_done \in BOOLEAN /\ unit \in BOOLEAN /\ known \in BOOLEAN /\ ~known
  BY DEF IrInit
<1>2. s_sam14 \in TempMin .. TempMax /\ s_carrier_hz \in CarrierMin .. CarrierMax
  BY IrAssumption DEF IrInit
<1>3. clean \in [Threads -> BOOLEAN] /\ sent \in [Threads -> BOOLEAN]
  BY DEF IrInit
<1>4. IrTypeOK
  BY <1>1, <1>2, <1>3, FrameFacts DEF IrInit, IrTypeOK
<1>5. /\ s_busy_mtx = NoOne
      /\ \A t \in Threads : pc[t] = "idle" /\ res[t] = "none"
  BY DEF IrInit
<1> QED BY <1>1, <1>4, <1>5
        DEF IrIInv, Busy, Owner, Encoded, Phase, Rest, Unborn, FrameSent

-----------------------------------------------------------------------------
(***************************************************************************)
(* The calls.                                                              *)
(***************************************************************************)

\* A call begins: whatever it is for, nothing it left behind counts any more.
LEMMA CallKeeps ==
    ASSUME IrIInv, NEW t \in Threads, NEW f \in Frames, NEW at \in {"lock", "encode", "grab"},
           Call(t, f, at), s_carrier_hz' \in CarrierMin .. CarrierMax,
           at = "encode" => f = SamsungRaw, at = "grab" => f = RawSymbols
    PROVE  IrIInv'
<1> USE ThreadFacts DEF aircon, emitter
<1>1. /\ pc' = [pc EXCEPT ![t] = at] /\ asked' = [asked EXCEPT ![t] = f]
      /\ res' = [res EXCEPT ![t] = "none"]
      /\ clean' = [clean EXCEPT ![t] = TRUE] /\ sent' = [sent EXCEPT ![t] = FALSE]
      /\ UNCHANGED <<inited, s_mtx, s_sam_power, s_sam14, syms, s_busy_mtx, s_buf, s_trigger,
                     s_done, tx, air, unit, known>>
  BY DEF Call
<1>2. inited /\ pc[t] = "idle"
  BY DEF Call
<1>3. IrTypeOK'
  BY <1>1 DEF IrIInv, IrTypeOK
<1>4. /\ \A u \in Threads : u # t => /\ pc'[u] = pc[u] /\ asked'[u] = asked[u]
                                     /\ res'[u] = res[u] /\ clean'[u] = clean[u]
                                     /\ sent'[u] = sent[u]
      /\ pc'[t] = at /\ asked'[t] = f /\ res'[t] = "none"
  BY <1>1 DEF IrIInv, IrTypeOK
<1>5. Busy'
  BY <1>1, <1>2, <1>4 DEF IrIInv, Busy
<1>6. Owner'
  BY <1>1, <1>4 DEF IrIInv, Owner, Plain
<1>7. Encoded'
  BY <1>1, <1>4, FrameFacts DEF IrIInv, Encoded
<1>8. Phase'
  <2> SUFFICES ASSUME NEW u \in Threads, pc'[u] = "wait", clean'[u]
               PROVE  ToEmit(u)' \/ Emitted(u)'
    BY DEF Phase
  <2>1. u # t /\ pc[u] = "wait" /\ clean[u]
    BY <1>4
  <2>2. asked'[u] = asked[u] /\ sent'[u] = sent[u]
    BY <1>4, <2>1
  <2>3. PowerAfter(u)' = PowerAfter(u)
    BY <1>1, <2>2 DEF PowerAfter
  <2> QED BY <1>1, <2>1, <2>2, <2>3 DEF IrIInv, Phase, ToEmit, Emitted
<1>9. Rest' /\ Unborn' /\ FrameSent'
  BY <1>1, <1>2, <1>4 DEF IrIInv, Rest, Unborn, FrameSent
<1> QED BY <1>3, <1>5, <1>6, <1>7, <1>8, <1>9 DEF IrIInv

\* The carrier stays in its range.
LEMMA CarrierTyped ==
    ASSUME IrTypeOK, NEW hz, ir_tx_set_carrier_hz(hz)
    PROVE  s_carrier_hz' \in CarrierMin .. CarrierMax
BY DEF IrTypeOK, ir_tx_set_carrier_hz

\* ir_aircon_init, and the five commands.
LEMMA CommandsKeep ==
    ASSUME IrIInv,
           \/ AirconInit \/ AirconSetTemp \/ SendRaw \/ SendSymbols \/ SetCarrier
           \/ \E t \in Threads : AirconSend(t)
    PROVE  IrIInv'
<1> USE ThreadFacts, FrameFacts
<1>1. s_carrier_hz \in CarrierMin .. CarrierMax
  BY DEF IrIInv, IrTypeOK
<1>2. CASE AirconInit
  <2>1. inited' = TRUE /\ s_sam_power' = FALSE /\ s_sam14' = TempMin
        /\ UNCHANGED <<s_mtx, syms, ir_tx, pc, asked, emitter, ghosts>> /\ ~inited
    BY <1>2 DEF AirconInit
  <2>2. inited' \in BOOLEAN /\ inited' /\ s_sam_power' \in BOOLEAN
    BY <2>1
  <2>3. TempMin \in TempMin .. TempMax
    BY IrAssumption
  <2>4. IrTypeOK'
    BY <2>1, <2>2, <2>3 DEF ir_tx, emitter, ghosts, IrIInv, IrTypeOK
  <2>5. ~known /\ \A t \in Threads : pc[t] = "idle"
    BY <2>1 DEF IrIInv, Unborn
  <2> QED BY <2>1, <2>2, <2>4, <2>5
          DEF ir_tx, emitter, ghosts, IrIInv, Busy, Owner, Encoded, Phase, Rest, Unborn, FrameSent
<1>3. CASE AirconSetTemp
  <2>1. PICK c \in TempArgs : Call("Ble", State(Clamp(c)), "lock") /\ UNCHANGED s_carrier_hz
    BY <1>3 DEF AirconSetTemp
  <2> QED BY <1>1, <2>1, ClampTyped, CallKeeps
<1>4. CASE SendRaw
  BY <1>1, <1>4, CallKeeps DEF SendRaw
<1>5. CASE SendSymbols
  <2>1. PICK hz \in CarrierArgs : Call("Ble", RawSymbols, "grab")
             /\ IF hz = 0 THEN UNCHANGED s_carrier_hz ELSE ir_tx_set_carrier_hz(hz)
    BY <1>5 DEF SendSymbols
  <2>2. s_carrier_hz' \in CarrierMin .. CarrierMax
    BY <1>1, <2>1, CarrierTyped DEF IrIInv
  <2> QED BY <2>1, <2>2, CallKeeps
<1>6. CASE SetCarrier
  <2>1. s_carrier_hz' \in CarrierMin .. CarrierMax
    BY <1>6, CarrierTyped DEF SetCarrier, IrIInv
  <2>2. UNCHANGED <<inited, s_mtx, s_sam_power, s_sam14, syms, s_busy_mtx, s_buf, s_trigger,
                    s_done, pc, asked, tx, air, unit, res, clean, sent, known>>
    BY <1>6 DEF SetCarrier, aircon, emitter, ghosts
  <2> QED BY <2>1, <2>2 DEF IrIInv, IrTypeOK, Busy, Owner, Encoded, Phase, ToEmit, Emitted,
                           PowerAfter, Rest, Unborn, FrameSent
<1>7. ASSUME NEW t \in Threads, AirconSend(t) PROVE IrIInv'
  <2>1. PICK a \in Actions : Call(t, Learned(a), "lock") /\ UNCHANGED s_carrier_hz
    BY <1>7 DEF AirconSend
  <2> QED BY <1>1, <2>1, CallKeeps
<1> QED BY <1>2, <1>3, <1>4, <1>5, <1>6, <1>7

-----------------------------------------------------------------------------
(***************************************************************************)
(* The steps of a call.                                                    *)
(***************************************************************************)

\* A step that leaves the buffers, the transmit thread and the power alone keeps
\* the phase of everyone who waits.
LEMMA PhaseKept ==
    ASSUME Phase,
           UNCHANGED <<s_sam_power, s_buf, s_trigger, s_done, tx, air, unit, known, sent>>,
           \A u \in Threads : pc'[u] = "wait" => pc[u] = "wait" /\ asked'[u] = asked[u],
           \A u \in Threads : pc'[u] = "wait" /\ clean'[u] => clean[u]
    PROVE  Phase'
<1> SUFFICES ASSUME NEW u \in Threads, pc'[u] = "wait", clean'[u]
             PROVE  ToEmit(u)' \/ Emitted(u)'
  BY DEF Phase
<1>1. pc[u] = "wait" /\ asked'[u] = asked[u] /\ clean[u]
  BY Zenon
<1>2. PowerAfter(u)' = PowerAfter(u)
  BY <1>1 DEF PowerAfter
<1> QED BY <1>1, <1>2 DEF Phase, ToEmit, Emitted

\* s_mtx is taken, or the temperature is refused.
LEMMA LockKeeps == ASSUME IrIInv, NEW t \in Threads, Lock(t) PROVE IrIInv'
<1> USE ThreadFacts
<1>1. pc[t] = "lock" /\ s_mtx \in {NoOne, t}
  BY DEF Lock
<1>2. UNCHANGED <<inited, s_sam_power, syms, s_busy_mtx, s_buf, s_trigger, s_done, s_carrier_hz,
                  tx, air, unit, clean, sent, known>>
  BY DEF Lock, ir_tx, emitter
<1>3. CASE /\ pc' = [pc EXCEPT ![t] = "idle"] /\ asked' = [asked EXCEPT ![t] = NoFrame]
           /\ res' = [res EXCEPT ![t] = "error"] /\ UNCHANGED <<s_mtx, s_sam14>>
  <2>1. IrTypeOK'
    BY <1>2, <1>3, FrameFacts DEF IrIInv, IrTypeOK
  <2>2. /\ \A u \in Threads : u # t => /\ pc'[u] = pc[u] /\ asked'[u] = asked[u]
                                       /\ res'[u] = res[u]
        /\ pc'[t] = "idle" /\ res'[t] = "error"
    BY <1>3 DEF IrIInv, IrTypeOK
  <2>3. Busy' /\ Owner' /\ Encoded'
    BY <1>1, <1>2, <1>3, <2>2 DEF IrIInv, Busy, Owner, Encoded
  <2>4. Phase'
    BY <1>2, <2>2, PhaseKept DEF IrIInv
  <2>5. Rest' /\ Unborn' /\ FrameSent'
    BY <1>2, <2>2 DEF IrIInv, Rest, Unborn, FrameSent
  <2> QED BY <2>1, <2>3, <2>4, <2>5 DEF IrIInv
<1>4. CASE /\ asked[t].kind = "STATE" => s_sam_power
           /\ pc' = [pc EXCEPT ![t] = "encode"] /\ s_mtx' = t
           /\ s_sam14' = IF asked[t].kind = "STATE" THEN asked[t].temp ELSE s_sam14
           /\ UNCHANGED <<asked, res>>
  <2>1. s_sam14' \in TempMin .. TempMax
    BY <1>4, FrameFacts DEF IrIInv, IrTypeOK
  <2>2. IrTypeOK'
    BY <1>2, <1>4, <2>1 DEF IrIInv, IrTypeOK
  <2>3. pc'[t] = "encode" /\ \A u \in Threads : u # t => pc'[u] = pc[u]
    BY <1>4 DEF IrIInv, IrTypeOK
  <2>4. Busy' /\ Owner' /\ Encoded'
    BY <1>1, <1>2, <1>4, <2>3 DEF IrIInv, Busy, Owner, Encoded
  <2>5. Phase'
    BY <1>2, <1>4, <2>3, PhaseKept DEF IrIInv
  <2>6. Rest' /\ FrameSent'
    BY <1>2, <1>4 DEF IrIInv, Rest, FrameSent
  <2>7. Unborn'
    BY <1>1, <1>2 DEF IrIInv, Unborn
  <2> QED BY <2>2, <2>4, <2>5, <2>6, <2>7 DEF IrIInv
<1> QED BY <1>3, <1>4 DEF Lock

\* The static symbols are overwritten, and whoever had his there is not clean.
LEMMA EncodeKeeps == ASSUME IrIInv, NEW t \in Threads, Encode(t) PROVE IrIInv'
<1> USE ThreadFacts
<1>1. /\ pc[t] = "encode" /\ syms' = asked[t] /\ pc' = [pc EXCEPT ![t] = "grab"]
      /\ clean' = [u \in Threads |->
                    clean[u] /\ ~(u # t /\ pc[u] = "grab" /\ asked[u] # RawSymbols)]
      /\ UNCHANGED <<inited, s_mtx, s_sam_power, s_sam14, s_busy_mtx, s_buf, s_trigger, s_done,
                     s_carrier_hz, asked, tx, air, unit, res, sent, known>>
  BY DEF Encode, ir_tx, emitter
<1>2. clean' \in [Threads -> BOOLEAN]
  BY Zenon, <1>1
<1>3. \A u \in Threads : /\ clean'[u] => clean[u]
                         /\ clean'[u] /\ u # t /\ pc[u] = "grab" => asked[u] = RawSymbols
  BY <1>1
<1>4. IrTypeOK'
  BY <1>1, <1>2 DEF IrIInv, IrTypeOK
<1>5. pc'[t] = "grab" /\ \A u \in Threads : u # t => pc'[u] = pc[u]
  BY <1>1 DEF IrIInv, IrTypeOK
<1>6. Busy' /\ Owner'
  BY <1>1, <1>5 DEF IrIInv, Busy, Owner
<1>7. Encoded'
  BY <1>1, <1>3, <1>5 DEF IrIInv, Encoded
<1>8. Phase'
  BY <1>1, <1>3, <1>5, PhaseKept DEF IrIInv
<1>9. Rest' /\ Unborn' /\ FrameSent'
  BY <1>1, <1>3 DEF IrIInv, Rest, Unborn, FrameSent
<1> QED BY <1>4, <1>6, <1>7, <1>8, <1>9 DEF IrIInv

\* s_busy_mtx is taken and the transmit thread triggered: from rest for one who
\* stays clean.
LEMMA GrabKeeps == ASSUME IrIInv, NEW t \in Threads, Grab(t) PROVE IrIInv'
<1> USE ThreadFacts
<1>1. /\ pc[t] = "grab" /\ s_busy_mtx = NoOne /\ s_busy_mtx' = t
      /\ s_buf' = IF asked[t] = RawSymbols THEN RawSymbols ELSE syms
      /\ pc' = [pc EXCEPT ![t] = "wait"]
      /\ UNCHANGED <<inited, s_mtx, s_sam_power, s_sam14, syms, s_carrier_hz, asked, tx, air, unit,
                     res, sent, known>>
  BY DEF Grab, aircon, emitter
<1>2. ~s_done' /\ s_done' \in BOOLEAN /\ s_trigger' /\ s_trigger' \in BOOLEAN
  BY DEF Grab
<1>3. clean' = [clean EXCEPT ![t] = clean[t] /\ tx = "take" /\ ~s_trigger]
  BY DEF Grab
<1>4. clean' \in [Threads -> BOOLEAN] /\ clean'[t] = (clean[t] /\ tx = "take" /\ ~s_trigger)
      /\ \A u \in Threads : u # t => clean'[u] = clean[u]
  <2>1. clean \in [Threads -> BOOLEAN] /\ (clean[t] /\ tx = "take" /\ ~s_trigger) \in BOOLEAN
    BY DEF IrIInv, IrTypeOK
  <2> QED BY Zenon, <1>3, <2>1
<1>5. s_buf' \in Frames
  BY <1>1, FrameFacts DEF IrIInv, IrTypeOK
<1>6. IrTypeOK'
  BY <1>1, <1>2, <1>4, <1>5 DEF IrIInv, IrTypeOK
<1>7. pc'[t] = "wait" /\ \A u \in Threads : u # t => pc'[u] = pc[u] /\ pc[u] # "wait"
  BY <1>1 DEF IrIInv, IrTypeOK, Busy
<1>8. Busy' /\ Owner' /\ Encoded'
  BY <1>1, <1>4, <1>7 DEF IrIInv, Busy, Owner, Encoded
<1>9. Phase'
  <2> SUFFICES ASSUME NEW u \in Threads, pc'[u] = "wait", clean'[u] PROVE ToEmit(u)'
    BY DEF Phase
  <2>1. u = t /\ clean[t] /\ tx = "take"
    BY <1>4, <1>7
  <2>2. s_buf' = asked'[u]
    BY <1>1, <2>1 DEF IrIInv, Encoded
  <2>3. known' => s_sam_power' = unit'
    BY <1>1 DEF IrIInv, Rest
  <2> QED BY <1>1, <1>2, <2>1, <2>2, <2>3 DEF ToEmit
<1>10. Rest' /\ Unborn'
  BY <1>1 DEF IrIInv, Rest, Unborn
<1>11. FrameSent'
  BY <1>1, <1>4 DEF IrIInv, FrameSent
<1> QED BY <1>6, <1>8, <1>9, <1>10, <1>11 DEF IrIInv

\* A call returns, having given both mutexes back.
LEMMA LeaveKeeps ==
    ASSUME IrIInv, NEW t \in Threads, NEW r \in {"ok", "error"}, pc[t] = "wait", Leave(t, r),
           UNCHANGED <<inited, syms, s_buf, s_trigger, s_carrier_hz, tx, air, unit, clean, sent>>,
           s_done' \in BOOLEAN, s_sam_power' \in BOOLEAN, s_sam14' \in TempMin .. TempMax,
           \A u \in Threads : u # t /\ s_mtx = u /\ s_sam_power => s_sam_power',
           r = "ok" /\ clean[t] => Emitted(t) /\ s_sam_power' = PowerAfter(t)
    PROVE  IrIInv'
<1> USE ThreadFacts
<1>1. /\ pc' = [pc EXCEPT ![t] = "idle"] /\ asked' = [asked EXCEPT ![t] = NoFrame]
      /\ res' = [res EXCEPT ![t] = r] /\ s_busy_mtx' = NoOne
      /\ s_mtx' = IF s_mtx = t THEN NoOne ELSE s_mtx
  BY DEF Leave
<1>2. known' = /\ known \/ asked[t].kind \in {"POWER_ON", "POWER_OFF"}
               /\ r = "ok" /\ clean[t] /\ asked[t] \notin Plain
  BY DEF Leave, Plain
<1>3. /\ known' \in BOOLEAN
      /\ known' => r = "ok" /\ clean[t] /\ (known \/ asked[t].kind \in {"POWER_ON", "POWER_OFF"})
  BY Zenon, <1>2
<1>4. IrTypeOK'
  BY <1>1, <1>3, FrameFacts DEF IrIInv, IrTypeOK
<1>5. /\ \A u \in Threads : u # t => /\ pc'[u] = pc[u] /\ asked'[u] = asked[u]
                                     /\ res'[u] = res[u] /\ pc[u] # "wait"
      /\ pc'[t] = "idle" /\ res'[t] = r
  BY <1>1 DEF IrIInv, IrTypeOK, Busy
<1>6. Busy'
  BY <1>1, <1>5 DEF IrIInv, Busy
<1>7. Owner'
  BY <1>1, <1>5 DEF IrIInv, Owner
<1>8. Encoded' /\ Phase'
  BY <1>5 DEF IrIInv, Encoded, Phase
<1>9. Rest'
  BY <1>3 DEF Rest, Emitted
<1>10. Unborn'
  BY <1>5 DEF IrIInv, Unborn
<1>11. FrameSent'
  BY <1>5 DEF IrIInv, FrameSent, Emitted
<1> QED BY <1>4, <1>6, <1>7, <1>8, <1>9, <1>10, <1>11 DEF IrIInv

\* s_done is taken.  A clean caller's frame was emitted.
LEMMA SendOkKeeps == ASSUME IrIInv, NEW t \in Threads, SendOk(t) PROVE IrIInv'
<1> USE ThreadFacts
<1>1. pc[t] = "wait" /\ s_done /\ Leave(t, "ok") /\ s_sam_power' = PowerAfter(t)
      /\ UNCHANGED <<inited, syms, s_buf, s_trigger, s_carrier_hz, tx, air, unit, clean, sent>>
  BY DEF SendOk, emitter, PowerAfter
<1>2. s_done' \in BOOLEAN /\ s_sam_power' \in BOOLEAN
  <2>1. s_done' = FALSE /\ s_sam_power \in BOOLEAN
    BY DEF SendOk, IrIInv, IrTypeOK
  <2> QED BY <1>1, <2>1 DEF PowerAfter
<1>3. s_sam14' \in TempMin .. TempMax
  BY IrAssumption DEF SendOk, IrIInv, IrTypeOK
<1>4. ASSUME NEW u \in Threads, u # t, s_mtx = u, s_sam_power PROVE s_sam_power'
  <2>1. asked[t] \in Plain
    BY <1>1, <1>4 DEF IrIInv, Owner
  <2>2. PowerAfter(t) = s_sam_power
    BY <2>1, FrameFacts DEF PowerAfter
  <2> QED BY <1>1, <1>4, <2>2
<1>5. clean[t] => Emitted(t)
  BY <1>1 DEF IrIInv, Phase, ToEmit
<1> QED BY <1>1, <1>2, <1>3, <1>4, <1>5, LeaveKeeps

\* The wait times out: what the air conditioner was told is no longer known.
LEMMA TimeoutKeeps == ASSUME IrIInv, NEW t \in Threads, SendTimeout(t) PROVE IrIInv'
<1>1. /\ pc[t] = "wait" /\ Leave(t, "error")
      /\ UNCHANGED <<inited, s_sam_power, s_sam14, syms, s_buf, s_trigger, s_done, s_carrier_hz,
                     tx, air, unit, clean, sent>>
  BY DEF SendTimeout, emitter
<1>2. /\ s_done \in BOOLEAN /\ s_sam_power \in BOOLEAN /\ s_sam14 \in TempMin .. TempMax
  BY DEF IrIInv, IrTypeOK
<1> QED BY <1>1, <1>2, LeaveKeeps

-----------------------------------------------------------------------------
(***************************************************************************)
(* The transmit thread.                                                    *)
(***************************************************************************)

\* The trigger is taken: only a waiting caller has given it, unless it is stale.
LEMMA TakeKeeps == ASSUME IrIInv, TxTake PROVE IrIInv'
<1> USE ThreadFacts
<1>1. /\ tx = "take" /\ s_trigger /\ tx' = "emit" /\ air' = s_buf
      /\ UNCHANGED <<inited, s_mtx, s_sam_power, s_sam14, syms, s_busy_mtx, s_buf, s_done,
                     s_carrier_hz, pc, asked, unit, res, clean, sent, known>>
  BY DEF TxTake, aircon, ghosts
<1>2. ~s_trigger' /\ s_trigger' \in BOOLEAN
  BY DEF TxTake
<1>3. IrTypeOK'
  BY <1>1, <1>2 DEF IrIInv, IrTypeOK
<1>4. Busy' /\ Owner' /\ Encoded' /\ Unborn' /\ FrameSent'
  BY <1>1 DEF IrIInv, Busy, Owner, Encoded, Unborn, FrameSent
<1>5. Phase'
  <2> SUFFICES ASSUME NEW u \in Threads, pc[u] = "wait", clean[u] PROVE ToEmit(u)'
    BY <1>1 DEF Phase
  <2>1. ToEmit(u)
    BY <1>1 DEF IrIInv, Phase, Emitted
  <2> QED BY <1>1, <1>2, <2>1 DEF ToEmit
<1>6. Rest'
  BY <1>1 DEF IrIInv, Rest
<1> QED BY <1>3, <1>4, <1>5, <1>6 DEF IrIInv

\* The frame is out.
LEMMA FinishKeeps == ASSUME IrIInv, TxFinish PROVE IrIInv'
<1> USE ThreadFacts
<1>1. /\ tx = "emit" /\ tx' = "take" /\ air' = NoFrame
      /\ sent' = [t \in Threads |-> sent[t] \/ (pc[t] = "wait" /\ air = asked[t] /\ s_buf = air)]
      /\ UNCHANGED <<inited, s_mtx, s_sam_power, s_sam14, syms, s_busy_mtx, s_buf, s_trigger,
                     s_carrier_hz, pc, asked, res, clean, known>>
  BY DEF TxFinish, aircon
<1>2. s_done' /\ s_done' \in BOOLEAN
  BY DEF TxFinish
<1>3. unit' = CASE s_buf # air \/ air = SamsungRaw -> unit
                [] air.kind \in {"POWER_ON", "STATE"} -> TRUE
                [] air.kind = "POWER_OFF" -> FALSE
                [] OTHER -> unit
  BY DEF TxFinish
<1>4. unit' \in BOOLEAN /\ sent' \in [Threads -> BOOLEAN]
  <2>1. unit \in BOOLEAN
    BY DEF IrIInv, IrTypeOK
  <2>2. unit' = unit \/ unit' = TRUE \/ unit' = FALSE
    <3>1. CASE s_buf # air \/ air = SamsungRaw
      BY <1>3, <3>1
    <3>2. CASE s_buf = air /\ air # SamsungRaw /\ air.kind \in {"POWER_ON", "STATE"}
      BY <1>3, <3>2
    <3>3. CASE s_buf = air /\ air # SamsungRaw /\ air.kind \notin {"POWER_ON", "STATE"}
      BY <1>3, <3>3
    <3> QED BY <3>1, <3>2, <3>3
  <2>3. sent' \in [Threads -> BOOLEAN]
    BY Zenon, <1>1
  <2> QED BY <2>1, <2>2, <2>3
<1>5. \A t \in Threads : /\ sent[t] => sent'[t]
                         /\ pc[t] = "wait" /\ air = asked[t] /\ s_buf = air => sent'[t]
  BY <1>1
<1>6. IrTypeOK'
  BY <1>1, <1>2, <1>4, FrameFacts DEF IrIInv, IrTypeOK
<1>7. Busy' /\ Owner' /\ Encoded' /\ Unborn' /\ FrameSent'
  BY <1>1, <1>5 DEF IrIInv, Busy, Owner, Encoded, Unborn, FrameSent
<1>8. Rest'
  BY <1>1 DEF IrIInv, Rest
<1>9. Phase'
  <2> SUFFICES ASSUME NEW u \in Threads, pc[u] = "wait", clean[u] PROVE Emitted(u)'
    BY <1>1 DEF Phase
  <2>1. /\ s_buf = asked[u] /\ air = asked[u] /\ ~s_trigger
        /\ known => s_sam_power = unit
    BY <1>1 DEF IrIInv, Phase, ToEmit, Emitted
  <2>2. sent'[u]
    <3>1. air = asked[u] /\ s_buf = air
      BY <2>1
    <3>2. pc[u] = "wait"
      OBVIOUS
    <3> QED BY <1>5, <3>1, <3>2
  <2>3. PowerAfter(u)' = PowerAfter(u)
    BY <1>1 DEF PowerAfter
  <2>4. ASSUME known \/ asked[u].kind \in {"POWER_ON", "POWER_OFF"} PROVE unit' = PowerAfter(u)
    <3>1. CASE asked[u].kind = "POWER_ON"
      BY <1>3, <2>1, <3>1, FrameFacts DEF PowerAfter, Plain
    <3>2. CASE asked[u].kind = "POWER_OFF"
      BY <1>3, <2>1, <3>2, FrameFacts DEF PowerAfter, Plain
    <3>3. CASE asked[u].kind = "STATE"
      <4>1. asked[u] \notin Plain /\ s_sam_power = TRUE
        <5>1. asked[u] \notin Plain
          BY <3>3, FrameFacts
        <5>2. s_sam_power /\ s_sam_power \in BOOLEAN
          BY <3>3, <5>1 DEF IrIInv, IrTypeOK, Owner
        <5> QED BY <5>1, <5>2
      <4>2. unit' = TRUE
        BY <1>3, <2>1, <3>3, <4>1 DEF Plain
      <4> QED BY <3>3, <4>1, <4>2 DEF PowerAfter
    <3>4. CASE asked[u].kind \notin {"POWER_ON", "POWER_OFF", "STATE"}
      <4>1. unit' = unit
        BY <1>3, <2>1, <3>4
      <4>2. PowerAfter(u) = s_sam_power
        BY <3>4 DEF PowerAfter
      <4> QED BY <2>1, <2>4, <3>4, <4>1, <4>2
    <3> QED BY <3>1, <3>2, <3>3, <3>4
  <2> QED BY <1>1, <1>2, <2>1, <2>2, <2>3, <2>4 DEF Emitted
<1> QED BY <1>6, <1>7, <1>8, <1>9 DEF IrIInv

-----------------------------------------------------------------------------
\* Every reachable state satisfies the inductive invariant.
THEOREM IrIInvInvariant == IrSpec => []IrIInv
<1>1. IrIInv /\ [IrNext]_ir_vars => IrIInv'
  <2> SUFFICES ASSUME IrIInv, [IrNext]_ir_vars PROVE IrIInv'
    OBVIOUS
  <2>1. CASE UNCHANGED ir_vars
    <3>1. UNCHANGED <<inited, s_mtx, s_sam_power, s_sam14, syms, s_busy_mtx, s_buf, s_trigger,
                      s_done, s_carrier_hz, pc, asked, tx, air, unit, res, clean, sent, known>>
      BY <2>1 DEF ir_vars, aircon, ir_tx, emitter, ghosts
    <3> QED BY <3>1 DEF IrIInv, IrTypeOK, Busy, Owner, Encoded, Phase, ToEmit, Emitted,
                       PowerAfter, Rest, Unborn, FrameSent
  <2>2. ASSUME NEW t \in Threads, Steps(t) PROVE IrIInv'
    BY <2>2, LockKeeps, EncodeKeeps, GrabKeeps, SendOkKeeps, TimeoutKeeps DEF Steps
  <2> QED BY <2>1, <2>2, CommandsKeep, TakeKeeps, FinishKeeps DEF IrNext
<1> QED BY <1>1, InitIrIInv, PTL DEF IrSpec

\* The types, among them: the carrier that carrier_on divides by is in range
\* whatever a client asks for, and so is the cached temperature.
THEOREM IrTypes == IrSpec => []IrTypeOK
<1>1. IrIInv => IrTypeOK
  BY DEF IrIInv
<1> QED BY <1>1, IrIInvInvariant, PTL

\* A call that reports success had its frame emitted whole, unless its buffers
\* were used by the other thread.
THEOREM FramesAreSent == IrSpec => []FrameSent
<1>1. IrIInv => FrameSent
  BY DEF IrIInv
<1> QED BY <1>1, IrIInvInvariant, PTL

\* The cached power is the one the air conditioner was last told.
THEOREM PowerIsFollowed == IrSpec => []PowerFollows
<1>1. IrIInv => PowerFollows
  <2> SUFFICES ASSUME IrIInv, known, \A t \in Threads : pc[t] = "idle" PROVE s_sam_power = unit
    BY DEF PowerFollows
  <2>1. s_busy_mtx = NoOne
    BY ThreadFacts DEF IrIInv, IrTypeOK, Busy
  <2> QED BY <2>1 DEF IrIInv, Rest
<1> QED BY <1>1, IrIInvInvariant, PTL

-----------------------------------------------------------------------------
(***************************************************************************)
(* What has to hold in every state for SendReturns, which needs fairness   *)
(* besides: the two mutexes and the two semaphores cannot block everyone.  *)
(***************************************************************************)

\* Who waits for s_done has it, or the transmit thread is going to give it.
Answered == \A t \in Threads : pc[t] = "wait" => s_done \/ s_trigger \/ tx = "emit"

\* s_mtx is held only inside a call that got past it.
HeldInside == \A t \in Threads : s_mtx = t => pc[t] \in {"encode", "grab", "wait"}

\* While a call is under way something can run: the Bluetooth host, else the
\* transmit thread, else the main loop.
SomeoneRuns ==
    (\E t \in Threads : pc[t] # "idle") =>
        \/ Ready("Ble")
        \/ ~Ready("Ble") /\ (tx = "emit" \/ s_trigger)
        \/ Ready("Main") /\ Runs("Main")

\* A waiting caller is the only one, and it is answered; a call that leaves or is
\* refused does not keep s_mtx.
LEMMA WaitKept ==
    ASSUME IrIInv, Answered, HeldInside, [IrNext]_ir_vars
    PROVE  Answered' /\ HeldInside'
<1> USE ThreadFacts
<1>1. pc \in [Threads -> {"idle", "lock", "encode", "grab", "wait"}] /\ Busy
  BY DEF IrIInv, IrTypeOK
<1>2. ASSUME NEW t \in Threads, NEW f, NEW at \in {"lock", "encode", "grab"}, Call(t, f, at)
      PROVE  Answered' /\ HeldInside'
  <2>1. /\ pc[t] = "idle" /\ pc' = [pc EXCEPT ![t] = at]
        /\ UNCHANGED <<s_mtx, s_trigger, s_done, tx>>
    BY <1>2 DEF Call, aircon, emitter
  <2> QED BY <1>1, <2>1 DEF Answered, HeldInside
<1>3. CASE AirconInit \/ SetCarrier \/ UNCHANGED ir_vars
  <2>1. UNCHANGED <<s_mtx, s_trigger, s_done, tx, pc>>
    BY <1>3 DEF AirconInit, SetCarrier, ir_vars, aircon, ir_tx, emitter
  <2> QED BY <2>1 DEF Answered, HeldInside
<1>4. CASE AirconSetTemp \/ SendRaw \/ SendSymbols \/ \E t \in Threads : AirconSend(t)
  BY <1>2, <1>4 DEF AirconSetTemp, SendRaw, SendSymbols, AirconSend
<1>5. ASSUME NEW t \in Threads, Lock(t) PROVE Answered' /\ HeldInside'
  <2>1. /\ pc[t] = "lock" /\ UNCHANGED <<s_trigger, s_done, tx>>
        /\ \/ pc' = [pc EXCEPT ![t] = "idle"] /\ UNCHANGED s_mtx
           \/ pc' = [pc EXCEPT ![t] = "encode"] /\ s_mtx' = t
    BY <1>5 DEF Lock, ir_tx, emitter
  <2> QED BY <1>1, <2>1 DEF Answered, HeldInside
<1>6. ASSUME NEW t \in Threads, Encode(t) PROVE Answered' /\ HeldInside'
  <2>1. pc' = [pc EXCEPT ![t] = "grab"] /\ UNCHANGED <<s_mtx, s_trigger, s_done, tx>>
    BY <1>6 DEF Encode, ir_tx, emitter
  <2> QED BY <1>1, <2>1 DEF Answered, HeldInside
<1>7. ASSUME NEW t \in Threads, Grab(t) PROVE Answered' /\ HeldInside'
  <2>1. pc' = [pc EXCEPT ![t] = "wait"] /\ s_trigger' /\ UNCHANGED s_mtx
    BY <1>7 DEF Grab, aircon
  <2> QED BY <1>1, <2>1 DEF Answered, HeldInside
<1>8. ASSUME NEW t \in Threads, SendOk(t) \/ SendTimeout(t) PROVE Answered' /\ HeldInside'
  <2>1. /\ pc[t] = "wait" /\ pc' = [pc EXCEPT ![t] = "idle"]
        /\ s_mtx' = IF s_mtx = t THEN NoOne ELSE s_mtx
    BY <1>8 DEF SendOk, SendTimeout, Leave
  <2>2. \A u \in Threads : pc'[u] # "wait"
    BY <1>1, <2>1 DEF Busy
  <2> QED BY <1>1, <2>1, <2>2 DEF Answered, HeldInside
<1>9. CASE TxTake \/ TxFinish
  <2>1. UNCHANGED <<s_mtx, pc>> /\ (tx' = "emit" \/ s_done')
    BY <1>9 DEF TxTake, TxFinish, aircon
  <2> QED BY <2>1 DEF Answered, HeldInside
<1> QED BY <1>3, <1>4, <1>5, <1>6, <1>7, <1>8, <1>9 DEF IrNext, Steps

\* No order in which the main loop and a client's write take s_mtx and
\* s_busy_mtx, trigger the transmit thread, wait for s_done and time out leaves
\* a call under way with nobody able to run.
THEOREM SendersNeverDeadlock == IrSpec => []SomeoneRuns
<1>1. IrInit => Answered /\ HeldInside
  BY ThreadFacts DEF IrInit, Answered, HeldInside
<1>2. IrSpec => [](Answered /\ HeldInside)
  BY <1>1, WaitKept, IrIInvInvariant, PTL DEF IrSpec
<1>3. IrIInv /\ Answered /\ HeldInside => SomeoneRuns
  <2> SUFFICES ASSUME IrIInv, Answered, HeldInside, NEW t \in Threads, pc[t] # "idle",
                      ~Ready("Ble"), tx # "emit", ~s_trigger
               PROVE  Ready("Main") /\ Runs("Main")
    BY DEF SomeoneRuns
  <2>1. /\ pc \in [Threads -> {"idle", "lock", "encode", "grab", "wait"}] /\ Busy
        /\ s_mtx \in Threads \cup {NoOne} /\ s_busy_mtx \in Threads \cup {NoOne} /\ tx = "take"
    BY DEF IrIInv, IrTypeOK
  <2>2. pc["Ble"] # "wait" /\ pc["Ble"] # "encode" /\ (pc["Main"] = "wait" => s_done)
    BY ThreadFacts DEF Answered, Ready
  <2>3. s_busy_mtx # "Ble" /\ (s_busy_mtx = "Main" => Ready("Main"))
    BY <2>1, <2>2, ThreadFacts DEF Busy, Ready
  <2>4. pc["Ble"] = "grab" => Ready("Main")
    BY <2>1, <2>3, ThreadFacts DEF Ready
  <2>5. pc["Main"] \in {"encode", "grab", "wait"} => Ready("Main")
    BY <2>1, <2>2, <2>3, ThreadFacts DEF Ready
  <2>6. pc["Ble"] = "lock" => Ready("Main")
    BY <2>1, <2>5, ThreadFacts DEF Ready, HeldInside
  <2>7. pc["Ble"] = "idle" => Ready("Main")
    <3>1. pc["Ble"] = "idle" => pc["Main"] # "idle" /\ s_mtx # "Ble"
      BY ThreadFacts DEF HeldInside
    <3> QED BY <2>1, <2>5, <3>1, ThreadFacts DEF Ready
  <2>8. Ready("Main")
    BY <2>1, <2>2, <2>4, <2>6, <2>7, ThreadFacts
  <2> QED BY <2>1, <2>8 DEF Runs
<1> QED BY <1>2, <1>3, IrIInvInvariant, PTL

=============================================================================
