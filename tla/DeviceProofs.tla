---------------------------- MODULE DeviceProofs ----------------------------
(***************************************************************************)
(* Proofs about the devices around the core, each from its own             *)
(* specification: the infrared capture and assembly, the Matter hub, the   *)
(* LED strip, the sensor tasks, the rotary encoder, the radar, and the     *)
(* infrared codec.  They share no state.                                   *)
(***************************************************************************)
EXTENDS IrReceive, IrDecode, MatterHub, LedTask, SensorTasks, Rotary, Radar,
        SequenceTheorems, WellFoundedInduction, TLAPS

-----------------------------------------------------------------------------
(***************************************************************************)
(* The radar: which buffers the driver holds follows from its state, and   *)
(* s_buf_idx is always the last one lent.                                  *)
(***************************************************************************)
RadIInv ==
    /\ r_running \in BOOLEAN /\ rx_lost \in BOOLEAN /\ lent_twice \in BOOLEAN
    /\ start_pc \in BOOLEAN /\ stop_pc \in BOOLEAN
    /\ s_buf_idx \in Bufs
    /\ rx \in {"off", "request", "on"}
    /\ ~lent_twice
    /\ rx = "off" => filling = NoBuf /\ queued = NoBuf
    /\ rx = "request" => filling = s_buf_idx /\ queued = NoBuf
    /\ rx = "on" => queued = s_buf_idx /\ filling = 1 - s_buf_idx
    /\ start_pc \/ stop_pc => ~r_running
    /\ ~(start_pc /\ stop_pc)
    /\ r_running /\ ~rx_lost => rx # "off"

\* The next buffer is the other one of the two.
LEMMA NextIsOther == s_buf_idx \in Bufs => Next_idx = 1 - s_buf_idx /\ Next_idx \in Bufs
BY DEF Bufs, RX_BUF_COUNT, Next_idx

\* Every event of uart_async_cb and every call keeps the invariant.
LEMMA RadStep == RadIInv /\ [RadNext]_rad_vars => RadIInv'
<1> SUFFICES ASSUME RadIInv, [RadNext]_rad_vars PROVE RadIInv'
  OBVIOUS
<1> USE NextIsOther DEF RadIInv, Bufs, NoBuf, RX_BUF_COUNT
<1>1. CASE app_radar_start
  <2>1. CASE UNCHANGED <<rx, filling, queued, lent_twice, start_pc>>
    BY <1>1, <2>1 DEF app_radar_start
  <2>2. CASE Enables(0) /\ start_pc' = TRUE
    <3>1. ~lent_twice' /\ lent_twice' \in BOOLEAN
      BY <1>1, <2>2 DEF app_radar_start, Enables
    <3>2. start_pc' /\ start_pc' \in BOOLEAN
      BY <2>2
    <3>3. filling' = 0 /\ queued' = NoBuf /\ rx' = "request" /\ s_buf_idx' = 0
      BY <1>1, <2>2 DEF app_radar_start, Enables
    <3> QED BY <1>1, <3>1, <3>2, <3>3 DEF app_radar_start
  <2> QED BY <1>1, <2>1, <2>2 DEF app_radar_start
<1>2. CASE Started         BY <1>2 DEF Started
<1>3. CASE app_radar_stop  BY <1>3 DEF app_radar_stop
<1>4. CASE RxRdy           BY <1>4 DEF RxRdy
<1>5. CASE BufRequest      BY <1>5 DEF BufRequest
<1>6. CASE BufFull         BY <1>6 DEF BufFull
<1>7. CASE Disabled        BY <1>7 DEF Disabled
<1>8. CASE StopDisables    BY <1>8 DEF StopDisables
<1>9. CASE UNCHANGED rad_vars BY <1>9 DEF rad_vars
<1> QED BY <1>1, <1>2, <1>3, <1>4, <1>5, <1>6, <1>7, <1>8, <1>9 DEF RadNext

\* The UART driver is never lent a buffer that it still holds, and a running
\* radar receives unless a restart was refused.
THEOREM RadarBuffers == RadSpec => []BuffersLentOnce
<1>1. RadInit => RadIInv
  <2> SUFFICES ASSUME RadInit PROVE RadIInv
    OBVIOUS
  <2>1. /\ r_running \in BOOLEAN /\ rx_lost \in BOOLEAN /\ lent_twice \in BOOLEAN
        /\ start_pc \in BOOLEAN /\ stop_pc \in BOOLEAN
        /\ ~r_running /\ ~lent_twice /\ ~start_pc /\ ~stop_pc
    BY DEF RadInit
  <2>2. s_buf_idx \in Bufs /\ rx = "off" /\ filling = NoBuf /\ queued = NoBuf
    BY DEF RadInit, Bufs, RX_BUF_COUNT
  <2> QED BY <2>1, <2>2 DEF RadIInv
<1>2. RadIInv => BuffersLentOnce
  BY DEF RadIInv, BuffersLentOnce, Bufs, NoBuf, RX_BUF_COUNT
<1> QED BY <1>1, <1>2, RadStep, PTL DEF RadSpec

-----------------------------------------------------------------------------
(***************************************************************************)
(* The rotary encoder.                                                     *)
(***************************************************************************)

\* s_quad, applied to the pins at two positions, is their distance when the
\* shaft moved by at most a step, and never off by an odd number.
LEMMA QuadDecodes ==
    ASSUME NEW p \in Int, NEW q \in Int
    PROVE  /\ s_quad(Pins(p), Pins(q)) \in {-1, 0, 1}
           /\ q - p \in -1 .. 1 => s_quad(Pins(p), Pins(q)) = q - p
           /\ (s_quad(Pins(p), Pins(q)) - (q - p)) % 2 = 0
<1>1. p % 4 \in {0, 1, 2, 3} /\ q % 4 \in {0, 1, 2, 3}
  OBVIOUS
<1>2. CASE p % 4 = 0  BY <1>1, <1>2 DEF s_quad, Pins
<1>3. CASE p % 4 = 1  BY <1>1, <1>3 DEF s_quad, Pins
<1>4. CASE p % 4 = 2  BY <1>1, <1>4 DEF s_quad, Pins
<1>5. CASE p % 4 = 3  BY <1>1, <1>5 DEF s_quad, Pins
<1> QED BY <1>1, <1>2, <1>3, <1>4, <1>5

\* The state read by the interrupt is that of the position last seen, the count
\* is kept relative to it, and a press not yet polled is not yet counted.
EncInv ==
    /\ shaft \in Int /\ s_count \in Int /\ seen \in Int /\ base \in Int
    /\ edge \in BOOLEAN /\ gap \in BOOLEAN /\ slipped \in BOOLEAN
    /\ cbs \subseteq {"A", "B"}
    /\ enc_init \in {"none", "read", "armed", "half", "both", "ready", "failed"}
    /\ enc_state = Pins(seen)
    /\ ~slipped => s_count = seen - base
    /\ (s_count - (seen - base)) % 2 = 0
    /\ enc_init = "none" => cbs = {} /\ ~edge /\ s_count = 0 /\ seen = base
    /\ (enc_init \in {"read", "armed", "half"} \/ cbs = {"A", "B"}) /\ ~edge /\ ~gap => seen = shaft

SwInv ==
    /\ sw_poll \in BOOLEAN /\ (sw_poll => enc_init = "ready")
    /\ ~sw_poll => s_sw_count = 0 /\ s_sw_prev = FALSE
    /\ presses \in Nat /\ s_sw_count \in Nat /\ s_last_sw \in Nat
    /\ button \in BOOLEAN /\ s_sw_prev \in BOOLEAN
    /\ s_sw_count <= presses /\ s_last_sw <= s_sw_count
    /\ button /\ ~s_sw_prev => s_sw_count < presses
    /\ sw_action # "none" => sw_action = ActionOf(s_last_sw)

RotIInv == EncInv /\ SwInv

\* Even numbers add up to an even number.
LEMMA EvenSum ==
    ASSUME NEW a \in Int, NEW b \in Int, a % 2 = 0, b % 2 = 0 PROVE (a + b) % 2 = 0
OBVIOUS

\* A count that was just zeroed is not off.
LEMMA ZeroEven == \A p \in Int : (0 - (p - p)) % 2 = 0 /\ 0 = p - p
OBVIOUS

\* The interrupt keeps the count right.
LEMMA IsrKeeps == ASSUME EncInv, rotary_isr PROVE EncInv'
<1> DEFINE d == s_quad(enc_state, Pins(shaft))
<1>1. /\ d \in {-1, 0, 1}
      /\ shaft - seen \in -1 .. 1 => d = shaft - seen
      /\ (d - (shaft - seen)) % 2 = 0
  BY QuadDecodes DEF EncInv
<1>2. s_count' = s_count + d /\ seen' = shaft /\ enc_state' = Pins(shaft)
  BY DEF rotary_isr
<1> HIDE DEF d
<1>3. ~slipped' => s_count' = seen' - base'
  <2>1. slipped' = (slipped \/ shaft - seen \notin -1 .. 1) /\ base' = base
    BY Zenon DEF rotary_isr
  <2>2. ~slipped' => ~slipped /\ shaft - seen \in -1 .. 1
    BY Zenon, <2>1
  <2>3. ~slipped => s_count = seen - base
    BY DEF EncInv
  <2>4. s_count \in Int /\ seen \in Int /\ base \in Int /\ shaft \in Int
    BY DEF EncInv
  <2> QED BY <1>1, <1>2, <2>1, <2>2, <2>3, <2>4
<1>4. (s_count' - (seen' - base')) % 2 = 0
  <2>1. ((s_count - (seen - base)) + (d - (shaft - seen))) % 2 = 0
    BY <1>1, EvenSum DEF EncInv
  <2>2. (s_count - (seen - base)) + (d - (shaft - seen)) = (s_count + d) - (shaft - base)
    BY <1>1 DEF EncInv
  <2> QED BY <1>2, <2>1, <2>2 DEF rotary_isr
<1>5. s_count' \in Int /\ seen' \in Int /\ base' \in Int /\ shaft' \in Int
  BY <1>1, <1>2 DEF EncInv, rotary_isr
<1>6. edge' \in BOOLEAN /\ gap' \in BOOLEAN /\ slipped' \in BOOLEAN
  <2>1. edge' = FALSE /\ gap' = gap /\ slipped' = (slipped \/ shaft - seen \notin -1 .. 1)
    BY Zenon DEF rotary_isr
  <2>2. gap \in BOOLEAN /\ slipped \in BOOLEAN
    BY DEF EncInv
  <2> QED BY Zenon, <2>1, <2>2
<1>7. enc_init' = enc_init /\ cbs' = cbs /\ seen' = shaft' /\ enc_state' = Pins(seen')
  BY <1>2 DEF rotary_isr
<1>8. enc_init # "none"
  BY DEF rotary_isr, EncInv
<1> QED BY <1>3, <1>4, <1>5, <1>6, <1>7, <1>8 DEF EncInv

\* Every step of the encoder, the button and the main loop.
LEMMA RotStep == RotIInv /\ [RotNext]_rot_vars => RotIInv'
<1> SUFFICES ASSUME RotIInv, [RotNext]_rot_vars PROVE RotIInv'
  OBVIOUS
<1> USE DEF RotIInv, enc_vars, sw_vars
<1>1. CASE InitRead
  BY <1>1, ZeroEven DEF InitRead, EncInv, SwInv
<1>2. CASE InitArm \/ InitFails \/ AddCallback
  <2>1. UNCHANGED <<shaft, edge, enc_state, seen, base, gap, slipped, sw_vars>>
    BY <1>2 DEF InitArm, InitFails, AddCallback
  <2>2. ~sw_poll /\ s_count' = s_count
    BY <1>2 DEF InitArm, InitFails, AddCallback, SwInv, EncInv
  <2>3. \/ cbs' = cbs /\ enc_init = "read" /\ enc_init' = "armed"
        \/ cbs' = cbs /\ enc_init' = "failed"
        \/ cbs' = {"A"} /\ enc_init = "armed" /\ enc_init' = "half"
        \/ cbs' = {"A", "B"} /\ enc_init = "half" /\ enc_init' = "both"
    BY <1>2 DEF InitArm, InitFails, AddCallback
  <2>4. EncInv'
    BY <2>1, <2>2, <2>3 DEF EncInv
  <2> QED BY <2>1, <2>2, <2>4 DEF SwInv
<1>10. CASE InitButton
  <2>1. ~sw_poll /\ SwInv /\ EncInv
    BY <1>10 DEF InitButton, SwInv
  <2>2. EncInv'
    BY <1>10, <2>1 DEF InitButton, EncInv
  <2>3. SwInv'
    BY <1>10, <2>1 DEF InitButton, SwInv
  <2> QED BY <2>2, <2>3
<1>3. ASSUME NEW d \in {-1, 1}, Turn(d) PROVE RotIInv'
  <2>1. SwInv'
    BY <1>3 DEF Turn, SwInv
  <2>2. shaft' \in Int /\ edge' \in BOOLEAN /\ gap' \in BOOLEAN
    BY <1>3 DEF Turn, EncInv
  <2>3. UNCHANGED <<enc_init, cbs, enc_state, s_count, seen, base, slipped>>
    BY <1>3 DEF Turn
  <2>4. (enc_init # "none" => edge' \/ gap') /\ (enc_init = "none" => ~edge')
    BY <1>3 DEF Turn, EncInv
  <2> QED BY <2>1, <2>2, <2>3, <2>4 DEF EncInv
<1>4. CASE rotary_isr
  BY <1>4, IsrKeeps DEF rotary_isr, SwInv
<1>5. CASE rotary_enc_reset_count
  <2>1. ~slipped' /\ slipped' \in BOOLEAN
    BY <1>5 DEF rotary_enc_reset_count
  <2>2. s_count' = 0 /\ base' = seen /\ enc_init # "none"
        /\ UNCHANGED <<shaft, enc_init, cbs, edge, enc_state, seen, gap>>
    BY <1>5 DEF rotary_enc_reset_count
  <2>3. EncInv'
    BY <2>1, <2>2, ZeroEven DEF EncInv
  <2> QED BY <1>5, <2>3 DEF rotary_enc_reset_count, SwInv
<1>6. CASE Press
  BY <1>6 DEF Press, EncInv, SwInv
<1>7. CASE rotary_sw_poll_fn
  BY <1>7 DEF rotary_sw_poll_fn, EncInv, SwInv
<1>8. CASE MainPolls
  BY <1>8 DEF MainPolls, EncInv, SwInv
<1>9. CASE UNCHANGED rot_vars
  BY <1>9 DEF rot_vars, EncInv, SwInv
<1> QED BY <1>1, <1>2, <1>3, <1>4, <1>5, <1>6, <1>7, <1>8, <1>9, <1>10 DEF RotNext

\* The count follows the shaft over any number of turns in both directions, and
\* no press is counted twice or acted upon before it is counted.
THEOREM RotaryCounts == RotSpec => []CountTracksShaft
<1>1. RotInit => RotIInv
  <2> SUFFICES ASSUME RotInit PROVE RotIInv
    OBVIOUS
  <2>1. /\ edge \in BOOLEAN /\ gap \in BOOLEAN /\ slipped \in BOOLEAN
        /\ button \in BOOLEAN /\ ~button /\ s_sw_prev \in BOOLEAN /\ sw_poll \in BOOLEAN
        /\ ~sw_poll /\ s_sw_prev = FALSE /\ ~edge
    BY DEF RotInit
  <2>2. /\ shaft = 0 /\ s_count = 0 /\ seen = 0 /\ base = 0 /\ enc_init = "none" /\ cbs = {}
        /\ enc_state = 0 /\ presses = 0 /\ s_sw_count = 0 /\ s_last_sw = 0 /\ sw_action = "none"
    BY DEF RotInit
  <2> QED BY <2>1, <2>2, ZeroEven DEF RotIInv, EncInv, SwInv, Pins
<1>2. RotIInv => CountTracksShaft
  BY DEF RotIInv, EncInv, SwInv, CountTracksShaft
<1> QED BY <1>1, <1>2, RotStep, PTL DEF RotSpec

-----------------------------------------------------------------------------
(***************************************************************************)
(* The infrared capture: what lies in the buffer being filled was measured *)
(* in the present epoch, up to s_wr_len; the callback has the other one.   *)
(***************************************************************************)
FilledOf(b, n, ep) ==
    \A k \in 1 .. n : rx_buf[b][k].mark = ep /\ rx_buf[b][k].space \in {0, ep}

RxIInv == RxTypeOK /\ FilledOf(s_wr_idx, s_wr_len, epoch) /\ FrameFresh

\* The epoch after an epoch is one.
LEMMA NextEpochTyped == epoch \in EpochSet => NextEpoch \in EpochSet
BY RxAssumption DEF EpochSet, NextEpoch

\* A measurement written into the buffer being filled leaves the other buffer.
LEMMA WriteTyped ==
    ASSUME RxTypeOK, NEW k \in 1 .. RxMaxSymbols,
           NEW v \in [mark : EpochSet \cup {0}, space : EpochSet \cup {0}],
           rx_buf' = [rx_buf EXCEPT ![s_wr_idx][k] = v]
    PROVE  /\ rx_buf' \in [{0, 1} -> [1 .. RxMaxSymbols ->
                              [mark : EpochSet \cup {0}, space : EpochSet \cup {0}]]]
           /\ rx_buf'[s_wr_idx][k] = v
           /\ \A n \in 1 .. RxMaxSymbols : n # k => rx_buf'[s_wr_idx][n] = rx_buf[s_wr_idx][n]
           /\ \A b \in {0, 1} : b # s_wr_idx => rx_buf'[b] = rx_buf[b]
BY DEF RxTypeOK

\* gpio_edge_cb, on either edge.
LEMMA EdgeKeeps == ASSUME RxIInv, FallingEdge \/ RisingEdge PROVE RxIInv'
<1> USE DEF RxIInv
<1>1. gap_timer' \in BOOLEAN /\ s_phase' \in {"IDLE", "MARK", "SPACE"}
  BY DEF FallingEdge, RisingEdge, Edge, RxTypeOK
<1>2. UNCHANGED <<s_wr_idx, s_rx_active, epoch, gap_queued, reading>>
  BY DEF FallingEdge, RisingEdge
<1>3. CASE UNCHANGED <<rx_buf, s_wr_len>>
  BY <1>1, <1>2, <1>3 DEF RxTypeOK, FilledOf, FrameFresh
<1>4. ASSUME NEW k \in 1 .. RxMaxSymbols, NEW sp1 \in {0, epoch},
             rx_buf' = [rx_buf EXCEPT ![s_wr_idx][k] = [mark |-> epoch, space |-> sp1]],
             s_wr_len' \in 0 .. RxMaxSymbols, s_wr_len' \in {s_wr_len, k},
             s_wr_len' - 1 <= s_wr_len, k <= s_wr_len'
      PROVE  RxIInv'
  <2> DEFINE v == [mark |-> epoch, space |-> sp1]
  <2>1. v \in [mark : EpochSet \cup {0}, space : EpochSet \cup {0}]
    BY DEF RxTypeOK
  <2>2. v.mark = epoch /\ v.space \in {0, epoch}
    OBVIOUS
  <2>3. /\ rx_buf' \in [{0, 1} -> [1 .. RxMaxSymbols ->
                              [mark : EpochSet \cup {0}, space : EpochSet \cup {0}]]]
        /\ rx_buf'[s_wr_idx][k] = v
        /\ \A n \in 1 .. RxMaxSymbols : n # k => rx_buf'[s_wr_idx][n] = rx_buf[s_wr_idx][n]
        /\ \A b \in {0, 1} : b # s_wr_idx => rx_buf'[b] = rx_buf[b]
    BY <1>4, <2>1, WriteTyped
  <2> HIDE DEF v
  <2>4. RxTypeOK'
    BY <1>1, <1>2, <1>4, <2>3 DEF RxTypeOK
  <2>5. FilledOf(s_wr_idx, s_wr_len, epoch)'
    <3> SUFFICES ASSUME NEW n \in 1 .. s_wr_len'
                 PROVE  rx_buf'[s_wr_idx][n].mark = epoch /\ rx_buf'[s_wr_idx][n].space \in {0, epoch}
      BY <1>2 DEF FilledOf
    <3>1. n \in 1 .. RxMaxSymbols /\ (n # k => n \in 1 .. s_wr_len)
      <4>1. s_wr_len \in Int /\ s_wr_len' \in Int /\ RxMaxSymbols \in Int
        BY <1>4, RxAssumption DEF RxTypeOK
      <4> QED BY <1>4, <4>1
    <3> QED BY <2>2, <2>3, <3>1 DEF FilledOf
  <2>6. FrameFresh'
    BY <1>2, <2>3 DEF FrameFresh, RxTypeOK
  <2> QED BY <2>4, <2>5, <2>6
<1>5. CASE FallingEdge
  <2>1. CASE s_phase = "SPACE" /\ s_wr_len > 0
    <3>1. s_wr_len \in 1 .. RxMaxSymbols /\ rx_buf[s_wr_idx][s_wr_len].mark = epoch
      BY <2>1, RxAssumption DEF RxTypeOK, FilledOf
    <3>2. rx_buf' = [rx_buf EXCEPT ![s_wr_idx][s_wr_len].space = epoch] /\ s_wr_len' = s_wr_len
      BY <1>5, <2>1 DEF FallingEdge
    <3>3. rx_buf[s_wr_idx][s_wr_len] \in [mark : EpochSet \cup {0}, space : EpochSet \cup {0}]
      BY <3>1 DEF RxTypeOK
    <3>4. [rx_buf[s_wr_idx][s_wr_len] EXCEPT !.space = epoch] = [mark |-> epoch, space |-> epoch]
      BY <3>1, <3>3
    <3>5. rx_buf' = [rx_buf EXCEPT ![s_wr_idx][s_wr_len] = [mark |-> epoch, space |-> epoch]]
      BY <3>1, <3>2, <3>4 DEF RxTypeOK
    <3>6. s_wr_len' \in 0 .. RxMaxSymbols /\ s_wr_len' - 1 <= s_wr_len /\ s_wr_len <= s_wr_len'
      BY <3>1, <3>2, RxAssumption
    <3> QED BY <1>4, <3>1, <3>2, <3>5, <3>6
  <2>2. CASE ~(s_phase = "SPACE" /\ s_wr_len > 0)
    BY <1>3, <1>5, <2>2 DEF FallingEdge
  <2> QED BY <2>1, <2>2
<1>6. CASE RisingEdge
  <2>1. CASE s_phase = "MARK" /\ s_wr_len < RxMaxSymbols
    <3>1. /\ rx_buf' = [rx_buf EXCEPT ![s_wr_idx][s_wr_len + 1] = [mark |-> epoch, space |-> 0]]
          /\ s_wr_len' = s_wr_len + 1
      BY <1>6, <2>1, RxAssumption DEF RisingEdge, RxTypeOK
    <3>2. s_wr_len + 1 \in 1 .. RxMaxSymbols /\ s_wr_len \in Nat
      BY <2>1, RxAssumption DEF RxTypeOK
    <3>3. /\ s_wr_len' \in 0 .. RxMaxSymbols /\ s_wr_len' - 1 <= s_wr_len
          /\ s_wr_len + 1 <= s_wr_len'
      BY <3>1, <3>2, RxAssumption
    <3> QED BY <1>4, <3>1, <3>2, <3>3
  <2>2. CASE ~(s_phase = "MARK" /\ s_wr_len < RxMaxSymbols)
    BY <1>3, <1>6, <2>2 DEF RisingEdge
  <2> QED BY <2>1, <2>2
<1> QED BY <1>5, <1>6

\* The work item takes the buffer only when no callback has one.
LEMMA GapWorkKeeps == ASSUME RxIInv, GapWork PROVE RxIInv'
<1> USE RxAssumption DEF RxIInv
<1>1. s_wr_idx' \in {0, 1} /\ s_wr_idx' # s_wr_idx /\ s_wr_len' = 0 /\ s_wr_idx \in {0, 1}
  BY DEF GapWork, RxTypeOK
<1>2. gap_queued' \in BOOLEAN /\ epoch' \in EpochSet /\ s_phase' = "IDLE"
  BY NextEpochTyped DEF GapWork, RxTypeOK
<1>3. UNCHANGED <<rx_buf, s_rx_active, gap_timer>>
  BY DEF GapWork
<1>4. \/ reading' = NoFrameRead
      \/ reading' = [buf |-> s_wr_idx, len |-> s_wr_len, ep |-> epoch]
  BY DEF GapWork
<1>5. reading' \in [buf : {0, 1}, len : 0 .. RxMaxSymbols, ep : EpochSet \cup {0}]
  BY <1>1, <1>4 DEF RxTypeOK, NoFrameRead
<1>6. RxTypeOK'
  BY <1>1, <1>2, <1>3, <1>5 DEF RxTypeOK
<1>7. FilledOf(s_wr_idx, s_wr_len, epoch)'
  BY <1>1 DEF FilledOf
<1>8. FrameFresh'
  BY <1>1, <1>3, <1>4 DEF FrameFresh, FilledOf
<1> QED BY <1>6, <1>7, <1>8

\* Every step of the receiver.
LEMMA RxStep == RxIInv /\ [RxNext]_rx_vars => RxIInv'
<1> SUFFICES ASSUME RxIInv, [RxNext]_rx_vars PROVE RxIInv'
  OBVIOUS
<1>1. CASE RxStart
  <2>1. FilledOf(s_wr_idx, s_wr_len, epoch)'
    BY <1>1 DEF RxStart, FilledOf
  <2>2. RxTypeOK'
    BY <1>1, NextEpochTyped, RxAssumption DEF RxStart, RxIInv, RxTypeOK
  <2> QED BY <1>1, <2>1, <2>2 DEF RxStart, RxIInv, FrameFresh
<1>2. CASE RxStop
  BY <1>2 DEF RxStop, RxIInv, RxTypeOK, FilledOf, FrameFresh
<1>3. CASE GapExpires
  BY <1>3 DEF GapExpires, RxIInv, RxTypeOK, FilledOf, FrameFresh
<1>4. CASE CallbackReturns
  BY <1>4, RxAssumption
     DEF CallbackReturns, capture, RxIInv, RxTypeOK, FilledOf, FrameFresh, NoFrameRead
<1>5. CASE UNCHANGED rx_vars
  BY <1>5 DEF rx_vars, capture, RxIInv, RxTypeOK, FilledOf, FrameFresh
<1> QED BY <1>1, <1>2, <1>3, <1>4, <1>5, EdgeKeeps, GapWorkKeeps DEF RxNext

\* A frame handed to the callback holds only what was captured for it, whatever
\* edges arrive while it is read.
THEOREM FramesAreFresh == RxSpec => []FrameFresh
<1>1. RxInit => RxIInv
  <2> SUFFICES ASSUME RxInit PROVE RxIInv
    OBVIOUS
  <2>1. RxTypeOK
    <3>1. s_rx_active \in BOOLEAN /\ gap_timer \in BOOLEAN /\ gap_queued \in BOOLEAN
      BY DEF RxInit
    <3>2. /\ s_wr_idx \in {0, 1} /\ s_wr_len \in 0 .. RxMaxSymbols /\ epoch \in EpochSet
          /\ s_phase \in {"IDLE", "MARK", "SPACE"}
      BY RxAssumption DEF RxInit, EpochSet
    <3>3. reading \in [buf : {0, 1}, len : 0 .. RxMaxSymbols, ep : EpochSet \cup {0}]
      BY RxAssumption DEF RxInit, NoFrameRead
    <3>4. rx_buf \in [{0, 1} -> [1 .. RxMaxSymbols ->
                        [mark : EpochSet \cup {0}, space : EpochSet \cup {0}]]]
      BY DEF RxInit
    <3> QED BY <3>1, <3>2, <3>3, <3>4 DEF RxTypeOK
  <2>2. FilledOf(s_wr_idx, s_wr_len, epoch)
    BY DEF RxInit, FilledOf
  <2> QED BY <2>1, <2>2 DEF RxInit, RxIInv, FrameFresh
<1>2. RxIInv => FrameFresh
  BY DEF RxIInv
<1> QED BY <1>1, <1>2, RxStep, PTL DEF RxSpec
-----------------------------------------------------------------------------
(***************************************************************************)
(* The assembly of an air-conditioner frame: a section that came with its  *)
(* section 0 is never beside another one.                                  *)
(***************************************************************************)
AsmInv ==
    /\ s_have \in [SecIds -> BOOLEAN] /\ SectionsAgree

\* ir_rx_frame_cb on any frame.
LEMMA FrameKeeps ==
    ASSUME AsmInv, NEW b \in Buttons, NEW good \in SUBSET SecIds, FrameCb(b, good)
    PROVE  AsmInv'
<1> DEFINE have == Collected(b, good)
           full == \A i \in SecIds : have[i]
           with == IF 0 \in good THEN {b[0]} ELSE {}
<1>1. /\ s_sec' = [i \in SecIds |-> IF i \in good THEN b[i] ELSE s_sec[i]]
      /\ anchor' = [i \in SecIds |-> IF i \in good THEN with ELSE anchor[i]]
      /\ s_have' = [i \in SecIds |-> have[i] /\ ~full]
      /\ reported' = IF full THEN {[sec |-> s_sec', anchor |-> anchor']} ELSE reported
  BY DEF FrameCb
<1>2. s_have' \in [SecIds -> BOOLEAN]
  BY Zenon, <1>1
<1>3. 0 \in SecIds
  BY DEF SecIds
<1>4. \A i \in SecIds : have[i] <=>
          \/ s_have[i] /\ ~(0 \in good /\ s_have[0] /\ b[0] # s_sec[0] /\ i # 0)
          \/ i \in good
  BY DEF Collected, AsmInv
<1> HIDE DEF have
\* What is collected after this frame, reported or not.
<1>5. ASSUME NEW i \in SecIds, have[i], anchor'[i] # {}
      PROVE  have[0] /\ anchor'[i] = {s_sec'[0]}
  <2>1. CASE i \in good
    BY <1>1, <1>3, <1>4, <1>5, <2>1
  <2>2. CASE i \notin good
    <3>1. s_have[i] /\ anchor'[i] = anchor[i]
      BY <1>1, <1>4, <1>5, <2>2
    <3>2. s_have[0] /\ anchor[i] = {s_sec[0]}
      BY <1>5, <3>1 DEF AsmInv, SectionsAgree
    <3>3. CASE 0 \in good
      <4>1. b[0] = s_sec[0]
        BY <1>4, <1>5, <2>2, <3>2, <3>3
      <4> QED BY <1>1, <1>3, <1>4, <3>1, <3>2, <3>3, <4>1
    <3>4. CASE 0 \notin good
      BY <1>1, <1>3, <1>4, <3>1, <3>2, <3>4
    <3> QED BY <3>3, <3>4
  <2> QED BY <2>1, <2>2
<1>6. ASSUME NEW i \in SecIds, s_have'[i], anchor'[i] # {}
      PROVE  s_have'[0] /\ anchor'[i] = {s_sec'[0]}
  <2>1. have[i] /\ ~full
    BY <1>1, <1>6
  <2>2. have[0] /\ anchor'[i] = {s_sec'[0]}
    BY <1>5, <1>6, <2>1
  <2> QED BY <1>1, <1>3, <2>1, <2>2
<1>7. ASSUME NEW f \in reported', NEW i \in SecIds PROVE f.anchor[i] \subseteq {f.sec[0]}
  <2>1. CASE full
    <3>1. f = [sec |-> s_sec', anchor |-> anchor']
      BY <1>1, <1>7, <2>1
    <3>2. have[i]
      BY <2>1
    <3> QED BY <1>5, <3>1, <3>2
  <2>2. CASE ~full
    BY <1>1, <1>7, <2>2 DEF AsmInv, SectionsAgree
  <2> QED BY <2>1, <2>2
<1> QED BY <1>2, <1>6, <1>7 DEF AsmInv, SectionsAgree

\* Whatever frames are heard and however they are damaged, sections heard with an
\* intact section 0 are collected and reported beside that section 0 only.
THEOREM AssemblyAgrees == DecSpec => []SectionsAgree
<1>1. DecInit => AsmInv
  BY DEF DecInit, AsmInv, SectionsAgree
<1>2. AsmInv /\ [DecNext]_dec_vars => AsmInv'
  <2> SUFFICES ASSUME AsmInv, [DecNext]_dec_vars PROVE AsmInv'
    OBVIOUS
  <2>1. CASE UNCHANGED assembly
    BY <2>1 DEF assembly, AsmInv, SectionsAgree
  <2> QED BY <2>1, FrameKeeps DEF DecNext, Decode, dec_vars
<1>3. AsmInv => SectionsAgree
  BY DEF AsmInv
<1> QED BY <1>1, <1>2, <1>3, PTL DEF DecSpec

-----------------------------------------------------------------------------
(***************************************************************************)
(* The Matter hub.                                                         *)
(***************************************************************************)

\* A record that agrees with itself.
Coherent(p) == p.state = "COMMISSIONED" <=> p.fabrics > 0

\* The preferences in RAM agree with themselves too, whether or not they could
\* be saved; that is what the next save writes.
PrefsInv ==
    /\ s_prefs \in Prefs /\ Coherent(s_prefs)
    /\ prefs_flash = NoPrefs \/ (prefs_flash \in Prefs /\ Coherent(prefs_flash))
    /\ hub \in {"new", "ready", "failed"}
    /\ unsaved \in BOOLEAN /\ replaced \in BOOLEAN
    /\ acked # NoPrefs /\ ~replaced =>
          /\ prefs_flash = acked
          /\ hub = "ready" /\ ~unsaved => s_prefs = acked

\* What the tick's position says of a window that was not opened into a closing
\* tick: its end is ahead of the last tick, except from the store of a new time
\* to the end of that tick.
WindowInv ==
    /\ s_window_active \in BOOLEAN /\ raced \in BOOLEAN /\ lost \in BOOLEAN
    /\ s_window_end_uptime_s \in Nat /\ s_cached_uptime_s \in Nat
    /\ now \in Nat /\ uptime_s \in Nat /\ uptime_s <= now
    /\ mpc \in {"loop", "cache", "active", "end", "close", "close_end"}
    /\ ~lost
    /\ mpc \in {"active", "end"} => s_cached_uptime_s = uptime_s
    /\ s_window_active => hub = "ready"
    /\ s_window_active /\ ~raced =>
          /\ s_window_end_uptime_s > 0
          /\ mpc \in {"loop", "cache"} => s_cached_uptime_s < s_window_end_uptime_s
          /\ mpc = "close" => s_window_end_uptime_s <= uptime_s
          /\ mpc # "close_end"

MatIInv == PrefsInv /\ WindowInv

\* The record the flash never held is not a record.
LEMMA PrefsFacts ==
    /\ Default \in Prefs /\ BlankPrefs \in Prefs /\ NoPrefs \notin Prefs
    /\ Coherent(Default) /\ Coherent(BlankPrefs) /\ Coherent(NoPrefs)
BY MatterAssumption DEF Default, BlankPrefs, Prefs, Coherent, NoPrefs

\* A command that stores coherent preferences.
LEMMA StoresKeeps ==
    ASSUME MatIInv, NEW p \in Prefs, Coherent(p), Stores(p) PROVE MatIInv'
<1>1. PICK ok \in BOOLEAN : Persist(p, ok)
  BY DEF Stores
<1>2. s_prefs' = p /\ hub' = hub
  BY DEF Stores
<1>3. unsaved' \in BOOLEAN /\ replaced' \in BOOLEAN
  BY <1>1 DEF Persist
<1>4. \/ prefs_flash' = p /\ acked' = p
      \/ UNCHANGED <<prefs_flash, acked>> /\ unsaved' /\ (~replaced' => ~replaced)
  BY <1>1 DEF Persist, MatIInv, PrefsInv
<1>5. PrefsInv'
  BY <1>2, <1>3, <1>4 DEF MatIInv, PrefsInv
<1>6. ~s_window_active' /\ s_window_active' \in BOOLEAN /\ s_window_end_uptime_s' = 0
  BY DEF Stores
<1>7. WindowInv'
  BY <1>6 DEF Stores, clock, MatIInv, WindowInv
<1> QED BY <1>5, <1>7 DEF MatIInv

\* The command that opens a window.
LEMMA OpenKeeps == ASSUME MatIInv, NEW d \in Durations, WindowOpen(d) PROVE MatIInv'
<1>1. PrefsInv'
  BY DEF WindowOpen, store, MatIInv, PrefsInv
<1>2. /\ s_window_active' /\ s_window_active' \in BOOLEAN
      /\ UNCHANGED <<s_cached_uptime_s, lost, hub, now, uptime_s, mpc>> /\ hub = "ready"
  BY DEF WindowOpen, clock
<1>3. s_window_end_uptime_s' \in Nat /\ s_window_end_uptime_s' > s_cached_uptime_s
  BY MatterAssumption DEF WindowOpen, MatIInv, WindowInv
<1>4. raced' \in BOOLEAN /\ (~raced' => mpc # "close" /\ mpc # "close_end")
  <2>1. raced' = (mpc = "close" \/ mpc = "close_end")
    BY DEF WindowOpen, Closing
  <2> QED BY <2>1, Zenon
<1>5. WindowInv'
  BY <1>2, <1>3, <1>4 DEF MatIInv, WindowInv
<1> QED BY <1>1, <1>5 DEF MatIInv

\* The clock, and the tick of the main loop, part by part.
LEMMA TickKeeps == ASSUME MatIInv, SecondPasses \/ MatTick PROVE MatIInv'
<1> USE DEF LoopGoes
<1>1. PrefsInv'
  BY DEF SecondPasses, MatTick, ReadUptime, TickCache, TickActive, TickEnd, TickClose, TickCloseEnd,
         store, MatIInv, PrefsInv
<1>2. CASE SecondPasses
  BY <1>1, <1>2, MatterAssumption DEF SecondPasses, window, MatIInv, WindowInv
<1>3. CASE ReadUptime \/ TickCache
  BY <1>1, <1>3 DEF ReadUptime, TickCache, window, MatIInv, WindowInv
<1>4. CASE TickActive \/ TickEnd
  BY <1>1, <1>4 DEF TickActive, TickEnd, Expired, window, MatIInv, WindowInv
<1>5. CASE TickClose
  <2>1. ~(s_window_active /\ ~raced /\ now < s_window_end_uptime_s)
    BY <1>5 DEF TickClose, MatIInv, WindowInv
  <2>2. ~lost' /\ lost' \in BOOLEAN /\ ~s_window_active' /\ s_window_active' \in BOOLEAN
    BY <1>5, <2>1 DEF TickClose, MatIInv, WindowInv
  <2>3. /\ mpc' = "close_end"
        /\ UNCHANGED <<now, uptime_s, s_window_end_uptime_s, s_cached_uptime_s, raced, hub>>
    BY <1>5 DEF TickClose
  <2> QED BY <1>1, <2>2, <2>3 DEF MatIInv, WindowInv
<1>6. CASE TickCloseEnd
  BY <1>1, <1>6 DEF TickCloseEnd, MatIInv, WindowInv
<1> QED BY <1>2, <1>3, <1>4, <1>5, <1>6 DEF MatTick

\* Power loss and the initialisation after it.
LEMMA RestartKeeps == ASSUME MatIInv, HubInit \/ BtReady \/ MatReboot PROVE MatIInv'
<1> USE PrefsFacts
<1>1. CASE HubInit
  <2>1. WindowInv'
    <3>1. ~s_window_active
      BY <1>1 DEF HubInit, MatIInv, WindowInv
    <3>2. s_window_end_uptime_s' \in Nat
      BY <1>1 DEF HubInit, MatIInv, WindowInv
    <3> QED BY <1>1, <3>1, <3>2 DEF HubInit, clock, MatIInv, WindowInv
  <2>2. CASE /\ prefs_flash # NoPrefs /\ s_prefs' = prefs_flash /\ hub' = "ready"
             /\ unsaved' = FALSE /\ UNCHANGED <<prefs_flash, replaced>>
    <3>1. PrefsInv'
      BY <1>1, <2>2 DEF HubInit, MatIInv, PrefsInv
    <3> QED BY <2>1, <3>1 DEF MatIInv
  <2>3. CASE /\ s_prefs' = Default /\ prefs_flash' = Default /\ hub' = "ready"
             /\ replaced' = (replaced \/ prefs_flash # NoPrefs) /\ unsaved' = FALSE
    <3>1. replaced' \in BOOLEAN /\ (~replaced' => ~replaced /\ prefs_flash = NoPrefs)
      BY <2>3, Zenon
    <3>2. unsaved' \in BOOLEAN /\ acked' = acked
      BY <1>1, <2>3 DEF HubInit
    <3>3. PrefsInv'
      BY <2>3, <3>1, <3>2 DEF MatIInv, PrefsInv
    <3> QED BY <2>1, <3>3 DEF MatIInv
  <2>4. CASE s_prefs' = Default /\ hub' = "failed" /\ UNCHANGED <<prefs_flash, replaced, unsaved>>
    <3>1. PrefsInv'
      BY <1>1, <2>4 DEF HubInit, MatIInv, PrefsInv
    <3> QED BY <2>1, <3>1 DEF MatIInv
  <2> QED BY <1>1, <2>2, <2>3, <2>4 DEF HubInit
<1>2. CASE BtReady
  BY <1>2 DEF BtReady, clock, window, store, MatIInv, PrefsInv, WindowInv
<1>3. CASE MatReboot
  <2>1. /\ s_window_active' \in BOOLEAN /\ raced' \in BOOLEAN /\ lost' \in BOOLEAN
        /\ ~s_window_active' /\ ~lost' /\ unsaved' \in BOOLEAN
    BY <1>3 DEF MatReboot
  <2>2. /\ s_prefs' = BlankPrefs /\ hub' = "new" /\ UNCHANGED <<prefs_flash, acked, replaced>>
        /\ s_window_end_uptime_s' = 0 /\ s_cached_uptime_s' = 0 /\ now' = 0 /\ uptime_s' = 0
        /\ mpc' = "loop"
    BY <1>3 DEF MatReboot
  <2> QED BY <2>1, <2>2 DEF MatIInv, PrefsInv, WindowInv
<1> QED BY <1>1, <1>2, <1>3

\* Every reachable state of the hub satisfies the inductive invariant.
LEMMA MatInvariant == MatSpec => []MatIInv
<1>1. MatInit => MatIInv
  <2> SUFFICES ASSUME MatInit PROVE MatIInv
    OBVIOUS
  <2>1. /\ s_window_active \in BOOLEAN /\ raced \in BOOLEAN /\ lost \in BOOLEAN
        /\ ~s_window_active /\ ~lost /\ unsaved \in BOOLEAN /\ replaced \in BOOLEAN
    BY DEF MatInit, Booted
  <2>2. /\ s_prefs = BlankPrefs /\ hub = "new" /\ prefs_flash = NoPrefs /\ acked = NoPrefs
        /\ s_window_end_uptime_s = 0 /\ s_cached_uptime_s = 0 /\ now = 0 /\ uptime_s = 0
        /\ mpc = "loop"
    BY DEF MatInit, Booted
  <2> QED BY <2>1, <2>2, PrefsFacts DEF MatIInv, PrefsInv, WindowInv
<1>2. MatIInv /\ [MatNext]_mat_vars => MatIInv'
  <2> SUFFICES ASSUME MatIInv, [MatNext]_mat_vars PROVE MatIInv'
    OBVIOUS
  <2>1. CASE WindowClose
    <3>1. ~s_window_active' /\ s_window_active' \in BOOLEAN /\ s_window_end_uptime_s' = 0
      BY <2>1 DEF WindowClose
    <3> QED BY <2>1, <3>1 DEF WindowClose, clock, store, MatIInv, PrefsInv, WindowInv
  <2>2. CASE FactoryReset
    BY <2>2, StoresKeeps, PrefsFacts DEF FactoryReset
  <2>3. CASE SimulateFabric
    <3> DEFINE p == [state   |-> "COMMISSIONED",
                     fabrics |-> IF s_prefs.fabrics < MaxFabrics THEN s_prefs.fabrics + 1
                                 ELSE s_prefs.fabrics]
    <3>1. p \in Prefs /\ Coherent(p)
      BY MatterAssumption DEF MatIInv, PrefsInv, Prefs, Coherent
    <3> QED BY <2>3, <3>1, StoresKeeps DEF SimulateFabric
  <2>4. CASE UNCHANGED mat_vars
    BY <2>4 DEF mat_vars, clock, window, store, MatIInv, PrefsInv, WindowInv
  <2> QED BY <2>1, <2>2, <2>3, <2>4, OpenKeeps, TickKeeps, RestartKeeps DEF MatNext, MatCommand
<1> QED BY <1>1, <1>2, PTL DEF MatSpec

\* Preferences a client was told are stored stay in the record, over every later
\* sequence of failed commands, power losses and restarts, until a command that
\* succeeds or an initialisation that cannot read the record, and a running hub
\* works with them.
THEOREM PrefsAreDurable == MatSpec => []PrefsDurable
<1>1. MatIInv => PrefsDurable
  BY PrefsFacts DEF MatIInv, PrefsInv, Coherent, PrefsDurable
<1> QED BY <1>1, MatInvariant, PTL

\* However the clock and the main loop run against each other, a tick closes no
\* commissioning window before its end and leaves none open that is at its end,
\* unless it was opened into a closing tick.
THEOREM WindowsAreTimed == MatSpec => []WindowTimed
<1>1. MatIInv => WindowTimed
  BY DEF MatIInv, WindowInv, WindowTimed
<1> QED BY <1>1, MatInvariant, PTL

-----------------------------------------------------------------------------
(***************************************************************************)
(* The sensor tasks.  A lux device has its io hooks only if a sensor was   *)
(* found, the thermal task reads only a sensor it has set up, and the      *)
(* sample being taken never holds a reading without a sensor.              *)
(***************************************************************************)
Outcome == {"none", "ok", "err"}
SenLocs == {"none", "sleep", "inter", "probed", "mode1", "mode2", "read1", "read2",
            "init", "setup", "fail", "read", "ended"}

SenTypeInv ==
    /\ pc \in [Tasks -> SenLocs]
    /\ task_running \in [Tasks -> BOOLEAN]
    /\ lux_s \in [{LOW, HIGH} -> Outcome]
    /\ s_last \in [{LOW, HIGH, THERM} -> Outcome]
    /\ absent_traffic \in BOOLEAN

\* The lux task's part, and the thermal task's.
LuxInv ==
    /\ ~absent_traffic
    /\ ready # {} => found # {}
    /\ \A a \in {LOW, HIGH} : lux_s[a] = "ok" \/ s_last[a] = "ok" => found # {}

ThermInv ==
    /\ pc["therm"] = "ended" => ~task_running["therm"]
    /\ pc["therm"] \in {"setup", "read"} => THERM \in measuring
    /\ s_last[THERM] = "ok" => THERM \in measuring

SenIInv == SenTypeInv /\ LuxInv /\ ThermInv

\* The two tasks and the three addresses are different.
LEMMA SenNames ==
    /\ Tasks = {"lux", "therm"} /\ "lux" # "therm"
    /\ LOW # HIGH /\ LOW # THERM /\ HIGH # THERM
BY DEF Tasks, LOW, HIGH, THERM

\* Start, stop and watchdog of either task.
LEMMA ControlKeeps ==
    ASSUME SenIInv, NEW t \in Tasks, task_start(t) \/ task_stop(t) \/ watchdog_fn(t)
    PROVE  SenIInv'
<1> USE SenNames
<1>1. UNCHANGED <<found, ready, measuring, lux_s, s_last, absent_traffic>>
  BY DEF task_start, task_stop, watchdog_fn, dev_vars
<1>2. LuxInv'
  BY <1>1 DEF SenIInv, LuxInv
<1>3. CASE task_start(t)
  <2>1. pc' = [pc EXCEPT ![t] = "sleep"] /\ task_running' = [task_running EXCEPT ![t] = TRUE]
    BY <1>3 DEF task_start
  <2>2. SenTypeInv'
    BY <1>1, <2>1 DEF SenIInv, SenTypeInv, SenLocs
  <2>3. ThermInv'
    BY <1>1, <2>1 DEF SenIInv, SenTypeInv, ThermInv
  <2> QED BY <1>2, <2>2, <2>3 DEF SenIInv
<1>4. CASE task_stop(t) \/ watchdog_fn(t)
  <2>1. pc' = pc
    BY <1>4 DEF task_stop, watchdog_fn
  <2>2. PICK b \in BOOLEAN : task_running' = [task_running EXCEPT ![t] = b] /\ (b => task_running[t])
    <3>1. CASE task_stop(t)
      BY <3>1 DEF task_stop
    <3>2. CASE watchdog_fn(t)
      <4>1. task_running' = [task_running EXCEPT ![t] = task_running[t] /\ ~s_probing[t]]
        BY <3>2 DEF watchdog_fn
      <4>2. (task_running[t] /\ ~s_probing[t]) \in BOOLEAN
        BY Zenon
      <4> QED BY Zenon, <4>1, <4>2
    <3> QED BY <1>4, <3>1, <3>2
  <2>3. SenTypeInv'
    BY <1>1, <2>1, <2>2 DEF SenIInv, SenTypeInv
  <2>4. ThermInv'
    BY <1>1, <2>1, <2>2 DEF SenIInv, SenTypeInv, ThermInv
  <2> QED BY <1>2, <2>3, <2>4 DEF SenIInv
<1> QED BY <1>3, <1>4

\* Every step of the lux task: it moves only itself, and only adds to what was
\* found and what measures.
LEMMA LuxKeeps == ASSUME SenIInv, LuxTask PROVE SenIInv'
<1> USE SenNames DEF Goto, InitOver, task_vars
<1>1. ASSUME NEW l \in SenLocs, pc' = [pc EXCEPT !["lux"] = l], UNCHANGED task_running,
             measuring \subseteq measuring', s_last'[THERM] = s_last[THERM]
      PROVE  ThermInv' /\ pc' \in [Tasks -> SenLocs] /\ task_running' \in [Tasks -> BOOLEAN]
  BY <1>1 DEF SenIInv, SenTypeInv, ThermInv
<1>2. ASSUME NEW addr, NEW from, NEW to \in SenLocs, LuxProbe(addr, from, to) PROVE SenIInv'
  <2>1. UNCHANGED <<task_running, ready, measuring, lux_s, s_last, absent_traffic>>
        /\ pc' = [pc EXCEPT !["lux"] = to] /\ found \subseteq found'
    BY <1>2 DEF LuxProbe
  <2>2. ThermInv' /\ SenTypeInv'
    BY <1>1, <2>1 DEF SenIInv, SenTypeInv
  <2> QED BY <2>1, <2>2 DEF SenIInv, LuxInv
<1>7. CASE LuxNoBus
  <2>1. UNCHANGED <<task_running, found, ready, measuring, lux_s, s_last, absent_traffic>>
        /\ pc' = [pc EXCEPT !["lux"] = "read1"]
    BY <1>7 DEF LuxNoBus, dev_vars
  <2>2. ThermInv' /\ SenTypeInv'
    BY <1>1, <2>1 DEF SenIInv, SenTypeInv, SenLocs
  <2> QED BY <2>1, <2>2 DEF SenIInv, LuxInv
<1>3. CASE LuxFound
  <2>1. UNCHANGED <<task_running, found, measuring, lux_s, s_last, absent_traffic>>
    BY <1>3 DEF LuxFound
  <2>2. \E l \in {"read1", "mode1"} : pc' = [pc EXCEPT !["lux"] = l]
    BY <1>3 DEF LuxFound
  <2>3. ready' # {} => found # {}
    BY <1>3 DEF LuxFound, SenIInv, LuxInv
  <2>4. ThermInv' /\ SenTypeInv'
    BY <1>1, <2>1, <2>2 DEF SenIInv, SenTypeInv, SenLocs
  <2> QED BY <2>1, <2>3, <2>4 DEF SenIInv, LuxInv
<1>4. ASSUME NEW addr, NEW guard, NEW from, NEW to \in SenLocs, LuxMode(addr, guard, from, to)
      PROVE  SenIInv'
  <2>1. UNCHANGED <<task_running, found, ready, lux_s, s_last, absent_traffic>>
    BY <1>4 DEF LuxMode
  <2>2. \E l \in {"read1", to} : pc' = [pc EXCEPT !["lux"] = l]
    BY <1>4 DEF LuxMode
  <2>3. measuring \subseteq measuring'
    BY <1>4 DEF LuxMode
  <2>4. ThermInv' /\ SenTypeInv'
    BY <1>1, <2>1, <2>2, <2>3 DEF SenIInv, SenTypeInv, SenLocs
  <2> QED BY <2>1, <2>4 DEF SenIInv, LuxInv
<1>5. ASSUME NEW addr \in {LOW, HIGH}, NEW from, NEW to \in SenLocs, LuxRead(addr, from, to)
      PROVE  SenIInv'
  <2>1. UNCHANGED <<task_running, found, ready, measuring>> /\ pc' = [pc EXCEPT !["lux"] = to]
    BY <1>5 DEF LuxRead
  <2>2. PICK o \in Outcome : lux_s' = [lux_s EXCEPT ![addr] = o] /\ (o = "ok" => addr \in ready)
    BY <1>5 DEF LuxRead, Outcome
  <2>3. absent_traffic' \in BOOLEAN /\ ~absent_traffic'
    <3>1. CASE addr \in ready
      <4>1. found # {} /\ ~absent_traffic
        BY <3>1 DEF SenIInv, LuxInv
      <4>2. absent_traffic' = (absent_traffic \/ found = {})
        BY <1>5, <3>1 DEF LuxRead
      <4> QED BY Zenon, <4>1, <4>2
    <3>2. CASE addr \notin ready
      BY <1>5, <3>2 DEF LuxRead, SenIInv, SenTypeInv, LuxInv
    <3> QED BY <3>1, <3>2
  <2>4. lux_s' \in [{LOW, HIGH} -> Outcome]
    BY <2>2 DEF SenIInv, SenTypeInv
  <2>5. \A a \in {LOW, HIGH} : lux_s'[a] = "ok" => found # {}
    BY <2>2 DEF SenIInv, SenTypeInv, LuxInv
  <2>6. /\ s_last' \in [{LOW, HIGH, THERM} -> Outcome]
        /\ s_last'[THERM] = s_last[THERM]
        /\ \A a \in {LOW, HIGH} : s_last'[a] \in {lux_s'[a], s_last[a]}
    <3>1. CASE from = "read2"
      <4>1. s_last' = [s_last EXCEPT ![LOW] = lux_s'[LOW], ![HIGH] = lux_s'[HIGH]]
        BY <1>5, <3>1 DEF LuxRead
      <4> QED BY <2>4, <4>1 DEF SenIInv, SenTypeInv
    <3>2. CASE from # "read2"
      BY <1>5, <3>2 DEF LuxRead, SenIInv, SenTypeInv
    <3> QED BY <3>1, <3>2
  <2>7. ThermInv' /\ SenTypeInv'
    BY <1>1, <2>1, <2>3, <2>4, <2>6 DEF SenTypeInv
  <2>8. LuxInv'
    BY <2>1, <2>3, <2>5, <2>6 DEF SenIInv, LuxInv
  <2> QED BY <2>7, <2>8 DEF SenIInv
<1>6. CASE LuxStops
  <2>1. UNCHANGED <<task_running, found, ready, measuring, lux_s, s_last, absent_traffic>>
        /\ pc' = [pc EXCEPT !["lux"] = "ended"]
    BY <1>6 DEF LuxStops, dev_vars
  <2>2. ThermInv' /\ SenTypeInv'
    BY <1>1, <2>1 DEF SenIInv, SenTypeInv, SenLocs
  <2> QED BY <2>1, <2>2 DEF SenIInv, LuxInv
<1> QED BY <1>2, <1>3, <1>4, <1>5, <1>6, <1>7 DEF LuxTask, SenLocs

\* Every step of the thermal task, of either kind.
LEMMA ThermKeeps == ASSUME SenIInv, ThermTask PROVE SenIInv'
<1> USE SenNames DEF Goto, ThermEnds
<1>1. ASSUME UNCHANGED <<found, ready, lux_s, absent_traffic>>,
             \A a \in {LOW, HIGH} : s_last'[a] = s_last[a]
      PROVE  LuxInv' /\ lux_s' \in [{LOW, HIGH} -> Outcome] /\ absent_traffic' \in BOOLEAN
  BY <1>1 DEF SenIInv, SenTypeInv, LuxInv
<1>2. CASE ThermProbe
  <2>1. UNCHANGED <<task_running, found, ready, measuring, lux_s, s_last, absent_traffic>>
    BY <1>2 DEF ThermProbe, dev_vars
  <2>2. \E l \in {"init", "fail"} : pc' = [pc EXCEPT !["therm"] = l]
    BY <1>2 DEF ThermProbe
  <2>3. ThermInv' /\ SenTypeInv'
    BY <2>1, <2>2 DEF SenIInv, SenTypeInv, ThermInv, SenLocs
  <2> QED BY <1>1, <2>1, <2>3 DEF SenIInv
<1>3. ASSUME NEW ok \in BOOLEAN, SetUp(ok) PROVE SenIInv'
  <2>1. UNCHANGED <<task_running, found, ready, lux_s, s_last, absent_traffic>>
    BY <1>3 DEF SetUp, task_vars
  <2>2. \/ pc' = [pc EXCEPT !["therm"] = "setup"] /\ measuring' = measuring \cup {THERM}
        \/ pc' = [pc EXCEPT !["therm"] = "fail"] /\ measuring' = measuring \cup {}
    BY <1>3 DEF SetUp
  <2>3. ThermInv' /\ SenTypeInv'
    BY <2>1, <2>2 DEF SenIInv, SenTypeInv, ThermInv, SenLocs
  <2> QED BY <1>1, <2>1, <2>3 DEF SenIInv
<1>4. CASE ThermReady
  <2>1. UNCHANGED <<found, ready, measuring, lux_s, s_last, absent_traffic>>
    BY <1>4 DEF ThermReady, dev_vars
  <2>2. \/ /\ pc' = [pc EXCEPT !["therm"] = "ended"]
           /\ task_running' = [task_running EXCEPT !["therm"] = FALSE]
        \/ pc["therm"] = "setup" /\ pc' = [pc EXCEPT !["therm"] = "read"] /\ task_running' = task_running
    BY <1>4 DEF ThermReady
  <2>3. ThermInv' /\ SenTypeInv'
    BY <2>1, <2>2 DEF SenIInv, SenTypeInv, ThermInv, SenLocs
  <2> QED BY <1>1, <2>1, <2>3 DEF SenIInv
<1>5. ASSUME pc["therm"] = "read",
             UNCHANGED <<task_running, found, ready, measuring, lux_s, absent_traffic>>,
             pc' = pc \/ (pc' = [pc EXCEPT !["therm"] = "ended"] /\ ~task_running["therm"]),
             NEW o \in Outcome, s_last' = [s_last EXCEPT ![THERM] = o]
      PROVE  SenIInv'
  <2>1. ThermInv' /\ SenTypeInv'
    BY <1>5 DEF SenIInv, SenTypeInv, ThermInv, SenLocs
  <2>2. \A a \in {LOW, HIGH} : s_last'[a] = s_last[a]
    BY <1>5 DEF SenIInv, SenTypeInv
  <2> QED BY <1>1, <1>5, <2>1, <2>2 DEF SenIInv
<1>6. s_last[THERM] \in Outcome /\ s_last = [s_last EXCEPT ![THERM] = s_last[THERM]]
  BY DEF SenIInv, SenTypeInv
<1>7. CASE amg8833_read_frame \/ mlx90640_get_frame
  <2>1. pc["therm"] = "read" /\ pc' = pc
        /\ UNCHANGED <<task_running, found, ready, measuring, lux_s, absent_traffic>>
    BY <1>7 DEF amg8833_read_frame, mlx90640_get_frame, ThermReads, task_vars
  <2>2. \E o \in Outcome : s_last' = [s_last EXCEPT ![THERM] = o]
    <3>1. CASE amg8833_read_frame
      BY <3>1 DEF amg8833_read_frame, Outcome
    <3>2. CASE mlx90640_get_frame
      <4>1. PICK ok \in Outcomes(THERM) : s_last' = [s_last EXCEPT ![THERM] =
                IF sp' = 1 THEN s_last[THERM] ELSE IF ok THEN "ok" ELSE "err"]
        BY <3>2 DEF mlx90640_get_frame
      <4> DEFINE o == IF sp' = 1 THEN s_last[THERM] ELSE IF ok THEN "ok" ELSE "err"
      <4>2. o \in Outcome
        BY <1>6 DEF Outcome
      <4> QED BY <4>1, <4>2
    <3> QED BY <1>7, <3>1, <3>2
  <2> QED BY <1>5, <2>1, <2>2
<1>8. CASE AmgStops \/ MlxStops
  <2>1. /\ pc["therm"] = "read" /\ ~task_running["therm"]
        /\ pc' = [pc EXCEPT !["therm"] = "ended"]
        /\ UNCHANGED <<task_running, found, ready, measuring, lux_s, absent_traffic>>
    BY <1>8 DEF AmgStops, MlxStops, ThermStopped, task_vars
  <2>2. s_last' = s_last \/ s_last' = [s_last EXCEPT ![THERM] = "ok"]
    BY <1>8 DEF AmgStops, MlxStops
  <2>3. \E o \in Outcome : s_last' = [s_last EXCEPT ![THERM] = o]
    BY <1>6, <2>2 DEF Outcome
  <2> QED BY <1>5, <2>1, <2>3
<1>9. CASE amg8833_init \/ mlx90640_init
  BY <1>3, <1>9 DEF amg8833_init, mlx90640_init, Outcomes
<1> QED BY <1>2, <1>4, <1>7, <1>8, <1>9 DEF ThermTask

\* A task that found no sensor leaves the bus alone for good, whatever is plugged
\* in later, and reports no reading that no sensor gave.
THEOREM AbsentSensorsAreQuiet == SenSpec => []AbsentSensorQuiet
<1>1. SenInit => SenIInv
  <2> SUFFICES ASSUME SenInit PROVE SenIInv
    OBVIOUS
  <2>1. absent_traffic \in BOOLEAN /\ ~absent_traffic
    BY DEF SenInit
  <2>2. SenTypeInv
    BY <2>1, SenNames DEF SenInit, SenTypeInv, Outcome, SenLocs
  <2>3. LuxInv /\ ThermInv
    BY <2>1, SenNames DEF SenInit, LuxInv, ThermInv
  <2> QED BY <2>2, <2>3 DEF SenIInv
<1>2. SenIInv /\ [SenNext]_sen_vars => SenIInv'
  <2> SUFFICES ASSUME SenIInv, [SenNext]_sen_vars PROVE SenIInv'
    OBVIOUS
  <2>1. CASE Plug \/ UNCHANGED sen_vars
    <3>1. UNCHANGED <<pc, task_running, found, ready, measuring, lux_s, s_last, absent_traffic>>
      BY <2>1 DEF Plug, sen_vars, task_vars, dev_vars
    <3> QED BY <3>1 DEF SenIInv, SenTypeInv, LuxInv, ThermInv
  <2> QED BY <2>1, ControlKeeps, LuxKeeps, ThermKeeps DEF SenNext
<1>3. SenIInv => AbsentSensorQuiet
  BY DEF SenIInv, LuxInv, ThermInv, AbsentSensorQuiet
<1> QED BY <1>1, <1>2, <1>3, PTL DEF SenSpec

-----------------------------------------------------------------------------
(***************************************************************************)
(* The LED strip.  The inductive invariant adds the types, which bound the *)
(* arithmetic, and that the status the phone reads follows the task.       *)
(***************************************************************************)
LedTypes ==
    /\ led_type \in {"SK6812", "APA102"}
    /\ led_started \in BOOLEAN /\ unshown \in BOOLEAN
    /\ s_color \in [Channels -> Byte]
    /\ s_brightness \in Byte
    /\ s_tick \in Nat

StatusFollows ==
    led_started => /\ led_status.pattern = s_pattern
                   /\ led_status.color = s_color
                   /\ led_status.brightness = s_brightness

LedIInv == LedTypes /\ StatusFollows /\ StripShowsStatus

\* Scaling keeps the order of channel values, and dark stays dark.
LEMMA Scaled ==
    ASSUME NEW a \in Nat, NEW b \in Nat, a <= b, NEW br \in Nat
    PROVE  /\ apply_brightness(a, br) \in Nat
           /\ apply_brightness(a, br) <= apply_brightness(b, br)
           /\ apply_brightness(0, br) = 0
<1>1. a * br \in Nat /\ b * br \in Nat /\ a * br <= b * br /\ 0 * br = 0
  OBVIOUS
<1>2. ASSUME NEW x \in Nat, NEW y \in Nat, x <= y
      PROVE  x \div 256 \in Nat /\ x \div 256 <= y \div 256 /\ 0 \div 256 = 0
  BY <1>2
<1> QED BY <1>1, <1>2 DEF apply_brightness

\* What a channel of a LED is sent: the scaled value, but no white on APA102.
LEMMA OnWireAt ==
    ASSUME NEW c, NEW br, NEW k \in Channels
    PROVE  OnWire(c, br)[k] = IF k = 4 /\ led_type # "SK6812" THEN 0 ELSE apply_brightness(c[k], br)
<1>1. CASE led_type = "SK6812"
  <2> DEFINE s == [j \in Channels |-> apply_brightness(c[j], br)]
  <2>1. s \in Seq({s[j] : j \in Channels}) /\ Len(s) = 4
    BY DEF Channels
  <2>2. (s \o <<31>>)[k] = s[k]
    BY <2>1 DEF Channels
  <2> QED BY <1>1, <2>2 DEF OnWire, sk6812_refresh
<1>2. CASE led_type # "SK6812"
  <2> DEFINE s == [j \in 1 .. 3 |-> apply_brightness(c[j], br)]
             t == <<0, br \div 8>>
  <2>1. s \in Seq({s[j] : j \in 1 .. 3}) /\ Len(s) = 3 /\ Len(t) = 2 /\ t[1] = 0
    OBVIOUS
  <2>2. \A j \in 1 .. 3 : (s \o t)[j] = s[j]
    BY <2>1
  <2>3. (s \o t)[4] = 0
    BY <2>1
  <2>4. CASE k = 4
    BY <1>2, <2>3, <2>4 DEF OnWire, apa102_refresh
  <2>5. CASE k # 4
    <3>1. k \in 1 .. 3
      BY <2>5 DEF Channels
    <3> QED BY <1>2, <2>2, <2>5, <3>1 DEF OnWire, apa102_refresh
  <2> QED BY <2>4, <2>5
<1> QED BY <1>1, <1>2

\* A breathing LED is never brighter than its colour.
LEMMA Dimmed ==
    ASSUME NEW c \in Byte, NEW tick \in Nat
    PROVE  (c * Envelope(tick)) \div 255 \in Nat /\ (c * Envelope(tick)) \div 255 <= c
<1>1. Envelope(tick) \in 0 .. 255
  <2> DEFINE half == BreathingTicks \div 2
             phase == tick % BreathingTicks
             up == IF phase < half THEN phase ELSE BreathingTicks - phase
  <2>1. BreathingTicks \in Nat /\ BreathingTicks >= 2
    BY LedAssumption
  <2>2. half \in Nat \ {0} /\ phase \in Nat
    BY <2>1
  <2>3. up * 255 \in Int
    BY <2>1, <2>2
  <2> HIDE DEF half, up
  <2>4. (up * 255) \div half \in Int
    BY <2>2, <2>3
  <2>5. ((up * 255) \div half) % 256 \in 0 .. 255
    BY <2>4
  <2> QED BY <2>5 DEF Envelope, half, up
<1>2. ASSUME NEW e \in 0 .. 255 PROVE (c * e) \div 255 \in Nat /\ (c * e) \div 255 <= c
  <2>1. c * e \in Nat /\ c * e <= c * 255
    BY DEF Byte
  <2>2. ASSUME NEW x \in Nat, x <= c * 255 PROVE x \div 255 \in Nat /\ x \div 255 <= c
    BY <2>2 DEF Byte
  <2> QED BY <2>1, <2>2
<1> QED BY <1>1, <1>2

\* A hue has one channel at full value and one at zero.
LEMMA PureHue ==
    ASSUME NEW h \in Nat
    PROVE  \E a, b, c : hsv_to_rgb(h) = <<a, b, c>> /\ 255 \in {a, b, c} /\ 0 \in {a, b, c}
BY DEF hsv_to_rgb

\* A step that leaves something to show says nothing about the LEDs yet.
LEMMA Unshown ==
    ASSUME unshown' = TRUE
    PROVE  StripShowsStatus'
BY DEF StripShowsStatus

\* Every command of write_cmd refreshes the status from what it has set.
LEMMA CommandKeeps ==
    ASSUME LedIInv, LedCommand
    PROVE  LedIInv'
<1>1. LedTypes
  BY DEF LedIInv
<1>2. /\ Colours \subseteq [Channels -> Byte] /\ Brights \subseteq Byte /\ Percents \subseteq Nat
  BY LedAssumption DEF Channels, Byte
<1>3. Dark \in [Channels -> Byte] /\ \A p \in Presets : p \in [Channels -> Byte]
  BY DEF Dark, Presets, Channels, Byte
<1>4. ASSUME Notifies, s_color' \in [Channels -> Byte], s_brightness' \in Byte, s_tick' \in Nat
      PROVE  LedIInv'
  <2>1. LedTypes'
    BY <1>1, <1>4 DEF LedTypes, Notifies
  <2>2. StatusFollows'
    BY <1>4 DEF Notifies, StatusFollows
  <2>3. StripShowsStatus'
    BY <1>4, Unshown DEF Notifies
  <2> QED BY <2>1, <2>2, <2>3 DEF LedIInv
<1>5. ASSUME NEW p, NEW c \in Colours \cup {s_color, Dark}, led_task_set_pattern(p, c)
      PROVE  LedIInv'
  BY <1>1, <1>2, <1>3, <1>4, <1>5 DEF led_task_set_pattern, LedTypes
<1>6. ASSUME NEW c \in Colours, led_task_set_color(c) PROVE LedIInv'
  BY <1>1, <1>2, <1>4, <1>6 DEF led_task_set_color, LedTypes
<1>7. ASSUME NEW br \in Brights, led_task_set_brightness(br) PROVE LedIInv'
  BY <1>1, <1>2, <1>4, <1>7 DEF led_task_set_brightness, LedTypes
<1>8. ASSUME NEW i, NEW c, led_task_set_pixel(i, c) PROVE LedIInv'
  BY <1>1, <1>4, <1>8 DEF led_task_set_pixel, LedTypes
<1>9. ASSUME NEW preset \in Presets, NEW pct \in Percents, led_task_set_sleep_light(preset, pct)
      PROVE  LedIInv'
  <2>1. sleep_light_color(preset, pct) \in [Channels -> Byte]
    <3> DEFINE n == IF pct > 100 THEN 100 ELSE pct
    <3>1. n \in 0 .. 100
      BY <1>2
    <3> HIDE DEF n
    <3>2. ASSUME NEW v \in Byte PROVE (v * n) \div 100 \in Byte
      <4>1. v * n \in Nat /\ v * n <= v * 100
        BY <3>1 DEF Byte
      <4>2. ASSUME NEW x \in Nat, x <= v * 100 PROVE x \div 100 \in Byte
        BY <4>2 DEF Byte
      <4> QED BY <4>1, <4>2
    <3>3. \A k \in Channels : preset[k] \in Byte
      BY <1>3
    <3> QED BY <3>2, <3>3 DEF sleep_light_color, n
  <2> QED BY <1>1, <1>4, <1>9, <2>1 DEF led_task_set_sleep_light, LedTypes
<1> QED BY <1>5, <1>6, <1>7, <1>8, <1>9 DEF LedCommand

\* The tick sends every LED its pattern.
LEMMA StripTickKeeps ==
    ASSUME LedIInv, tick_fn
    PROVE  LedIInv'
<1>1. LedTypes /\ StatusFollows
  BY DEF LedIInv
<1>2. /\ wire' = [i \in Leds |-> OnWire(Drawn[i], s_brightness)]
      /\ unshown' = FALSE /\ s_tick' \in {s_tick, (s_tick + 1) % TickMod}
      /\ UNCHANGED <<led_type, led_started, led_inited, s_pattern, s_color, s_brightness, led_status>>
  BY DEF tick_fn, Refresh
<1>3. LedTypes'
  <2>1. s_tick' \in Nat
    BY <1>1, <1>2, LedAssumption DEF LedTypes
  <2> QED BY <1>1, <1>2, <2>1 DEF LedTypes
<1>4. StatusFollows'
  BY <1>1, <1>2 DEF StatusFollows
<1>5. /\ s_color \in [Channels -> Byte] /\ s_brightness \in Nat /\ s_tick \in Nat
      /\ Byte \subseteq Nat /\ \A k \in Channels : s_color[k] \in Byte /\ s_color[k] \in Nat
  BY <1>1 DEF LedTypes, Byte
<1>6. \A i \in Leds, k \in Channels :
          wire'[i][k] = IF k = 4 /\ led_type # "SK6812" THEN 0
                        ELSE apply_brightness(Drawn[i][k], s_brightness)
  BY <1>2, OnWireAt
<1>7. apply_brightness(0, s_brightness) = 0
  BY <1>5, Scaled
<1> DEFINE full == OnWire(s_color, s_brightness)
           DarkStrip == \A i \in Leds, k \in Channels : wire'[i][k] = 0
           FullStrip == \A i \in Leds : wire'[i] = full
<1>8. Drawn = Filled(Dark) => DarkStrip
  BY <1>6, <1>7 DEF Filled, Dark, Channels
<1>9. Drawn = Filled(s_color) => FullStrip
  BY <1>2 DEF Filled
<1>10. 1 \in Leds
  BY LedAssumption DEF Leds
<1>11. s_pattern = "BREATHING" => \A i \in Leds : /\ wire'[i] = wire'[1]
                                                  /\ \A k \in Channels : wire'[i][k] <= full[k]
  <2> SUFFICES ASSUME s_pattern = "BREATHING"
               PROVE  \A i \in Leds : /\ wire'[i] = wire'[1]
                                      /\ \A k \in Channels : wire'[i][k] <= full[k]
    OBVIOUS
  <2> DEFINE dim == [k \in Channels |-> (s_color[k] * Envelope(s_tick)) \div 255]
  <2>1. Drawn = Filled(dim)
    BY DEF Drawn
  <2>2. \A k \in Channels : dim[k] \in Nat /\ dim[k] <= s_color[k]
    BY <1>5, Dimmed
  <2> HIDE DEF dim
  <2>3. \A i \in Leds : wire'[i] = OnWire(dim, s_brightness)
    BY <1>2, <2>1 DEF Filled
  <2>4. ASSUME NEW k \in Channels PROVE OnWire(dim, s_brightness)[k] <= full[k]
    <3>1. apply_brightness(dim[k], s_brightness) <= apply_brightness(s_color[k], s_brightness)
      BY <1>5, <2>2, Scaled
    <3>2. /\ OnWire(dim, s_brightness)[k] = IF k = 4 /\ led_type # "SK6812" THEN 0
                                            ELSE apply_brightness(dim[k], s_brightness)
          /\ full[k] = IF k = 4 /\ led_type # "SK6812" THEN 0
                       ELSE apply_brightness(s_color[k], s_brightness)
      BY OnWireAt
    <3> QED BY <3>1, <3>2
  <2> QED BY <1>10, <2>3, <2>4
<1>12. s_pattern = "RAINBOW" => \A i \in Leds :
           /\ wire'[i][4] = full[4]
           /\ \E k, m \in 1 .. 3 : /\ wire'[i][k] = apply_brightness(255, s_brightness)
                                   /\ wire'[i][m] = 0
  <2> SUFFICES ASSUME s_pattern = "RAINBOW", NEW i \in Leds
               PROVE  /\ wire'[i][4] = full[4]
                      /\ \E k, m \in 1 .. 3 : /\ wire'[i][k] = apply_brightness(255, s_brightness)
                                              /\ wire'[i][m] = 0
    OBVIOUS
  <2> DEFINE h == (((s_tick * HueStep) % 360) + ((i - 1) * 360) \div LedCount) % 360
  <2>1. Drawn[i] = hsv_to_rgb(h) \o <<s_color[4]>>
    BY DEF Drawn
  <2>2. h \in Nat
    <3>1. s_tick * HueStep \in Nat /\ (i - 1) * 360 \in Nat /\ LedCount \in Nat \ {0}
      BY <1>5, LedAssumption DEF Leds
    <3> DEFINE a == s_tick * HueStep
               b == (i - 1) * 360
    <3> HIDE DEF a, b
    <3>2. a % 360 \in Nat /\ b \div LedCount \in Nat
      BY <3>1 DEF a, b
    <3>3. ((a % 360) + (b \div LedCount)) % 360 \in Nat
      BY <3>2
    <3> QED BY <3>3 DEF a, b
  <2> HIDE DEF h
  <2>3. /\ Drawn[i][4] = s_color[4]
        /\ \E k, m \in 1 .. 3 : Drawn[i][k] = 255 /\ Drawn[i][m] = 0
    <3>1. PICK a, b, c : /\ hsv_to_rgb(h) = <<a, b, c>>
                         /\ 255 \in {a, b, c} /\ 0 \in {a, b, c}
      BY <2>2, PureHue
    <3>2. Drawn[i] = <<a, b, c>> \o <<s_color[4]>>
      BY <2>1, <3>1
    <3>3. /\ Drawn[i][1] = a /\ Drawn[i][2] = b /\ Drawn[i][3] = c
          /\ Drawn[i][4] = s_color[4]
      BY <3>2
    <3>4. (\E k \in 1 .. 3 : Drawn[i][k] = 255) /\ (\E m \in 1 .. 3 : Drawn[i][m] = 0)
      BY <3>1, <3>3
    <3> QED BY <3>3, <3>4
  <2>4. wire'[i][4] = full[4]
    <3>1. 4 \in Channels
      BY DEF Channels
    <3>2. full[4] = IF led_type # "SK6812" THEN 0 ELSE apply_brightness(s_color[4], s_brightness)
      BY <3>1, OnWireAt
    <3> QED BY <1>6, <2>3, <3>1, <3>2
  <2>5. PICK k \in 1 .. 3, m \in 1 .. 3 : Drawn[i][k] = 255 /\ Drawn[i][m] = 0
    BY <2>3
  <2>6. k \in Channels /\ k # 4 /\ m \in Channels /\ m # 4
    BY DEF Channels
  <2>7. wire'[i][k] = apply_brightness(255, s_brightness) /\ wire'[i][m] = 0
    BY <1>6, <1>7, <2>5, <2>6
  <2> QED BY <2>4, <2>7
<1>13. s_pattern = "OFF" => DarkStrip
  BY <1>8 DEF Drawn
<1>14. s_pattern = "SOLID" => FullStrip
  BY <1>9 DEF Drawn
<1>15. s_pattern = "STROBE" => DarkStrip \/ FullStrip
  BY <1>8, <1>9 DEF Drawn
<1>16. StripShowsStatus'
  <2> SUFFICES ASSUME led_started PROVE StripShowsStatus'
    BY <1>2 DEF StripShowsStatus
  <2>1. /\ led_status'.pattern = s_pattern /\ led_status'.color = s_color
        /\ led_status'.brightness = s_brightness
    BY <1>1, <1>2 DEF StatusFollows
  <2>2. OnWire(led_status.color, led_status.brightness)' = full
    BY <1>2, <2>1 DEF OnWire, sk6812_refresh, apa102_refresh
  <2>3. apply_brightness(255, led_status.brightness)' = apply_brightness(255, s_brightness)
    BY <2>1
  <2>4. ASSUME DarkStrip, NEW i \in Leds PROVE ~\E k \in Channels : wire'[i][k] > 0
    BY <2>4
  <2> HIDE DEF full
  <2> QED BY <1>2, <1>11, <1>12, <1>13, <1>14, <1>15, <2>1, <2>2, <2>3, <2>4
          DEF StripShowsStatus
<1> QED BY <1>3, <1>4, <1>16 DEF LedIInv

\* One tick after the last command every LED shows what the status says, for
\* every length of the strip, both wire formats and every colour and brightness.
THEOREM StripIsShown == LedSpec => []StripShowsStatus
<1>1. LedInit => LedIInv
  <2> SUFFICES ASSUME LedInit PROVE LedIInv
    OBVIOUS
  <2>1. LedTypes
    <3>1. s_color \in [Channels -> Byte] /\ s_brightness \in Byte /\ s_tick \in Nat
      BY DEF LedInit, Dark, Channels, Byte
    <3>2. led_started \in BOOLEAN /\ unshown \in BOOLEAN /\ led_type \in {"SK6812", "APA102"}
      BY DEF LedInit
    <3> QED BY <3>1, <3>2 DEF LedTypes
  <2>2. StatusFollows /\ StripShowsStatus
    BY DEF LedInit, StatusFollows, StripShowsStatus
  <2> QED BY <2>1, <2>2 DEF LedIInv
<1>2. LedIInv /\ [LedNext]_led_vars => LedIInv'
  <2> SUFFICES ASSUME LedIInv, [LedNext]_led_vars PROVE LedIInv'
    OBVIOUS
  <2>1. ASSUME NEW ok \in BOOLEAN, LedStart(ok) PROVE LedIInv'
    <3>1. /\ led_status' = [pattern |-> s_pattern, color |-> s_color, brightness |-> 255,
                            count |-> IF ok THEN LedCount ELSE 0]
          /\ s_brightness' = 255 /\ led_started' = ok /\ unshown' = TRUE
          /\ UNCHANGED <<led_type, s_pattern, s_color, s_tick>>
      BY <2>1 DEF LedStart, led_strip_init
    <3>2. LedTypes'
      BY <2>1, <3>1 DEF LedIInv, LedTypes, Byte
    <3>3. StatusFollows'
      BY <3>1 DEF StatusFollows
    <3>4. StripShowsStatus'
      BY <3>1, Unshown
    <3> QED BY <3>2, <3>3, <3>4 DEF LedIInv
  <2>2. CASE timer_expiry \/ UNCHANGED led_vars
    <3>1. UNCHANGED <<led_type, led_started, led_inited, s_pattern, s_color, s_brightness, s_tick,
                      wire, led_status, unshown, override>>
      BY <2>2 DEF timer_expiry, led_vars
    <3>2. LedTypes' /\ StatusFollows'
      BY <3>1 DEF LedIInv, LedTypes, StatusFollows
    <3>3. StripShowsStatus'
      BY <3>1 DEF LedIInv, StripShowsStatus, OnWire
    <3> QED BY <3>2, <3>3 DEF LedIInv
  <2>3. CASE LedCommand
    BY <2>3, CommandKeeps
  <2>4. CASE tick_fn
    BY <2>4, StripTickKeeps
  <2> QED BY <2>1, <2>2, <2>3, <2>4 DEF LedNext
<1>3. LedIInv => StripShowsStatus
  BY DEF LedIInv
<1> QED BY <1>1, <1>2, <1>3, PTL DEF LedSpec

-----------------------------------------------------------------------------
(***************************************************************************)
(* The codec: bits and bytes, and the checksum of a section.               *)
(***************************************************************************)
\* The weights of the bits are the powers of two.
LEMMA Weights ==
    /\ Weight(0) = 1 /\ Weight(1) = 2 /\ Weight(2) = 4 /\ Weight(3) = 8
    /\ Weight(4) = 16 /\ Weight(5) = 32 /\ Weight(6) = 64 /\ Weight(7) = 128
BY DEF Weight

\* The bits of a byte, each by its division.
LEMMA BitsOf ==
    ASSUME NEW v \in Nat
    PROVE  /\ Bit(v, 0) = v % 2 /\ Bit(v, 1) = (v \div 2) % 2
           /\ Bit(v, 2) = (v \div 4) % 2 /\ Bit(v, 3) = (v \div 8) % 2
           /\ Bit(v, 4) = (v \div 16) % 2 /\ Bit(v, 5) = (v \div 32) % 2
           /\ Bit(v, 6) = (v \div 64) % 2 /\ Bit(v, 7) = (v \div 128) % 2
           /\ \A k \in 0 .. 7 : Bit(v, k) \in {0, 1}
<1>1. /\ Bit(v, 0) = v % 2 /\ Bit(v, 1) = (v \div 2) % 2
      /\ Bit(v, 2) = (v \div 4) % 2 /\ Bit(v, 3) = (v \div 8) % 2
  BY Weights DEF Bit
<1>2. /\ Bit(v, 4) = (v \div 16) % 2 /\ Bit(v, 5) = (v \div 32) % 2
      /\ Bit(v, 6) = (v \div 64) % 2 /\ Bit(v, 7) = (v \div 128) % 2
  BY Weights DEF Bit
<1>3. ASSUME NEW k \in 0 .. 7 PROVE Bit(v, k) \in {0, 1}
  <2>1. k = 0 \/ k = 1 \/ k = 2 \/ k = 3 \/ k = 4 \/ k = 5 \/ k = 6 \/ k = 7
    OBVIOUS
  <2>2. \A n \in Nat : n % 2 \in {0, 1}
    OBVIOUS
  <2> QED BY <1>1, <1>2, <2>1, <2>2
<1> QED BY <1>1, <1>2, <1>3

\* A byte is the sum of its bits.
LEMMA SumOfBits ==
    ASSUME NEW v \in Byte
    PROVE  v = Bit(v, 0) + 2 * Bit(v, 1) + 4 * Bit(v, 2) + 8 * Bit(v, 3)
               + 16 * Bit(v, 4) + 32 * Bit(v, 5) + 64 * Bit(v, 6) + 128 * Bit(v, 7)
<1>1. v \in Nat /\ v \div 256 = 0 BY DEF Byte
<1>2. /\ v = 2 * (v \div 2) + (v % 2)
      /\ v \div 2 = 2 * (v \div 4) + ((v \div 2) % 2)
      /\ v \div 4 = 2 * (v \div 8) + ((v \div 4) % 2)
      /\ v \div 8 = 2 * (v \div 16) + ((v \div 8) % 2)
  BY <1>1
<1>3. /\ v \div 16 = 2 * (v \div 32) + ((v \div 16) % 2)
      /\ v \div 32 = 2 * (v \div 64) + ((v \div 32) % 2)
      /\ v \div 64 = 2 * (v \div 128) + ((v \div 64) % 2)
      /\ v \div 128 = 2 * (v \div 256) + ((v \div 128) % 2)
  BY <1>1
<1>4. \A w \in {2, 4, 8, 16, 32, 64, 128, 256} : v \div w \in Int
  BY <1>1
<1>5. ASSUME NEW k \in 0 .. 7 PROVE Bit(v, k) \in Int
  <2>1. Bit(v, k) \in {0, 1} BY <1>1, BitsOf
  <2> QED BY <2>1
<1>6. v = 2 * (v \div 2) + Bit(v, 0) /\ v \div 2 = 2 * (v \div 4) + Bit(v, 1)
  BY <1>1, <1>2, BitsOf
<1>7. v \div 4 = 2 * (v \div 8) + Bit(v, 2) /\ v \div 8 = 2 * (v \div 16) + Bit(v, 3)
  BY <1>1, <1>2, BitsOf
<1>8. v \div 16 = 2 * (v \div 32) + Bit(v, 4) /\ v \div 32 = 2 * (v \div 64) + Bit(v, 5)
  BY <1>1, <1>3, BitsOf
<1>9. v \div 64 = 2 * (v \div 128) + Bit(v, 6) /\ v \div 128 = Bit(v, 7)
  <2>1. v \div 128 \in 0 .. 1 BY DEF Byte
  <2>2. (v \div 128) % 2 = v \div 128 BY <2>1
  <2> QED BY <1>1, <1>3, <2>2, BitsOf
<1> QED BY ONLY <1>4, <1>5, <1>6, <1>7, <1>8, <1>9

\* Bits determine the byte they are the sum of.
LEMMA BitsOfSum ==
    ASSUME NEW a \in {0, 1}, NEW b \in {0, 1}, NEW c \in {0, 1}, NEW d \in {0, 1},
           NEW e \in {0, 1}, NEW f \in {0, 1}, NEW g \in {0, 1}, NEW h \in {0, 1},
           NEW v, v = a + 2 * b + 4 * c + 8 * d + 16 * e + 32 * f + 64 * g + 128 * h
    PROVE  /\ v \in Byte
           /\ Bit(v, 0) = a /\ Bit(v, 1) = b /\ Bit(v, 2) = c /\ Bit(v, 3) = d
           /\ Bit(v, 4) = e /\ Bit(v, 5) = f /\ Bit(v, 6) = g /\ Bit(v, 7) = h
<1>1. v \in Byte /\ v \in Nat BY DEF Byte
<1>2. v % 2 = a /\ (v \div 2) % 2 = b /\ (v \div 4) % 2 = c /\ (v \div 8) % 2 = d
  OBVIOUS
<1>3. (v \div 16) % 2 = e /\ (v \div 32) % 2 = f /\ (v \div 64) % 2 = g /\ (v \div 128) % 2 = h
  OBVIOUS
<1> QED BY <1>1, <1>2, <1>3, BitsOf

\* The number of bits set in a byte.
LEMMA Popcount ==
    ASSUME NEW v \in Byte
    PROVE  popcount_u8(v) \in 0 .. 8
<1>1. v \in Nat BY DEF Byte
<1>2. ASSUME NEW k \in 0 .. 7 PROVE Bit(v, k) \in 0 .. 1
  <2>1. Bit(v, k) \in {0, 1} BY <1>1, BitsOf
  <2> QED BY <2>1
<1> HIDE DEF Bit
<1> QED BY <1>2 DEF popcount_u8

\* Byte v with bit k inverted: another byte.
FlipBit(v, k) == IF Bit(v, k) = 1 THEN v - Weight(k) ELSE v + Weight(k)

\* The count changes with any bit.
LEMMA FlipChangesCount ==
    ASSUME NEW v \in Byte, NEW k \in 0 .. 7
    PROVE  /\ FlipBit(v, k) \in Byte
           /\ popcount_u8(FlipBit(v, k)) # popcount_u8(v)
<1> DEFINE w == FlipBit(v, k)
           b(i) == Bit(v, i)
           x(i) == IF i = k THEN 1 - b(i) ELSE b(i)
<1>1. v \in Nat BY DEF Byte
<1>2. \A i \in 0 .. 7 : b(i) \in {0, 1} BY <1>1, BitsOf
<1>3. \A i \in 0 .. 7 : x(i) \in {0, 1} BY <1>2
<1>4. v = b(0) + 2 * b(1) + 4 * b(2) + 8 * b(3) + 16 * b(4) + 32 * b(5) + 64 * b(6) + 128 * b(7)
  BY SumOfBits
<1>5. k = 0 \/ k = 1 \/ k = 2 \/ k = 3 \/ k = 4 \/ k = 5 \/ k = 6 \/ k = 7
  OBVIOUS
<1>6. w = IF b(k) = 1 THEN v - Weight(k) ELSE v + Weight(k) BY DEF FlipBit
<1> HIDE DEF b, w
<1>7. w = x(0) + 2 * x(1) + 4 * x(2) + 8 * x(3) + 16 * x(4) + 32 * x(5) + 64 * x(6) + 128 * x(7)
  BY <1>2, <1>4, <1>5, <1>6, Weights
<1> HIDE DEF x
<1>8. w \in Byte /\ Bit(w, 0) = x(0) /\ Bit(w, 1) = x(1) /\ Bit(w, 2) = x(2) /\ Bit(w, 3) = x(3)
      /\ Bit(w, 4) = x(4) /\ Bit(w, 5) = x(5) /\ Bit(w, 6) = x(6) /\ Bit(w, 7) = x(7)
  BY <1>3, <1>7, BitsOfSum
<1>9. popcount_u8(w) = x(0) + x(1) + x(2) + x(3) + x(4) + x(5) + x(6) + x(7)
  BY <1>8 DEF popcount_u8
<1>10. popcount_u8(v) = b(0) + b(1) + b(2) + b(3) + b(4) + b(5) + b(6) + b(7)
  BY DEF popcount_u8, b
<1>11. popcount_u8(w) # popcount_u8(v)
  BY <1>2, <1>5, <1>9, <1>10 DEF x
<1> QED BY <1>8, <1>11 DEF w

\* A byte and its nibbles.
LEMMA Nibbles ==
    ASSUME NEW v \in Byte
    PROVE  v % 16 \in 0 .. 15 /\ v \div 16 \in 0 .. 15 /\ v = 16 * (v \div 16) + (v % 16)
BY DEF Byte

\* The byte made of two nibbles gives them back.
LEMMA OfNibbles ==
    ASSUME NEW h \in 0 .. 15, NEW l \in 0 .. 15
    PROVE  16 * h + l \in Byte /\ (16 * h + l) \div 16 = h /\ (16 * h + l) % 16 = l
BY DEF Byte

\* Inverting a bit of one nibble leaves the other nibble as it was.
LEMMA FlipLow ==
    ASSUME NEW v \in Byte, NEW k \in 0 .. 3
    PROVE  /\ FlipBit(v, k) % 16 = FlipBit(v % 16, k)
           /\ FlipBit(v, k) \div 16 = v \div 16
           /\ FlipBit(v, k) % 16 # v % 16
<1>1. v \in Nat /\ v % 16 \in Nat /\ v \in 0 .. 255 BY DEF Byte
<1>2. k = 0 \/ k = 1 \/ k = 2 \/ k = 3 OBVIOUS
<1>3. /\ Bit(v % 16, 0) = Bit(v, 0) /\ Bit(v % 16, 1) = Bit(v, 1)
      /\ Bit(v % 16, 2) = Bit(v, 2) /\ Bit(v % 16, 3) = Bit(v, 3)
  <2>1. (v % 16) % 2 = v % 2 /\ ((v % 16) \div 2) % 2 = (v \div 2) % 2
    BY <1>1
  <2>2. ((v % 16) \div 4) % 2 = (v \div 4) % 2 /\ ((v % 16) \div 8) % 2 = (v \div 8) % 2
    BY <1>1
  <2> DEFINE n == v % 16
  <2>3. n \in Nat BY <1>1
  <2> HIDE DEF n
  <2>4. /\ Bit(n, 0) = n % 2 /\ Bit(n, 1) = (n \div 2) % 2
        /\ Bit(n, 2) = (n \div 4) % 2 /\ Bit(n, 3) = (n \div 8) % 2
    BY <2>3, BitsOf
  <2>5. /\ Bit(v, 0) = v % 2 /\ Bit(v, 1) = (v \div 2) % 2
        /\ Bit(v, 2) = (v \div 4) % 2 /\ Bit(v, 3) = (v \div 8) % 2
    BY <1>1, BitsOf
  <2> QED BY <2>1, <2>2, <2>4, <2>5 DEF n
<1>4. /\ Bit(v, 0) = v % 2 /\ Bit(v, 1) = (v \div 2) % 2
      /\ Bit(v, 2) = (v \div 4) % 2 /\ Bit(v, 3) = (v \div 8) % 2
  BY <1>1, BitsOf
<1>5. CASE k = 0 BY <1>1, <1>3, <1>4, <1>5, Weights DEF FlipBit
<1>6. CASE k = 1 BY <1>1, <1>3, <1>4, <1>6, Weights DEF FlipBit
<1>7. CASE k = 2 BY <1>1, <1>3, <1>4, <1>7, Weights DEF FlipBit
<1>8. CASE k = 3 BY <1>1, <1>3, <1>4, <1>8, Weights DEF FlipBit
<1> QED BY <1>2, <1>5, <1>6, <1>7, <1>8

\* The same for the other nibble.
LEMMA FlipHigh ==
    ASSUME NEW v \in Byte, NEW k \in 4 .. 7
    PROVE  /\ FlipBit(v, k) % 16 = v % 16
           /\ FlipBit(v, k) \div 16 = FlipBit(v \div 16, k - 4)
           /\ FlipBit(v, k) \div 16 # v \div 16
<1>1. v \in Nat /\ v \div 16 \in Nat /\ v \in 0 .. 255 BY DEF Byte
<1>2. k = 4 \/ k = 5 \/ k = 6 \/ k = 7 OBVIOUS
<1>3. /\ Bit(v \div 16, 0) = Bit(v, 4) /\ Bit(v \div 16, 1) = Bit(v, 5)
      /\ Bit(v \div 16, 2) = Bit(v, 6) /\ Bit(v \div 16, 3) = Bit(v, 7)
  <2>1. (v \div 16) \div 2 = v \div 32 /\ (v \div 16) \div 4 = v \div 64 /\ (v \div 16) \div 8 = v \div 128
    BY <1>1
  <2> DEFINE n == v \div 16
  <2>3. n \in Nat BY <1>1
  <2> HIDE DEF n
  <2>4. /\ Bit(n, 0) = n % 2 /\ Bit(n, 1) = (n \div 2) % 2
        /\ Bit(n, 2) = (n \div 4) % 2 /\ Bit(n, 3) = (n \div 8) % 2
    BY <2>3, BitsOf
  <2>5. /\ Bit(v, 4) = (v \div 16) % 2 /\ Bit(v, 5) = (v \div 32) % 2
        /\ Bit(v, 6) = (v \div 64) % 2 /\ Bit(v, 7) = (v \div 128) % 2
    BY <1>1, BitsOf
  <2> QED BY <2>1, <2>4, <2>5 DEF n
<1>4. /\ Bit(v, 4) = (v \div 16) % 2 /\ Bit(v, 5) = (v \div 32) % 2
      /\ Bit(v, 6) = (v \div 64) % 2 /\ Bit(v, 7) = (v \div 128) % 2
  BY <1>1, BitsOf
<1>5. CASE k = 4 BY <1>1, <1>3, <1>4, <1>5, Weights DEF FlipBit
<1>6. CASE k = 5 BY <1>1, <1>3, <1>4, <1>6, Weights DEF FlipBit
<1>7. CASE k = 6 BY <1>1, <1>3, <1>4, <1>7, Weights DEF FlipBit
<1>8. CASE k = 7 BY <1>1, <1>3, <1>4, <1>8, Weights DEF FlipBit
<1> QED BY <1>2, <1>5, <1>6, <1>7, <1>8

\* What a section holds.
SectionSet == [1 .. 7 -> Byte]

\* The checksum is a byte that depends on the counted bytes and nibbles only.
LEMMA ChecksumTyped == ASSUME NEW s \in SectionSet PROVE sec_checksum(s) \in 199 .. 255
<1>1. \A v \in Byte : popcount_u8(v) \in 0 .. 8 BY Popcount
<1>2. /\ s[1] \in Byte /\ s[2] % 16 \in Byte /\ s[3] \div 16 \in Byte
      /\ s[4] \in Byte /\ s[5] \in Byte /\ s[6] \in Byte /\ s[7] \in Byte
  BY DEF SectionSet, Byte
<1> HIDE DEF popcount_u8
<1> QED BY <1>1, <1>2 DEF sec_checksum

\* A fixed section is accepted, and only the checksum's nibbles have changed.
LEMMA FixVerifies ==
    ASSUME NEW s \in SectionSet
    PROVE  /\ fix_checksum(s) \in SectionSet /\ verify(fix_checksum(s))
           /\ \A i \in 1 .. 7 : i \notin {2, 3} => fix_checksum(s)[i] = s[i]
<1> DEFINE cs == sec_checksum(s)
           t  == fix_checksum(s)
           lo == (s[2] % 16) + 16 * (cs % 16)
           hi == 16 * (s[3] \div 16) + (cs \div 16)
<1>1. cs \in 199 .. 255 BY ChecksumTyped
<1>2. t = [s EXCEPT ![2] = lo, ![3] = hi] BY DEF fix_checksum
<1> HIDE DEF cs, t
<1>3. s[2] \in 0 .. 255 /\ s[3] \in 0 .. 255 BY DEF SectionSet, Byte
<1>4. /\ lo \in Byte /\ lo % 16 = s[2] % 16 /\ lo \div 16 = cs % 16
      /\ hi \in Byte /\ hi \div 16 = s[3] \div 16 /\ hi % 16 = cs \div 16
  <2>1. cs \in Byte /\ s[2] \in Byte /\ s[3] \in Byte BY <1>1, <1>3 DEF Byte
  <2>2. cs % 16 \in 0 .. 15 /\ cs \div 16 \in 0 .. 15 BY <2>1, Nibbles
  <2>3. s[2] % 16 \in 0 .. 15 /\ s[3] \div 16 \in 0 .. 15 BY <2>1, Nibbles
  <2>4. lo = 16 * (cs % 16) + (s[2] % 16) BY <2>2, <2>3
  <2> QED BY <2>2, <2>3, <2>4, OfNibbles
<1> HIDE DEF lo, hi
<1>5. /\ t \in SectionSet /\ t[2] = lo /\ t[3] = hi
      /\ \A i \in 1 .. 7 : i \notin {2, 3} => t[i] = s[i]
  BY <1>2, <1>4 DEF SectionSet
<1>6. sec_checksum(t) = cs
  BY <1>4, <1>5 DEF sec_checksum, cs
<1>7. cs = 16 * (cs \div 16) + (cs % 16) BY <1>1
<1> QED BY <1>4, <1>5, <1>6, <1>7 DEF verify, t

\* Inverting one bit of an accepted section makes it unacceptable: either one
\* counted bit more or less, or another stored checksum, never both.
LEMMA FlipDetected ==
    ASSUME NEW s \in SectionSet, verify(s), NEW b \in 1 .. 7, NEW k \in 0 .. 7
    PROVE  ~verify(Flip(s, b, k))
<1> DEFINE t == Flip(s, b, k)
           P(v) == popcount_u8(v)
<1>1. /\ t = [s EXCEPT ![b] = FlipBit(s[b], k)] /\ s[b] \in Byte
      /\ \A i \in 1 .. 7 : s[i] \in Byte
  BY DEF Flip, FlipBit, SectionSet
<1>2. t[b] = FlipBit(s[b], k) /\ FlipBit(s[b], k) \in Byte /\ \A i \in 1 .. 7 : i # b => t[i] = s[i]
  BY <1>1, FlipChangesCount DEF SectionSet
<1>3. t \in SectionSet BY <1>1, <1>2 DEF SectionSet
<1>4. sec_checksum(s) = 16 * (s[3] % 16) + (s[2] \div 16) BY DEF verify
<1>5. \A v \in Byte : P(v) \in Int BY Popcount
<1>6. /\ s[2] % 16 \in Byte /\ s[3] \div 16 \in Byte /\ t[2] % 16 \in Byte /\ t[3] \div 16 \in Byte
  <2>1. \A v \in Byte : v % 16 \in Byte /\ v \div 16 \in Byte BY DEF Byte
  <2> QED BY <1>1, <1>3, <2>1 DEF SectionSet
<1>7. \A i \in 1 .. 7 : P(s[i]) \in Int /\ P(t[i]) \in Int BY <1>1, <1>3, <1>5 DEF SectionSet
<1>8. /\ P(s[2] % 16) \in Int /\ P(s[3] \div 16) \in Int
      /\ P(t[2] % 16) \in Int /\ P(t[3] \div 16) \in Int
  BY <1>5, <1>6
<1> DEFINE Sum(u) == P(u[1]) + P(u[2] % 16) + P(u[3] \div 16)
                     + P(u[4]) + P(u[5]) + P(u[6]) + P(u[7])
<1>9. sec_checksum(s) = 255 - Sum(s) /\ sec_checksum(t) = 255 - Sum(t)
  BY DEF sec_checksum
<1> HIDE DEF t, P
<1>10. CASE b \notin {2, 3}
  <2>1. P(t[b]) # P(s[b]) BY <1>1, <1>2, FlipChangesCount DEF P
  <2>2. Sum(t) # Sum(s) BY <1>2, <1>7, <1>8, <1>10, <2>1
  <2>3. t[2] = s[2] /\ t[3] = s[3] BY <1>2, <1>10
  <2>4. Sum(t) \in Int /\ Sum(s) \in Int BY <1>7, <1>8
  <2> HIDE DEF Sum
  <2> QED BY <1>4, <1>9, <2>2, <2>3, <2>4 DEF verify, t
<1>11. CASE b = 2 /\ k \in 0 .. 3
  <2>1. t[2] \div 16 = s[2] \div 16 /\ t[2] % 16 = FlipBit(s[2] % 16, k)
    BY <1>1, <1>2, <1>11, FlipLow
  <2>2. P(t[2] % 16) # P(s[2] % 16) BY <1>6, <2>1, FlipChangesCount DEF P
  <2>3. Sum(t) # Sum(s) BY <1>2, <1>7, <1>8, <1>11, <2>2
  <2>4. Sum(t) \in Int /\ Sum(s) \in Int BY <1>7, <1>8
  <2>5. t[3] = s[3] BY <1>2, <1>11
  <2> HIDE DEF Sum
  <2> QED BY <1>4, <1>9, <2>1, <2>3, <2>4, <2>5 DEF verify, t
<1>12. CASE b = 2 /\ k \in 4 .. 7
  <2>1. t[2] % 16 = s[2] % 16 /\ t[2] \div 16 # s[2] \div 16
    BY <1>1, <1>2, <1>12, FlipHigh
  <2>2. Sum(t) = Sum(s) BY <1>2, <1>12, <2>1
  <2>3. t[3] = s[3] /\ t[3] \in 0 .. 255 /\ t[2] \in 0 .. 255 /\ s[2] \in 0 .. 255
    BY <1>2, <1>3, <1>12 DEF SectionSet, Byte
  <2> HIDE DEF Sum
  <2>4. sec_checksum(t) = 16 * (s[3] % 16) + (s[2] \div 16) BY <1>4, <1>9, <2>2
  <2>5. 16 * (s[3] % 16) + (s[2] \div 16) # 16 * (t[3] % 16) + (t[2] \div 16)
    <3>1. s[2] \div 16 \in 0 .. 15 /\ t[2] \div 16 \in 0 .. 15 /\ s[3] % 16 \in 0 .. 15 BY <2>3
    <3> QED BY <2>1, <2>3, <3>1
  <2> QED BY <2>4, <2>5 DEF verify, t
<1>13. CASE b = 3 /\ k \in 0 .. 3
  <2>1. t[3] \div 16 = s[3] \div 16 /\ t[3] % 16 # s[3] % 16
    BY <1>1, <1>2, <1>13, FlipLow
  <2>2. Sum(t) = Sum(s) BY <1>2, <1>13, <2>1
  <2>3. t[2] = s[2] /\ t[3] \in 0 .. 255 /\ t[2] \in 0 .. 255 /\ s[3] \in 0 .. 255
    BY <1>2, <1>3, <1>13 DEF SectionSet, Byte
  <2> HIDE DEF Sum
  <2>4. sec_checksum(t) = 16 * (s[3] % 16) + (s[2] \div 16) BY <1>4, <1>9, <2>2
  <2>5. 16 * (s[3] % 16) + (s[2] \div 16) # 16 * (t[3] % 16) + (t[2] \div 16)
    <3>1. s[2] \div 16 \in 0 .. 15 /\ t[3] % 16 \in 0 .. 15 /\ s[3] % 16 \in 0 .. 15 BY <2>3
    <3> QED BY <2>1, <2>3, <3>1
  <2> QED BY <2>4, <2>5 DEF verify, t
<1>14. CASE b = 3 /\ k \in 4 .. 7
  <2>1. /\ t[3] % 16 = s[3] % 16 /\ t[3] \div 16 = FlipBit(s[3] \div 16, k - 4)
        /\ k - 4 \in 0 .. 7
    BY <1>1, <1>2, <1>14, FlipHigh
  <2>2. P(t[3] \div 16) # P(s[3] \div 16) BY <1>6, <2>1, FlipChangesCount DEF P
  <2>3. Sum(t) # Sum(s)
    <3>1. /\ t[1] = s[1] /\ t[2] = s[2] /\ t[4] = s[4] /\ t[5] = s[5] /\ t[6] = s[6]
          /\ t[7] = s[7]
      BY <1>2, <1>14
    <3> DEFINE p == P(s[3] \div 16)
               q == P(t[3] \div 16)
               rest == P(s[1]) + P(s[2] % 16) + P(s[4]) + P(s[5]) + P(s[6]) + P(s[7])
    <3>2. rest \in Int BY <1>7, <1>8
    <3>3. Sum(s) = rest + p BY <1>7, <1>8
    <3>4. Sum(t) = rest + q BY <1>7, <1>8, <3>1
    <3>5. p \in Int /\ q \in Int /\ p # q BY <1>8, <2>2
    <3> HIDE DEF rest, Sum, p, q
    <3> QED BY <3>2, <3>3, <3>4, <3>5
  <2>4. Sum(t) \in Int /\ Sum(s) \in Int BY <1>7, <1>8
  <2>5. t[2] = s[2] BY <1>2, <1>14
  <2> HIDE DEF Sum
  <2> QED BY <1>4, <1>9, <2>1, <2>3, <2>4, <2>5 DEF verify, t
<1> QED BY <1>10, <1>11, <1>12, <1>13, <1>14

\* Functions on 1 .. n are sequences of that length.
LEMMA FcnIsSeq ==
    ASSUME NEW S, NEW n \in Nat, NEW f \in [1 .. n -> S]
    PROVE  f \in Seq(S) /\ Len(f) = n
<1>1. f \in Seq(S) BY SeqDef
<1>2. Len(f) \in Nat /\ 1 .. Len(f) = 1 .. n BY <1>1, LenProperties
<1> QED BY <1>1, <1>2

\* A section of a frame is seven of its bytes.
LEMMA SectionOf ==
    ASSUME NEW n \in Nat, NEW data \in [1 .. 7 * n -> Byte], NEW i \in 0 .. n - 1
    PROVE  /\ Section(data, i) \in SectionSet
           /\ \A k \in 1 .. 7 : Section(data, i)[k] = data[7 * i + k]
<1> DEFINE lo == 7 * i + 1
           hi == 7 * i + 7
           s  == Section(data, i)
<1>1. lo \in Int /\ hi \in Int /\ lo <= hi /\ hi - lo + 1 = 7 OBVIOUS
<1>2. ASSUME NEW j \in lo .. hi PROVE data[j] \in Byte
  <2>1. j \in 1 .. 7 * n OBVIOUS
  <2> QED BY <2>1
<1>3. \A k \in 1 .. 7 : lo + k - 1 = 7 * i + k OBVIOUS
<1>4. s = SubSeq(data, lo, hi) BY DEF Section
<1> HIDE DEF lo, hi, s
<1>5. /\ s \in Seq(Byte) /\ Len(s) = 7
      /\ \A k \in 1 .. 7 : s[k] = data[7 * i + k]
  <2>1. /\ s \in Seq(Byte)
        /\ Len(s) = IF lo <= hi THEN hi - lo + 1 ELSE 0
        /\ \A k \in 1 .. hi - lo + 1 : s[k] = data[lo + k - 1]
    BY <1>1, <1>2, <1>4, SubSeqProperties
  <2> QED BY <1>1, <1>3, <2>1
<1>6. s \in [1 .. 7 -> Byte] BY <1>5, LenProperties
<1> QED BY <1>5, <1>6 DEF s, SectionSet

\* The least of one number.
LEMMA MinOfOne == ASSUME NEW a \in Int PROVE Min({a}) = a
<1>1. \E x \in {a} : \A y \in {a} : x <= y OBVIOUS
<1> QED BY <1>1 DEF Min

\* The least of two.
LEMMA MinOfTwo == ASSUME NEW a \in Int, NEW b \in Int PROVE Min({a, b}) = IF a <= b THEN a ELSE b
<1>1. \E x \in {a, b} : \A y \in {a, b} : x <= y OBVIOUS
<1> QED BY <1>1 DEF Min

\* The greatest of two.
LEMMA MaxOfTwo == ASSUME NEW a \in Int, NEW b \in Int PROVE Max({a, b}) = IF a >= b THEN a ELSE b
<1>1. \E x \in {a, b} : \A y \in {a, b} : x >= y OBVIOUS
<1> QED BY <1>1 DEF Max

\* Two sections one after the other, and a frame of two sections.
LEMMA TwoSections ==
    ASSUME NEW a \in SectionSet, NEW b \in SectionSet
    PROVE  /\ Len(a \o b) = 14 /\ Section(a \o b, 0) = a /\ Section(a \o b, 1) = b
           /\ \A i \in 1 .. 14 : (a \o b)[i] = IF i <= 7 THEN a[i] ELSE b[i - 7]
<1>1. a \in Seq(Byte) /\ b \in Seq(Byte) /\ Len(a) = 7 /\ Len(b) = 7
  BY FcnIsSeq DEF SectionSet
<1> DEFINE u == a \o b
<1>2. u \in Seq(Byte) /\ Len(u) = 14 /\ \A i \in 1 .. 14 : u[i] = IF i <= 7 THEN a[i] ELSE b[i - 7]
  <2>1. /\ u \in Seq(Byte) /\ Len(u) = Len(a) + Len(b)
        /\ \A i \in 1 .. Len(a) + Len(b) : u[i] = IF i <= Len(a) THEN a[i] ELSE b[i - Len(a)]
    BY <1>1, ConcatProperties
  <2> HIDE DEF u
  <2> QED BY <1>1, <2>1
<1> HIDE DEF u
<1>3. u \in [1 .. 7 * 2 -> Byte]
  <2>1. u \in [1 .. Len(u) -> Byte] BY <1>2, LenProperties
  <2> QED BY <1>2, <2>1
<1>4. ASSUME NEW i \in 0 .. 2 - 1
      PROVE  /\ Section(u, i) \in SectionSet
             /\ \A k \in 1 .. 7 : Section(u, i)[k] = u[7 * i + k]
  BY <1>3, SectionOf
<1>5. Section(u, 0) = a
  <2>1. Section(u, 0) \in SectionSet /\ \A k \in 1 .. 7 : Section(u, 0)[k] = u[7 * 0 + k] BY <1>4
  <2>2. \A k \in 1 .. 7 : Section(u, 0)[k] = a[k] BY <1>2, <2>1
  <2> QED BY <2>1, <2>2 DEF SectionSet
<1>6. Section(u, 1) = b
  <2>1. Section(u, 1) \in SectionSet /\ \A k \in 1 .. 7 : Section(u, 1)[k] = u[7 * 1 + k] BY <1>4
  <2>2. \A k \in 1 .. 7 : Section(u, 1)[k] = b[k] BY <1>2, <2>1
  <2> QED BY <2>1, <2>2 DEF SectionSet
<1> QED BY <1>2, <1>5, <1>6 DEF u

\* samsung_set_temp_c_locked keeps the cached state acceptable, whatever it holds.
LEMMA SetTemp ==
    ASSUME NEW state \in [1 .. 14 -> Byte], NEW c \in Byte
    PROVE  LET st == set_temp_c(state, c)
           IN  /\ verify_all(st)
               /\ get_temp_c(st) = Max({16, Min({30, c})})
               /\ \A i \in 1 .. 14 : i \notin {2, 3, 9, 10, 12} => st[i] = state[i]
<1> DEFINE nib == (IF c < 16 THEN 16 ELSE IF c > 30 THEN 30 ELSE c) - 16
           new == (state[12] % 16) + 16 * nib
           mid == [state EXCEPT ![12] = new]
           a   == fix_checksum(Section(mid, 0))
           b   == fix_checksum(Section(mid, 1))
           st  == set_temp_c(state, c)
<1>1. nib \in 0 .. 15 /\ nib + 16 = Max({16, Min({30, c})})
  <2>1. c \in Int BY DEF Byte
  <2> DEFINE m == Min({30, c})
  <2>2. m = (IF 30 <= c THEN 30 ELSE c) BY <2>1, MinOfTwo
  <2> HIDE DEF m
  <2>3. Max({16, m}) = IF 16 >= m THEN 16 ELSE m BY <2>1, <2>2, MaxOfTwo
  <2>4. c \in 0 .. 255 BY DEF Byte
  <2> QED BY <2>2, <2>3, <2>4 DEF m
<1>2. st = a \o b BY DEF set_temp_c
<1> HIDE DEF nib
<1>3. new \in Byte /\ new \div 16 = nib
  <2>1. state[12] % 16 \in 0 .. 15 BY Nibbles
  <2>2. new = 16 * nib + (state[12] % 16) BY <1>1, <2>1
  <2> QED BY <1>1, <2>1, <2>2, OfNibbles
<1> HIDE DEF new
<1>4. mid \in [1 .. 7 * 2 -> Byte] /\ mid[12] = new /\ \A i \in 1 .. 14 : i # 12 => mid[i] = state[i]
  BY <1>3
<1> HIDE DEF mid, a, b, st
<1>5. ASSUME NEW i \in 0 .. 2 - 1
      PROVE  /\ Section(mid, i) \in SectionSet
             /\ \A k \in 1 .. 7 : Section(mid, i)[k] = mid[7 * i + k]
  BY <1>4, SectionOf
<1>6. /\ a \in SectionSet /\ verify(a)
      /\ \A k \in 1 .. 7 : k \notin {2, 3} => a[k] = mid[k]
  <2>1. Section(mid, 0) \in SectionSet /\ \A k \in 1 .. 7 : Section(mid, 0)[k] = mid[7 * 0 + k] BY <1>5
  <2>2. \A k \in 1 .. 7 : 7 * 0 + k = k OBVIOUS
  <2> QED BY <2>1, <2>2, FixVerifies DEF a
<1>7. /\ b \in SectionSet /\ verify(b)
      /\ \A k \in 1 .. 7 : k \notin {2, 3} => b[k] = mid[7 + k]
  <2>1. Section(mid, 1) \in SectionSet /\ \A k \in 1 .. 7 : Section(mid, 1)[k] = mid[7 * 1 + k] BY <1>5
  <2>2. \A k \in 1 .. 7 : 7 * 1 + k = 7 + k OBVIOUS
  <2> QED BY <2>1, <2>2, FixVerifies DEF b
<1>8. /\ Len(st) = 14 /\ Section(st, 0) = a /\ Section(st, 1) = b
      /\ \A i \in 1 .. 14 : st[i] = IF i <= 7 THEN a[i] ELSE b[i - 7]
  BY <1>2, <1>6, <1>7, TwoSections
<1>9. verify_all(st)
  <2>1. \A i \in 0 .. (14 \div 7) - 1 : i = 0 \/ i = 1 OBVIOUS
  <2> QED BY <1>6, <1>7, <1>8, <2>1 DEF verify_all
<1>10. get_temp_c(st) = nib + 16
  <2>1. st[12] = b[5] /\ b[5] = mid[12] BY <1>7, <1>8
  <2> QED BY <1>3, <1>4, <2>1 DEF get_temp_c
<1>11. ASSUME NEW i \in 1 .. 14, i \notin {2, 3, 9, 10, 12} PROVE st[i] = state[i]
  <2>1. mid[i] = state[i] BY <1>4, <1>11
  <2>2. CASE i <= 7 BY <1>6, <1>8, <1>11, <2>1, <2>2
  <2>3. CASE i > 7
    <3>1. i - 7 \in 1 .. 7 /\ i - 7 \notin {2, 3} /\ 7 + (i - 7) = i BY <1>11, <2>3
    <3> QED BY <1>7, <1>8, <2>1, <2>3, <3>1
  <2> QED BY <2>2, <2>3
<1> QED BY <1>1, <1>9, <1>10, <1>11 DEF st

\* The sample sent never changes, and what was decoded is what ir_decode makes of
\* it.
DecIInv ==
    /\ sample \in Samples
    /\ decoded = Pending \/ decoded = ir_decode(Captured(sample))

\* Decode is the only action that touches either.
LEMMA DecInvariant == DecSpec => []DecIInv
<1>1. DecInit => DecIInv BY DEF DecInit, DecIInv
<1>2. DecIInv /\ [DecNext]_dec_vars => DecIInv'
  BY DEF DecIInv, DecNext, Decode, FrameCb, dec_vars, assembly
<1> QED BY <1>1, <1>2, PTL DEF DecSpec

\* samsung_ac fix_checksum makes a section of any content acceptable, any single
\* wrong bit makes it unacceptable again, and setting any temperature of the
\* cached state changes only the temperature and the checksums.
THEOREM ChecksumsGuard == DecSpec => []ChecksumGuards
<1>1. DecIInv => ChecksumGuards
  <2> SUFFICES ASSUME DecIInv, sample.kind = "SAMSUNG_AC" PROVE ChecksumGuards
    BY DEF ChecksumGuards
  <2>1. PICK nsec \in 1 .. 3 : sample.bytes \in [1 .. 7 * nsec -> Byte]
    BY SamplesAssumption DEF DecIInv
  <2>2. Len(sample.bytes) = 7 * nsec /\ (7 * nsec) \div 7 = nsec /\ nsec \in Nat
    BY <2>1
  <2>3. ASSUME NEW i \in 0 .. nsec - 1
        PROVE  LET s == fix_checksum(Section(sample.bytes, i))
               IN  verify(s) /\ \A b \in 1 .. 7, k \in 0 .. 7 : ~verify(Flip(s, b, k))
    <3>1. Section(sample.bytes, i) \in SectionSet BY <2>1, <2>2, SectionOf
    <3> QED BY <3>1, FixVerifies, FlipDetected
  <2>4. ASSUME Len(sample.bytes) = 14, NEW c \in Byte
        PROVE  LET st == set_temp_c(sample.bytes, c)
               IN  /\ verify_all(st)
                   /\ get_temp_c(st) = Max({16, Min({30, c})})
                   /\ \A i \in 1 .. 14 : i \notin {2, 3, 9, 10, 12} => st[i] = sample.bytes[i]
    <3>1. sample.bytes \in [1 .. 14 -> Byte] BY <2>1, <2>2, <2>4
    <3> QED BY <3>1, SetTemp
  <2> QED BY <2>2, <2>3, <2>4 DEF ChecksumGuards
<1> QED BY <1>1, DecInvariant, PTL

-----------------------------------------------------------------------------
(***************************************************************************)
(* The codec: Samsung frames.  A frame of n sections that was heard with   *)
(* every symbol off by at most a quarter has SacFrame; both decoders read  *)
(* such a frame back.                                                      *)
(***************************************************************************)
\* A nonempty set of numbers has a least element.
LEMMA MinExists ==
    ASSUME NEW T \in SUBSET Nat, T # {}
    PROVE  Min(T) \in T /\ \A y \in T : Min(T) <= y
<1> DEFINE R == OpToRel(<, Nat)
<1>1. IsWellFoundedOn(R, Nat) BY NatLessThanWellFounded
<1>2. \A x, y \in Nat : x < y => <<x, y>> \in R BY DEF OpToRel
<1> HIDE DEF R
<1>3. PICK x \in T : \A y \in T : ~(<<y, x>> \in R) BY <1>1, WFMin
<1>4. ASSUME NEW y \in T PROVE x <= y
  <2>1. x \in Nat /\ y \in Nat OBVIOUS
  <2>2. ~(y < x) BY <1>2, <1>3, <2>1
  <2> QED BY <2>1, <2>2
<1> QED BY <1>4 DEF Min

\* A symbol as the receiver measures it.
SymSet == [mark : Nat, space : Nat]

\* The symbols heard: every mark, and every space but the last, is off by at
\* most a quarter.
Heard(syms, air) ==
    /\ syms \in [1 .. Len(air) -> SymSet]
    /\ \A i \in 1 .. Len(air) : in_range(syms[i].mark, air[i].mark)
    /\ \A i \in 1 .. Len(air) : i # Len(air) => in_range(syms[i].space, air[i].space)

\* A byte is read back from its bits.
LEMMA ByteOfBits ==
    ASSUME NEW v \in Byte, NEW p \in Nat, NEW bits, \A j \in 0 .. 7 : bits[p + j] = Bit(v, j)
    PROVE  ByteOf(bits, p) = v
<1>1. p + 0 = p OBVIOUS
<1>2. /\ bits[p] = Bit(v, 0) /\ bits[p + 1] = Bit(v, 1) /\ bits[p + 2] = Bit(v, 2)
      /\ bits[p + 3] = Bit(v, 3) /\ bits[p + 4] = Bit(v, 4) /\ bits[p + 5] = Bit(v, 5)
      /\ bits[p + 6] = Bit(v, 6) /\ bits[p + 7] = Bit(v, 7)
  BY <1>1
<1> QED BY <1>2, SumOfBits DEF ByteOf

\* The space of a bit of a Samsung section.
SacSpace(x) == IF x = 1 THEN 1432 ELSE 436

\* Heard within the tolerance, a bit is well formed, read as it was sent, and not
\* mistaken for a section header.
LEMMA SacBitHeard ==
    ASSUME NEW x \in {0, 1}, NEW sym \in SymSet, in_range(sym.mark, 586),
           in_range(sym.space, SacSpace(x))
    PROVE  SacBitOk(sym) /\ SacBit(sym) = x /\ ~Matches(sym, SecSym)
BY DEF SacSpace, SacBitOk, SacBit, in_range, Matches, SecSym, Sym, SymSet

\* The header and at least max more symbols; these are bits; they are read.
Symbols(syms, max) == \E N \in Nat : N >= max + 1 /\ syms \in [1 .. N -> SymSet]
AllBits(syms, mark, zero, one, max) ==
    \A i \in 2 .. max + 1 :
        /\ in_range(syms[i].mark, mark)
        /\ in_range(syms[i].space, zero) \/ in_range(syms[i].space, one)
Measured(syms, max) == \A i \in 2 .. max + 1 : syms[i].space # 0
FullCount(syms, mark, zero, one, max) == Len(decode_space_bits(syms, mark, zero, one, max)) = max
BitsRead(syms, mark, zero, one, max) ==
    decode_space_bits(syms, mark, zero, one, max)
      = [k \in 1 .. max |-> IF in_range(syms[k + 1].space, zero) THEN 0 ELSE 1]

\* decode_space_bits reads every bit of a frame whose bits are all well formed.
LEMMA SpaceBitsRead ==
    ASSUME NEW max \in Nat, NEW syms, Symbols(syms, max),
           NEW mark \in Nat, NEW zero \in Nat, NEW one \in Nat,
           AllBits(syms, mark, zero, one, max)
    PROVE  BitsRead(syms, mark, zero, one, max)
<1>0. PICK N \in Nat : N >= max + 1 /\ syms \in [1 .. N -> SymSet] BY DEF Symbols
<1> DEFINE MarkOk(i) == in_range(syms[i].mark, mark)
           IsBit(i)  == MarkOk(i) /\ (in_range(syms[i].space, zero) \/ in_range(syms[i].space, one))
           last == Min({Len(syms), max + 1})
           stop == Min({i \in 2 .. last : ~IsBit(i)} \cup {last + 1})
           n    == IF stop <= last /\ MarkOk(stop) /\ syms[stop].space = 0 THEN stop - 1 ELSE stop - 2
           d    == decode_space_bits(syms, mark, zero, one, max)
<1>1. Len(syms) = N BY <1>0, FcnIsSeq
<1>2. last = max + 1 BY <1>0, <1>1, MinOfTwo
<1>3. d = [k \in 1 .. n |-> IF k + 1 < stop /\ ~in_range(syms[k + 1].space, zero) THEN 1 ELSE 0]
  BY DEF decode_space_bits
<1> HIDE DEF last, d, IsBit
<1>4. \A i \in 2 .. last : IsBit(i) BY <1>2 DEF IsBit, AllBits
<1>5. {i \in 2 .. last : ~IsBit(i)} \cup {last + 1} = {last + 1} BY <1>4
<1>6. last + 1 \in Int BY <1>2
<1>7. stop = last + 1 BY <1>5, <1>6, MinOfOne
<1> HIDE DEF stop
<1>8. n = max BY <1>2, <1>7
<1> HIDE DEF n
<1> QED BY <1>2, <1>3, <1>7, <1>8 DEF d, BitsRead

\* Conversely, a full count of bits means that they were all well formed.
LEMMA SpaceBitsFull ==
    ASSUME NEW max \in Nat, NEW syms, Symbols(syms, max),
           NEW mark \in Nat, NEW zero \in Nat, NEW one \in Nat,
           Measured(syms, max),
           FullCount(syms, mark, zero, one, max)
    PROVE  AllBits(syms, mark, zero, one, max)
<1>0. PICK N \in Nat : N >= max + 1 /\ syms \in [1 .. N -> SymSet] BY DEF Symbols
<1> DEFINE MarkOk(i) == in_range(syms[i].mark, mark)
           IsBit(i)  == MarkOk(i) /\ (in_range(syms[i].space, zero) \/ in_range(syms[i].space, one))
           last == Min({Len(syms), max + 1})
           stops == {i \in 2 .. last : ~IsBit(i)} \cup {last + 1}
           stop == Min(stops)
           n    == IF stop <= last /\ MarkOk(stop) /\ syms[stop].space = 0 THEN stop - 1 ELSE stop - 2
           e(k) == IF k + 1 < stop /\ ~in_range(syms[k + 1].space, zero) THEN 1 ELSE 0
           d    == decode_space_bits(syms, mark, zero, one, max)
<1>1. Len(syms) = N BY <1>0, FcnIsSeq
<1>2. last = max + 1 BY <1>0, <1>1, MinOfTwo
<1>3. d = [k \in 1 .. n |-> e(k)]
  BY DEF decode_space_bits
<1> HIDE DEF last, d, MarkOk, IsBit
<1>4. stops \in SUBSET Nat /\ stops # {} /\ \A i \in stops : i \in 2 .. max + 2 BY <1>2
<1>5. stop \in stops /\ \A i \in stops : stop <= i BY <1>4, MinExists
<1>6. stop \in 2 .. max + 2 BY <1>4, <1>5
<1> HIDE DEF stops, stop
<1>7. n = stop - 2 BY <1>2, <1>6 DEF Measured
<1>8. n \in Nat BY <1>6, <1>7
<1> HIDE DEF n
<1>9. d \in [1 .. n -> {0, 1}] BY <1>3
<1>10. Len(d) = n BY <1>8, <1>9, FcnIsSeq
<1>11. stop = max + 2 BY <1>6, <1>7, <1>10 DEF d, FullCount
<1>12. \A i \in 2 .. max + 1 : IsBit(i) BY <1>2, <1>5, <1>11 DEF stops
<1> QED BY <1>12 DEF IsBit, MarkOk, AllBits

\* Without its first element.
LEMMA TailOfCons ==
    ASSUME NEW S, NEW x \in S, NEW f \in Seq(S)
    PROVE  Tail(<<x>> \o f) = f
<1> DEFINE g == <<x>> \o f
           h == Tail(g)
<1>1. <<x>> \in Seq(S) /\ Len(<<x>>) = 1 /\ <<x>>[1] = x OBVIOUS
<1>2. Len(f) \in Nat BY LenProperties
<1>3. /\ g \in Seq(S) /\ Len(g) = Len(<<x>>) + Len(f)
      /\ \A i \in 1 .. Len(<<x>>) + Len(f) :
            g[i] = IF i <= Len(<<x>>) THEN <<x>>[i] ELSE f[i - Len(<<x>>)]
  BY <1>1, ConcatProperties
<1> HIDE DEF g
<1>4. g # <<>> /\ Len(g) = 1 + Len(f) BY <1>1, <1>2, <1>3
<1>5. h \in Seq(S) /\ Len(h) = Len(g) - 1 /\ \A i \in 1 .. Len(h) : h[i] = g[i + 1]
  BY <1>3, <1>4, HeadTailProperties
<1> HIDE DEF h
<1>6. Len(h) = Len(f) BY <1>2, <1>4, <1>5
<1>7. ASSUME NEW i \in 1 .. Len(h) PROVE h[i] = f[i]
  <2>1. i + 1 \in 1 .. Len(<<x>>) + Len(f) /\ i + 1 > 1 BY <1>1, <1>2, <1>6
  <2>2. g[i + 1] = f[i + 1 - 1] BY <1>1, <1>3, <2>1
  <2>3. i + 1 - 1 = i BY <1>2, <1>6
  <2> QED BY <1>5, <2>2, <2>3
<1>8. h = f BY <1>5, <1>6, <1>7, SeqEqual
<1> QED BY <1>8 DEF g, h

\* Where symbol k of section s is in a frame, and which bit it carries.
SacPos(s, k) == 58 * s + 1 + k
SacBitOf(by, s, k) == Bit(by[7 * s + ((k - 1) \div 8) + 1], (k - 1) % 8)

\* What the encoder puts on the air for n sections, place by place.
SacAir(air, by, n) ==
    /\ air \in Seq(SymSet) /\ Len(air) = 58 * n
    /\ \A s \in 0 .. n - 1 :
          /\ air[SacPos(s, 0)] = SecSym
          /\ \A k \in 1 .. 56 : air[SacPos(s, k)] = Sym(586, SacSpace(SacBitOf(by, s, k)))
          /\ air[SacPos(s, 57)].mark = 586

\* encode gives exactly that, and Tail drops the frame's header.
LEMMA SamsungOnAir ==
    ASSUME NEW n \in Nat, n >= 1, NEW smp, smp.kind = "SAMSUNG_AC", smp.bytes \in [1 .. 7 * n -> Byte]
    PROVE  SacAir(OnAir(smp), smp.bytes, n)
<1> DEFINE by == smp.bytes
           nsec == Len(by) \div 7
           At(s, k) ==
             CASE k = 0  -> SecSym
               [] k = 57 -> Sym(586, IF s + 1 < nsec THEN 2886 ELSE 20000)
               [] OTHER  -> Sym(586, IF Bit(by[7 * s + ((k - 1) \div 8) + 1], (k - 1) % 8) = 1
                                     THEN 1432 ELSE 436)
           f == [m \in 1 .. 58 * nsec |-> At((m - 1) \div 58, (m - 1) % 58)]
           air == OnAir(smp)
<1>1. Len(by) = 7 * n /\ (7 * n) \div 7 = n BY FcnIsSeq
<1>2. nsec = n BY <1>1
<1>3. air = Tail(<<HdrSym>> \o f)
  <2>1. air = Tail(encode(by)) BY DEF OnAir
  <2>2. encode(by) = <<HdrSym>> \o f BY DEF encode
  <2> QED BY <2>1, <2>2
<1> HIDE DEF nsec, by, air
<1>4. \A s, k : At(s, k) \in SymSet
  BY DEF SymSet, Sym, SecSym
<1> HIDE DEF At
<1>5. f \in [1 .. 58 * n -> SymSet] BY <1>2, <1>4
<1>6. f \in Seq(SymSet) /\ Len(f) = 58 * n
  <2>1. 58 * n \in Nat OBVIOUS
  <2> HIDE DEF f
  <2> QED BY <1>5, <2>1, FcnIsSeq
<1>7. HdrSym \in SymSet BY DEF HdrSym, Sym, SymSet
<1>8. air = f
  <2> HIDE DEF f
  <2> QED BY <1>3, <1>6, <1>7, TailOfCons
<1>9. ASSUME NEW s \in 0 .. n - 1, NEW k \in 0 .. 57 PROVE air[SacPos(s, k)] = At(s, k)
  <2> DEFINE p == SacPos(s, k)
  <2>1. p \in 1 .. 58 * n /\ (p - 1) \div 58 = s /\ (p - 1) % 58 = k BY DEF SacPos
  <2> HIDE DEF p
  <2>2. f[p] = At((p - 1) \div 58, (p - 1) % 58) BY <1>2, <2>1
  <2> QED BY <1>8, <2>1, <2>2 DEF p
<1>10. ASSUME NEW s \in 0 .. n - 1
       PROVE  /\ air[SacPos(s, 0)] = SecSym
              /\ \A k \in 1 .. 56 : air[SacPos(s, k)] = Sym(586, SacSpace(SacBitOf(by, s, k)))
              /\ air[SacPos(s, 57)].mark = 586
  <2>1. air[SacPos(s, 0)] = At(s, 0) /\ air[SacPos(s, 57)] = At(s, 57) BY <1>9
  <2>2. At(s, 0) = SecSym BY DEF At
  <2>3. At(s, 57).mark = 586 BY DEF At, Sym
  <2>4. ASSUME NEW k \in 1 .. 56
        PROVE  air[SacPos(s, k)] = Sym(586, SacSpace(SacBitOf(by, s, k)))
    <3>1. k # 0 /\ k # 57 /\ k \in 0 .. 57 OBVIOUS
    <3>2. air[SacPos(s, k)] = At(s, k) BY <1>9, <3>1
    <3>3. At(s, k) = Sym(586, SacSpace(SacBitOf(by, s, k)))
      BY <3>1 DEF At, SacBitOf, SacSpace
    <3> QED BY <3>2, <3>3
  <2>5. air[SacPos(s, 57)].mark = 586 BY <2>1, <2>3
  <2> QED BY <2>1, <2>2, <2>4, <2>5
<1> QED BY <1>6, <1>8, <1>10 DEF air, by, SacAir

\* Positions are within the frame, and only a section's foot ends it.
LEMMA SacPosTyped ==
    ASSUME NEW n \in Nat, NEW s \in 0 .. n - 1, NEW k \in 0 .. 57
    PROVE  SacPos(s, k) \in 1 .. 58 * n /\ (k # 57 => SacPos(s, k) # 58 * n)
BY DEF SacPos

\* Every bit sent is a bit of a byte of the frame.
LEMMA SacBitTyped ==
    ASSUME NEW n \in Nat, NEW by \in [1 .. 7 * n -> Byte], NEW s \in 0 .. n - 1, NEW k \in 1 .. 56
    PROVE  SacBitOf(by, s, k) \in {0, 1}
<1> DEFINE i == 7 * s + ((k - 1) \div 8) + 1
           j == (k - 1) % 8
<1>1. (k - 1) \div 8 \in 0 .. 6 /\ j \in 0 .. 7 OBVIOUS
<1>2. 7 * s + 7 <= 7 * n /\ 7 * s \in Nat OBVIOUS
<1>3. i \in 1 .. 7 * n BY <1>1, <1>2
<1> HIDE DEF i, j
<1>4. by[i] \in Byte BY <1>3
<1>5. by[i] \in Nat
  <2>1. \A v \in Byte : v \in Nat BY DEF Byte
  <2> QED BY <1>4, <2>1
<1>6. Bit(by[i], j) \in {0, 1} BY <1>1, <1>5, BitsOf
<1> QED BY <1>6 DEF SacBitOf, i, j

\* The bits of byte b of section s.
LEMMA SacBitIs ==
    ASSUME NEW by, NEW s \in Nat, NEW b \in 1 .. 7, NEW j \in 0 .. 7
    PROVE  SacBitOf(by, s, 8 * b - 7 + j) = Bit(by[7 * s + b], j)
<1>1. (8 * b - 7 + j - 1) \div 8 = b - 1 /\ (8 * b - 7 + j - 1) % 8 = j OBVIOUS
<1>2. 7 * s + (b - 1) + 1 = 7 * s + b OBVIOUS
<1> QED BY <1>1, <1>2 DEF SacBitOf

\* A frame of n sections as the receiver must find it: a header, 56 well-formed
\* bits and a foot per section, and no other symbol like a header.
SacFrame(syms, by, n) ==
    /\ syms \in [1 .. 58 * n -> SymSet]
    /\ \A s \in 0 .. n - 1 :
          /\ Matches(syms[SacPos(s, 0)], SecSym)
          /\ \A k \in 1 .. 56 : /\ SacBitOk(syms[SacPos(s, k)])
                               /\ SacBit(syms[SacPos(s, k)]) = SacBitOf(by, s, k)
          /\ in_range(syms[SacPos(s, 57)].mark, 586)
          /\ \A k \in 1 .. 57 : ~Matches(syms[SacPos(s, k)], SecSym)

\* What is heard of a Samsung frame is such a frame.
LEMMA SamsungHeard ==
    ASSUME NEW n \in Nat, n >= 1, NEW smp, smp.kind = "SAMSUNG_AC", smp.bytes \in [1 .. 7 * n -> Byte],
           NEW syms, Heard(syms, OnAir(smp))
    PROVE  SacFrame(syms, smp.bytes, n)
<1> DEFINE air == OnAir(smp)
           by  == smp.bytes
<1>1. SacAir(air, by, n) /\ by \in [1 .. 7 * n -> Byte] BY SamsungOnAir
<1>2. /\ syms \in [1 .. 58 * n -> SymSet]
      /\ \A i \in 1 .. 58 * n : in_range(syms[i].mark, air[i].mark)
      /\ \A i \in 1 .. 58 * n : i # 58 * n => in_range(syms[i].space, air[i].space)
  BY <1>1 DEF Heard, SacAir
<1> HIDE DEF air, by
<1>3. ASSUME NEW s \in 0 .. n - 1
      PROVE  /\ Matches(syms[SacPos(s, 0)], SecSym)
             /\ \A k \in 1 .. 56 : /\ SacBitOk(syms[SacPos(s, k)])
                                  /\ SacBit(syms[SacPos(s, k)]) = SacBitOf(by, s, k)
             /\ in_range(syms[SacPos(s, 57)].mark, 586)
             /\ \A k \in 1 .. 57 : ~Matches(syms[SacPos(s, k)], SecSym)
  <2>1. /\ air[SacPos(s, 0)] = SecSym /\ air[SacPos(s, 57)].mark = 586
        /\ \A k \in 1 .. 56 : air[SacPos(s, k)] = Sym(586, SacSpace(SacBitOf(by, s, k)))
    <3> DEFINE Q(r) == /\ air[SacPos(r, 0)] = SecSym
                       /\ \A k \in 1 .. 56 : air[SacPos(r, k)] = Sym(586, SacSpace(SacBitOf(by, r, k)))
                       /\ air[SacPos(r, 57)].mark = 586
    <3>1. \A r \in 0 .. n - 1 : Q(r) BY <1>1 DEF SacAir
    <3> HIDE DEF Q
    <3>2. Q(s) BY <3>1
    <3> QED BY <3>2 DEF Q
  <2>2. \A k \in 0 .. 57 : SacPos(s, k) \in 1 .. 58 * n /\ (k # 57 => SacPos(s, k) # 58 * n)
    BY SacPosTyped
  <2>3. Matches(syms[SacPos(s, 0)], SecSym)
    <3>1. SacPos(s, 0) \in 1 .. 58 * n /\ SacPos(s, 0) # 58 * n BY <2>2
    <3>2. in_range(syms[SacPos(s, 0)].mark, SecSym.mark) BY <1>2, <2>1, <3>1
    <3>3. in_range(syms[SacPos(s, 0)].space, SecSym.space) BY <1>2, <2>1, <3>1
    <3> QED BY <3>2, <3>3 DEF Matches
  <2>4. in_range(syms[SacPos(s, 57)].mark, 586) /\ syms[SacPos(s, 57)] \in SymSet
    <3> DEFINE i == SacPos(s, 57)
    <3>1. i \in 1 .. 58 * n BY <2>2
    <3>2. air[i].mark = 586 BY <2>1
    <3> HIDE DEF i
    <3>3. syms[i] \in SymSet /\ in_range(syms[i].mark, 586) BY <1>2, <3>1, <3>2
    <3> QED BY <3>3 DEF i
  <2>5. ASSUME NEW k \in 1 .. 56
        PROVE  /\ SacBitOk(syms[SacPos(s, k)]) /\ SacBit(syms[SacPos(s, k)]) = SacBitOf(by, s, k)
               /\ ~Matches(syms[SacPos(s, k)], SecSym)
    <3> DEFINE i == SacPos(s, k)
               x == SacBitOf(by, s, k)
    <3>1. i \in 1 .. 58 * n /\ i # 58 * n
      <4>1. k \in 0 .. 57 /\ k # 57 OBVIOUS
      <4> QED BY <2>2, <4>1
    <3>2. x \in {0, 1} BY <1>1, SacBitTyped
    <3>3. air[i] = Sym(586, SacSpace(x)) BY <2>1
    <3> HIDE DEF i, x
    <3>4. air[i].mark = 586 /\ air[i].space = SacSpace(x) BY <3>3 DEF Sym
    <3>5. syms[i] \in SymSet /\ in_range(syms[i].mark, 586) BY <1>2, <3>1, <3>4
    <3>6. in_range(syms[i].space, SacSpace(x)) BY <1>2, <3>1, <3>4
    <3>7. SacBitOk(syms[i]) /\ SacBit(syms[i]) = x /\ ~Matches(syms[i], SecSym)
      <4> DEFINE y == syms[i]
      <4>1. y \in SymSet /\ in_range(y.mark, 586) /\ in_range(y.space, SacSpace(x))
        BY <3>5, <3>6
      <4> HIDE DEF y
      <4>2. SacBitOk(y) /\ SacBit(y) = x /\ ~Matches(y, SecSym) BY <3>2, <4>1, SacBitHeard
      <4> QED BY <4>2 DEF y
    <3> QED BY <3>7 DEF i, x
  <2>6. ~Matches(syms[SacPos(s, 57)], SecSym)
    BY <2>4 DEF Matches, in_range, SecSym, Sym, SymSet
  <2>7. ASSUME NEW k \in 1 .. 57 PROVE ~Matches(syms[SacPos(s, k)], SecSym)
    <3>1. CASE k = 57 BY <2>6, <3>1
    <3>2. CASE k # 57
      <4>1. k \in 1 .. 56 BY <3>2
      <4> QED BY <2>5, <4>1
    <3> QED BY <3>1, <3>2
  <2> QED BY <2>3, <2>4, <2>5, <2>7
<1> QED BY <1>2, <1>3 DEF SacFrame, by

\* The bytes of a section are read back from its bits.
LEMMA SectionBits ==
    ASSUME NEW n \in Nat, NEW by \in [1 .. 7 * n -> Byte], NEW s \in 0 .. n - 1,
           NEW bits, \A k \in 1 .. 56 : bits[k] = SacBitOf(by, s, k)
    PROVE  [b \in 1 .. 7 |-> ByteOf(bits, 8 * b - 7)] = Section(by, s)
<1>1. \A k \in 1 .. 56 : bits[k] = SacBitOf(by, s, k)
  OBVIOUS
<1>2. ASSUME NEW b \in 1 .. 7 PROVE ByteOf(bits, 8 * b - 7) = by[7 * s + b]
  <2>1. 7 * s + b \in 1 .. 7 * n OBVIOUS
  <2> DEFINE v == by[7 * s + b]
             p == 8 * b - 7
  <2>2. v \in Byte BY <2>1
  <2>3. p \in Nat OBVIOUS
  <2>4. ASSUME NEW j \in 0 .. 7 PROVE bits[p + j] = Bit(v, j)
    <3>1. p + j \in 1 .. 56 /\ s \in Nat OBVIOUS
    <3>2. SacBitOf(by, s, p + j) = Bit(v, j) BY <3>1, SacBitIs
    <3> HIDE DEF p, v
    <3> QED BY <1>1, <3>1, <3>2
  <2> HIDE DEF v, p
  <2>5. ByteOf(bits, p) = v BY <2>2, <2>3, <2>4, ByteOfBits
  <2> QED BY <2>5 DEF v, p
<1>3. Section(by, s) \in [1 .. 7 -> Byte] /\ \A k \in 1 .. 7 : Section(by, s)[k] = by[7 * s + k]
  BY SectionOf DEF SectionSet
<1> DEFINE sec == Section(by, s)
           f == [b \in 1 .. 7 |-> ByteOf(bits, 8 * b - 7)]
<1>4. \A b \in 1 .. 7 : f[b] = sec[b] BY <1>2, <1>3
<1>5. sec \in [1 .. 7 -> Byte] BY <1>3
<1>6. f = [b \in 1 .. 7 |-> f[b]] OBVIOUS
<1> HIDE DEF sec, f
<1>7. f = sec BY <1>4, <1>5, <1>6
<1> QED BY <1>7 DEF sec, f

\* ir_decode_samsung_ac_section finds every section of the frame.
LEMMA SectionDecoded ==
    ASSUME NEW n \in Nat, NEW by \in [1 .. 7 * n -> Byte], NEW syms, SacFrame(syms, by, n),
           NEW s \in 0 .. n - 1
    PROVE  decode_section(syms, s) = [rc |-> 1, bytes |-> Section(by, s)]
<1> DEFINE hdr == 58 * s + 1
           bits == [k \in 1 .. 56 |-> SacBit(syms[hdr + k])]
           d == decode_section(syms, s)
<1>1. syms \in [1 .. 58 * n -> SymSet] /\ 58 * n \in Nat BY DEF SacFrame
<1>2. Len(syms) = 58 * n BY <1>1, FcnIsSeq
<1>3. ~(hdr + 57 > Len(syms)) BY <1>2
<1>4. Matches(syms[hdr], SecSym) /\ \A k \in 1 .. 56 : SacBitOk(syms[hdr + k])
  <2>1. SacPos(s, 0) = hdr BY DEF SacPos
  <2> QED BY <2>1 DEF SacFrame, SacPos
<1>5. [b \in 1 .. 7 |-> ByteOf(bits, 8 * b - 7)] = Section(by, s)
  <2>1. \A k \in 1 .. 56 : bits[k] = SacBitOf(by, s, k) BY DEF SacFrame, SacPos
  <2> HIDE DEF bits
  <2> QED BY <2>1, SectionBits
<1>6. d = IF hdr + 57 > Len(syms) \/ ~Matches(syms[hdr], SecSym) THEN [rc |-> -1, bytes |-> <<>>]
          ELSE IF \E k \in 1 .. 56 : ~SacBitOk(syms[hdr + k]) THEN [rc |-> 0, bytes |-> <<>>]
          ELSE [rc |-> 1, bytes |-> [i \in 1 .. 7 |-> ByteOf(bits, 8 * i - 7)]]
  BY DEF decode_section
<1> HIDE DEF hdr, bits, d
<1> QED BY <1>3, <1>4, <1>5, <1>6 DEF d

\* The header of section s, at symbol i, is followed by its bytes and its foot.
ReadsSection(syms, by, s, i) ==
    /\ SectionBytes(syms, i) = Section(by, s)
    /\ AfterSection(syms, i) = 58 * (s + 1) + 1

\* This holds of every section of a frame that was heard.
LEMMA SectionRead ==
    ASSUME NEW n \in Nat, NEW by \in [1 .. 7 * n -> Byte], NEW syms, SacFrame(syms, by, n),
           NEW s \in 0 .. n - 1, NEW i, i = 58 * s + 1
    PROVE  ReadsSection(syms, by, s, i)
<1> DEFINE bad == {g \in 0 .. 55 : i + 1 + g > Len(syms) \/ ~SacBitOk(syms[i + 1 + g])}
           bits == [k \in 1 .. 56 |-> SacBit(syms[i + k])]
<1>1. syms \in [1 .. 58 * n -> SymSet] /\ 58 * n \in Nat BY DEF SacFrame
<1>2. Len(syms) = 58 * n BY <1>1, FcnIsSeq
<1>3. ASSUME NEW g \in 0 .. 55 PROVE ~(i + 1 + g > Len(syms)) /\ SacBitOk(syms[i + 1 + g])
  <2>1. g + 1 \in 1 .. 56 OBVIOUS
  <2>2. SacPos(s, g + 1) = i + 1 + g BY DEF SacPos
  <2>3. SacBitOk(syms[SacPos(s, g + 1)]) BY <2>1 DEF SacFrame
  <2> QED BY <1>2, <2>2, <2>3
<1>4. bad = {} BY <1>3
<1>5. GoodBits(syms, i) = Min(bad \cup {56}) BY DEF GoodBits
<1>6. bad \cup {56} = {56} /\ Min({56}) = 56 BY <1>4, MinOfOne
<1> HIDE DEF bad
<1>7. GoodBits(syms, i) = 56 BY <1>5, <1>6
<1>8. \A k \in 1 .. 56 : bits[k] = SacBitOf(by, s, k) BY DEF SacFrame, SacPos
<1>9. SectionBytes(syms, i) = [b \in 1 .. 56 \div 8 |-> ByteOf(bits, 8 * b - 7)]
  BY <1>7 DEF SectionBytes
<1> HIDE DEF bits
<1>10. [b \in 1 .. 7 |-> ByteOf(bits, 8 * b - 7)] = Section(by, s) BY <1>8, SectionBits
<1>11. SectionBytes(syms, i) = Section(by, s)
  <2>1. 56 \div 8 = 7 OBVIOUS
  <2> QED BY <1>9, <1>10, <2>1
<1>12. i + 57 = SacPos(s, 57) /\ i + 57 <= Len(syms) /\ i + 1 + 56 = i + 57 BY <1>2 DEF SacPos
<1>13. in_range(syms[i + 57].mark, 586) BY <1>12 DEF SacFrame
<1>14. AfterSection(syms, i) = i + 57 + 1 BY <1>7, <1>12, <1>13 DEF AfterSection
<1>15. i + 57 + 1 = 58 * (s + 1) + 1 OBVIOUS
<1> QED BY <1>11, <1>14, <1>15 DEF ReadsSection

\* decode_samsung_ac_bytes returns the bytes of a frame of up to three sections.
\* Its loop is a recursive function; on a frame that the receiver heard there is
\* a function that satisfies the recursion, so the one chosen does, and it is
\* unfolded section by section.
LEMMA BytesDecoded ==
    ASSUME NEW n \in Nat, n \in 1 .. 3, NEW by \in [1 .. 7 * n -> Byte], NEW syms, SacFrame(syms, by, n)
    PROVE  decode_bytes(syms, 24) = by
<1> DEFINE from[i \in 1 .. Len(syms) + 2] ==
             IF i > Len(syms) \/ ~Matches(syms[i], SecSym) THEN <<>>
             ELSE SectionBytes(syms, i) \o from[AfterSection(syms, i)]
           Eq(g) == g = [i \in 1 .. Len(syms) + 2 |->
                          IF i > Len(syms) \/ ~Matches(syms[i], SecSym) THEN <<>>
                          ELSE SectionBytes(syms, i) \o g[AfterSection(syms, i)]]
<1>1. from = CHOOSE g : Eq(g) BY DEF from
<1>2. decode_bytes(syms, 24) = SubSeq(from[1], 1, Min({Len(from[1]), 24}))
  BY DEF decode_bytes
<1>3. n \in Nat /\ 7 * n \in Nat /\ 58 * n \in Nat OBVIOUS
<1>4. by \in Seq(Byte) /\ Len(by) = 7 * n BY <1>3, FcnIsSeq
<1>5. syms \in [1 .. 58 * n -> SymSet] BY DEF SacFrame
<1>6. Len(syms) = 58 * n BY <1>3, <1>5, FcnIsSeq
<1> DEFINE rest(s) == SubSeq(by, 7 * s + 1, 7 * n)
\* The frame from section s on is section s and the rest of it.
<1>7. ASSUME NEW s \in 0 .. n - 1 PROVE rest(s) = Section(by, s) \o rest(s + 1)
  <2>1. /\ 7 * s + 1 \in 1 .. Len(by) + 1 /\ 7 * s + 7 \in 7 * s + 1 - 1 .. Len(by)
        /\ 7 * n \in 7 * s + 7 .. Len(by)
    BY <1>4
  <2>2. SubSeq(by, 7 * s + 1, 7 * s + 7) \o SubSeq(by, 7 * s + 7 + 1, 7 * n) = SubSeq(by, 7 * s + 1, 7 * n)
    BY <1>4, <2>1, ConcatAdjacentSubSeq
  <2>3. 7 * s + 7 + 1 = 7 * (s + 1) + 1 OBVIOUS
  <2> QED BY <2>2, <2>3 DEF Section
<1>8. rest(n) = <<>>
  <2>1. 7 * n + 1 \in Int /\ 7 * n \in Int /\ 7 * n < 7 * n + 1 OBVIOUS
  <2> QED BY <2>1, SubSeqEmpty
<1>9. rest(0) = by
  <2>1. 7 * 0 + 1 = 1 OBVIOUS
  <2> QED BY <1>4, <2>1, SubSeqFull
<1> HIDE DEF from, rest
\* What the recursion says at the header of section s, elsewhere, and at the end.
<1>10. ASSUME NEW s \in 0 .. n - 1
       PROVE  /\ 58 * s + 1 \in 1 .. Len(syms) + 2
              /\ ~(58 * s + 1 > Len(syms) \/ ~Matches(syms[58 * s + 1], SecSym))
              /\ SectionBytes(syms, 58 * s + 1) = Section(by, s)
              /\ AfterSection(syms, 58 * s + 1) = 58 * (s + 1) + 1
  <2>1. SacPos(s, 0) = 58 * s + 1 BY DEF SacPos
  <2>2. Matches(syms[58 * s + 1], SecSym) BY <2>1 DEF SacFrame
  <2>3. 58 * s + 1 \in 1 .. 58 * n BY <1>3
  <2>4. /\ SectionBytes(syms, 58 * s + 1) = Section(by, s)
        /\ AfterSection(syms, 58 * s + 1) = 58 * (s + 1) + 1
    <3> DEFINE i == 58 * s + 1
    <3>1. i = 58 * s + 1 OBVIOUS
    <3> HIDE DEF i
    <3>2. ReadsSection(syms, by, s, i) BY <3>1, SectionRead
    <3> QED BY <3>1, <3>2 DEF ReadsSection
  <2> QED BY <1>6, <2>2, <2>3, <2>4
<1>11. ASSUME NEW i \in 1 .. Len(syms) + 2, \A s \in 0 .. n - 1 : i # 58 * s + 1
       PROVE  i > Len(syms) \/ ~Matches(syms[i], SecSym)
  <2>1. CASE i > Len(syms) BY <2>1
  <2>2. CASE i <= Len(syms)
    <3> DEFINE s == (i - 1) \div 58
               k == (i - 1) % 58
    <3>1. s \in 0 .. n - 1 /\ k \in 0 .. 57 /\ i = 58 * s + 1 + k BY <1>6, <2>2
    <3> HIDE DEF s, k
    <3>2. k \in 1 .. 57 BY <1>11, <3>1
    <3>3. i = SacPos(s, k) BY <3>1 DEF SacPos
    <3> QED BY <3>1, <3>2, <3>3 DEF SacFrame
  <2> QED BY <1>6, <2>1, <2>2
<1> DEFINE At(i) == \E s \in 0 .. n - 1 : i = 58 * s + 1
           sol == [i \in 1 .. Len(syms) + 2 |-> IF At(i) THEN rest((i - 1) \div 58) ELSE <<>>]
           E(g, i) == IF i > Len(syms) \/ ~Matches(syms[i], SecSym) THEN <<>>
                      ELSE SectionBytes(syms, i) \o g[AfterSection(syms, i)]
<1>12. ASSUME NEW i \in 1 .. Len(syms) + 2 PROVE sol[i] = E(sol, i)
  <2>1. CASE At(i)
    <3>1. PICK s \in 0 .. n - 1 : i = 58 * s + 1 BY <2>1
    <3>2. (i - 1) \div 58 = s BY <3>1
    <3>3. sol[i] = rest(s) BY <2>1, <3>2
    <3>4. E(sol, i) = Section(by, s) \o sol[58 * (s + 1) + 1] BY <1>10, <3>1
    <3>5. sol[58 * (s + 1) + 1] = rest(s + 1)
      <4> DEFINE j == 58 * (s + 1) + 1
      <4>1. j \in 1 .. Len(syms) + 2 /\ (j - 1) \div 58 = s + 1 BY <1>6
      <4>2. CASE s + 1 < n
        <5>1. s + 1 \in 0 .. n - 1 BY <4>2
        <5>2. At(j) BY <5>1
        <5> HIDE DEF j, At
        <5> QED BY <4>1, <5>2 DEF j
      <4>3. CASE s + 1 = n
        <5>1. ~At(j) BY <4>3
        <5> HIDE DEF j, At
        <5>2. sol[j] = <<>> BY <4>1, <5>1
        <5> QED BY <1>8, <4>3, <5>2 DEF j
      <4> QED BY <4>2, <4>3
    <3> QED BY <1>7, <3>3, <3>4, <3>5
  <2>2. CASE ~At(i)
    <3>1. i > Len(syms) \/ ~Matches(syms[i], SecSym) BY <1>11, <2>2
    <3> HIDE DEF At
    <3>2. sol[i] = <<>> BY <2>2
    <3> HIDE DEF sol
    <3> QED BY <3>1, <3>2
  <2> QED BY <2>1, <2>2
<1>13. sol = [i \in 1 .. Len(syms) + 2 |-> sol[i]] OBVIOUS
<1>14. Eq(sol)
  <2> HIDE DEF sol
  <2> QED BY <1>12, <1>13
<1>15. Eq(from)
  <2> HIDE DEF Eq
  <2> QED BY <1>1, <1>14
<1>16. ASSUME NEW i \in 1 .. Len(syms) + 2 PROVE from[i] = E(from, i)
  BY <1>15
\* The sections in turn, from the end of the frame.
<1>17. from[58 * n + 1] = <<>>
  <2>1. 58 * n + 1 \in 1 .. Len(syms) + 2 /\ 58 * n + 1 > Len(syms) BY <1>6
  <2> QED BY <1>16, <2>1
<1>18. ASSUME NEW s \in 0 .. n - 1, from[58 * (s + 1) + 1] = rest(s + 1)
       PROVE  from[58 * s + 1] = rest(s)
  <2>1. from[58 * s + 1] = Section(by, s) \o from[58 * (s + 1) + 1] BY <1>10, <1>16
  <2> QED BY <1>7, <1>18, <2>1
<1> DEFINE P(s) == from[58 * s + 1] = rest(s)
<1>19. P(n) BY <1>8, <1>17
<1>20. \A s \in 0 .. n - 1 : P(s + 1) => P(s) BY <1>18
<1> HIDE DEF P
<1>21. P(0)
  <2>1. CASE n = 1
    <3>1. P(0 + 1) => P(0) BY <1>20, <2>1
    <3> QED BY <1>19, <2>1, <3>1
  <2>2. CASE n = 2
    <3>1. (P(0 + 1) => P(0)) /\ (P(1 + 1) => P(1)) BY <1>20, <2>2
    <3> QED BY <1>19, <2>2, <3>1
  <2>3. CASE n = 3
    <3>1. (P(0 + 1) => P(0)) /\ (P(1 + 1) => P(1)) /\ (P(2 + 1) => P(2)) BY <1>20, <2>3
    <3> QED BY <1>19, <2>3, <3>1
  <2> QED BY <2>1, <2>2, <2>3
<1>22. from[1] = by
  <2>1. 58 * 0 + 1 = 1 OBVIOUS
  <2> QED BY <1>9, <1>21, <2>1 DEF P
<1>23. Min({Len(from[1]), 24}) = Len(by)
  <2>1. 7 * n <= 24 OBVIOUS
  <2> QED BY <1>3, <1>4, <1>22, <2>1, MinOfTwo
<1> QED BY <1>2, <1>4, <1>22, <1>23, SubSeqFull

-----------------------------------------------------------------------------
(***************************************************************************)
(* The codec: space-coded frames.  NEC and LG share the reader of bits and *)
(* differ in the limits; what remains is that one is not taken for the     *)
(* other.                                                                  *)
(***************************************************************************)
\* Bit k of a space-coded frame, and the space that carries it.
SpaceBitOf(by, k) == Bit(by[((k - 1) \div 8) + 1], (k - 1) % 8)
SpaceOf(x, zero, one) == IF x = 1 THEN one ELSE zero

\* Every bit sent is a bit of one of the four bytes.
LEMMA SpaceBitTyped ==
    ASSUME NEW by \in [1 .. 4 -> Byte], NEW k \in 1 .. 32
    PROVE  SpaceBitOf(by, k) \in {0, 1}
<1> DEFINE i == ((k - 1) \div 8) + 1
           j == (k - 1) % 8
<1>1. i \in 1 .. 4 /\ j \in 0 .. 7 OBVIOUS
<1> HIDE DEF i, j
<1>2. by[i] \in Byte /\ \A v \in Byte : v \in Nat BY <1>1 DEF Byte
<1>3. Bit(by[i], j) \in {0, 1} BY <1>1, <1>2, BitsOf
<1> QED BY <1>3 DEF SpaceBitOf, i, j

\* The bytes are read back from the bits.
LEMMA SpaceBytes ==
    ASSUME NEW by \in [1 .. 4 -> Byte], NEW nb \in 1 .. 32,
           NEW bits, \A k \in 1 .. nb : bits[k] = SpaceBitOf(by, k),
           NEW b \in 1 .. 4, 8 * b <= nb
    PROVE  ByteOf(bits, 8 * b - 7) = by[b]
<1> DEFINE v == by[b]
           p == 8 * b - 7
<1>1. v \in Byte /\ p \in Nat OBVIOUS
<1>2. ASSUME NEW j \in 0 .. 7 PROVE bits[p + j] = Bit(v, j)
  <2>1. p + j \in 1 .. nb OBVIOUS
  <2>2. (p + j - 1) \div 8 = b - 1 /\ (p + j - 1) % 8 = j /\ b - 1 + 1 = b OBVIOUS
  <2>3. SpaceBitOf(by, p + j) = Bit(v, j) BY <2>2 DEF SpaceBitOf
  <2> HIDE DEF p, v
  <2> QED BY <2>1, <2>3
<1> HIDE DEF p, v
<1>3. ByteOf(bits, p) = v BY <1>1, <1>2, ByteOfBits
<1> QED BY <1>3 DEF p, v

\* A space-coded frame as the receiver must find it.
SpaceFrame(syms, by, nb, hdr, mark, zero, one) ==
    /\ syms \in [1 .. nb + 2 -> SymSet]
    /\ Matches(syms[1], hdr)
    /\ \A k \in 1 .. nb :
          /\ in_range(syms[k + 1].mark, mark)
          /\ in_range(syms[k + 1].space, SpaceOf(SpaceBitOf(by, k), zero, one))

\* What is sent: the header, the bits and the stop bit.
SpaceAir(by, nb, hdr, stop, mark, zero, one) ==
    <<hdr>> \o SpaceBits(by, nb, mark, zero, one) \o <<stop>>

\* Its symbols, one by one.
SentAs(air, by, nb, hdr, mark, zero, one) ==
    /\ air \in Seq(SymSet) /\ Len(air) = nb + 2 /\ air[1] = hdr
    /\ \A k \in 1 .. nb : air[k + 1] = Sym(mark, SpaceOf(SpaceBitOf(by, k), zero, one))

\* SpaceBits gives exactly that.
LEMMA SpaceOnAir ==
    ASSUME NEW by \in [1 .. 4 -> Byte], NEW nb \in 1 .. 32, NEW hdr \in SymSet, NEW stop \in SymSet,
           NEW mark \in Nat, NEW zero \in Nat, NEW one \in Nat
    PROVE  SentAs(SpaceAir(by, nb, hdr, stop, mark, zero, one), by, nb, hdr, mark, zero, one)
<1> DEFINE f == SpaceBits(by, nb, mark, zero, one)
           g == <<hdr>> \o f
           air == g \o <<stop>>
<1>1. /\ <<hdr>> \in Seq(SymSet) /\ Len(<<hdr>>) = 1 /\ <<hdr>>[1] = hdr
      /\ <<stop>> \in Seq(SymSet) /\ Len(<<stop>>) = 1
  OBVIOUS
<1>2. ASSUME NEW k \in 1 .. nb PROVE f[k] = Sym(mark, SpaceOf(SpaceBitOf(by, k), zero, one))
  BY DEF SpaceBits, SpaceBitOf, SpaceOf
<1>3. f \in [1 .. nb -> SymSet]
  <2>1. \A x : Sym(mark, SpaceOf(x, zero, one)) \in SymSet BY DEF Sym, SymSet, SpaceOf
  <2>2. f = [k \in 1 .. nb |-> f[k]] BY DEF SpaceBits
  <2> HIDE DEF f
  <2> QED BY <1>2, <2>1, <2>2
<1> HIDE DEF f
<1>4. f \in Seq(SymSet) /\ Len(f) = nb BY <1>3, FcnIsSeq
<1>5. /\ g \in Seq(SymSet) /\ Len(g) = nb + 1 /\ g[1] = hdr
      /\ \A k \in 1 .. nb : g[k + 1] = f[k]
  <2>1. /\ g \in Seq(SymSet) /\ Len(g) = Len(<<hdr>>) + Len(f)
        /\ \A i \in 1 .. Len(<<hdr>>) + Len(f) :
              g[i] = IF i <= Len(<<hdr>>) THEN <<hdr>>[i] ELSE f[i - Len(<<hdr>>)]
    BY <1>1, <1>4, ConcatProperties
  <2> HIDE DEF g
  <2>2. Len(g) = nb + 1 BY <1>1, <1>4, <2>1
  <2>3. g[1] = hdr BY <1>1, <1>4, <2>1
  <2>4. ASSUME NEW k \in 1 .. nb PROVE g[k + 1] = f[k]
    <3>1. k + 1 \in 1 .. Len(<<hdr>>) + Len(f) /\ k + 1 - 1 = k /\ ~(k + 1 <= 1) BY <1>1, <1>4
    <3> QED BY <1>1, <2>1, <3>1
  <2> QED BY <2>1, <2>2, <2>3, <2>4
<1> HIDE DEF g
<1>6. air \in Seq(SymSet) /\ Len(air) = nb + 2 /\ \A i \in 1 .. nb + 1 : air[i] = g[i]
  <2>1. /\ air \in Seq(SymSet) /\ Len(air) = Len(g) + Len(<<stop>>)
        /\ \A i \in 1 .. Len(g) + Len(<<stop>>) :
              air[i] = IF i <= Len(g) THEN g[i] ELSE <<stop>>[i - Len(g)]
    BY <1>1, <1>5, ConcatProperties
  <2> HIDE DEF air
  <2> QED BY <1>1, <1>5, <2>1
<1>7. air = SpaceAir(by, nb, hdr, stop, mark, zero, one) BY DEF SpaceAir, air, g, f
<1> HIDE DEF air
<1>8. air[1] = hdr
  <2>1. 1 \in 1 .. nb + 1 OBVIOUS
  <2> QED BY <1>5, <1>6, <2>1
<1>9. ASSUME NEW k \in 1 .. nb
      PROVE  air[k + 1] = Sym(mark, SpaceOf(SpaceBitOf(by, k), zero, one))
  <2> DEFINE i == k + 1
  <2>1. i \in 1 .. nb + 1 OBVIOUS
  <2>2. g[i] = f[k] BY <1>5
  <2> HIDE DEF i
  <2>3. air[i] = f[k] BY <1>6, <2>1, <2>2
  <2> QED BY <1>2, <2>3 DEF i
<1> QED BY <1>6, <1>7, <1>8, <1>9 DEF SentAs

\* Heard within the tolerance, it is a frame the receiver finds.
LEMMA SpaceHeard ==
    ASSUME NEW by \in [1 .. 4 -> Byte], NEW nb \in 1 .. 32, NEW hdr \in SymSet, NEW stop \in SymSet,
           NEW mark \in Nat, NEW zero \in Nat, NEW one \in Nat,
           NEW syms, Heard(syms, SpaceAir(by, nb, hdr, stop, mark, zero, one))
    PROVE  SpaceFrame(syms, by, nb, hdr, mark, zero, one)
<1> DEFINE air == SpaceAir(by, nb, hdr, stop, mark, zero, one)
<1>1. /\ Len(air) = nb + 2 /\ air[1] = hdr
      /\ \A k \in 1 .. nb : air[k + 1] = Sym(mark, SpaceOf(SpaceBitOf(by, k), zero, one))
  <2>1. SentAs(air, by, nb, hdr, mark, zero, one) BY SpaceOnAir
  <2> QED BY <2>1 DEF SentAs
<1>7. Heard(syms, air) OBVIOUS
<1> HIDE DEF air
<1>8. /\ syms \in [1 .. nb + 2 -> SymSet]
      /\ \A i \in 1 .. nb + 2 : in_range(syms[i].mark, air[i].mark)
      /\ \A i \in 1 .. nb + 2 : i # nb + 2 => in_range(syms[i].space, air[i].space)
  BY <1>1, <1>7 DEF Heard
<1>9. Matches(syms[1], hdr)
  <2>1. 1 \in 1 .. nb + 2 /\ 1 # nb + 2 /\ air[1] = hdr BY <1>1
  <2> QED BY <1>8, <2>1 DEF Matches
<1>10. ASSUME NEW k \in 1 .. nb
       PROVE  /\ in_range(syms[k + 1].mark, mark)
              /\ in_range(syms[k + 1].space, SpaceOf(SpaceBitOf(by, k), zero, one))
  <2> DEFINE i == k + 1
             width == SpaceOf(SpaceBitOf(by, k), zero, one)
  <2>1. i \in 1 .. nb + 2 /\ i # nb + 2 OBVIOUS
  <2>2. air[i] = Sym(mark, width) BY <1>1
  <2> HIDE DEF i, width
  <2>3. air[i].mark = mark /\ air[i].space = width BY <2>2 DEF Sym
  <2>4. in_range(syms[i].mark, mark) /\ in_range(syms[i].space, width) BY <1>8, <2>1, <2>3
  <2> QED BY <2>4 DEF i, width
<1> QED BY <1>8, <1>9, <1>10 DEF SpaceFrame

\* Both protocols' spaces, under the other's limits too, tell a one from a zero.
LEMMA SpacesApart ==
    ASSUME NEW v \in Nat, NEW x \in {0, 1}
    PROVE  /\ in_range(v, SpaceOf(x, 562, 1687)) =>
                 /\ in_range(v, 562) \/ in_range(v, 1687)
                 /\ in_range(v, 562) <=> x = 0
                 /\ v # 0
                 /\ in_range(v, 560) \/ in_range(v, 1600) => (in_range(v, 560) <=> x = 0)
           /\ in_range(v, SpaceOf(x, 560, 1600)) =>
                 /\ in_range(v, 560) \/ in_range(v, 1600)
                 /\ in_range(v, 560) <=> x = 0
BY DEF in_range, SpaceOf

\* The frames of the two protocols, each with its own limits.
NecFrame(syms, by) == SpaceFrame(syms, by, 32, Sym(9000, 4500), 562, 562, 1687)
LgFrame(syms, by)  == SpaceFrame(syms, by, 28, Sym(8500, 4250), 560, 560, 1600)

\* The first symbol of neither is a Samsung header, and that of a NEC frame is no
\* repeat.
LEMMA Headers ==
    ASSUME NEW sym \in SymSet
    PROVE  /\ Matches(sym, Sym(9000, 4500)) =>
                 /\ ~Matches(sym, HdrSym) /\ ~Matches(sym, SecSym)
                 /\ ~Matches(sym, Sym(9000, 2250))
           /\ Matches(sym, Sym(8500, 4250)) => ~Matches(sym, HdrSym) /\ ~Matches(sym, SecSym)
           /\ Matches(sym, SecSym) => ~Matches(sym, HdrSym)
BY DEF Matches, in_range, Sym, HdrSym, SecSym, SymSet

\* ir_decode reads the 32 bits of a NEC frame.
LEMMA NecBits ==
    ASSUME NEW by \in [1 .. 4 -> Byte], NEW syms, NecFrame(syms, by)
    PROVE  LET bits == decode_space_bits(syms, 562, 562, 1687, 32)
           IN  Len(bits) = 32 /\ \A k \in 1 .. 32 : bits[k] = SpaceBitOf(by, k)
<1> DEFINE bits == decode_space_bits(syms, 562, 562, 1687, 32)
<1>1. /\ syms \in [1 .. 34 -> SymSet]
      /\ \A k \in 1 .. 32 : /\ in_range(syms[k + 1].mark, 562)
                            /\ in_range(syms[k + 1].space, SpaceOf(SpaceBitOf(by, k), 562, 1687))
  BY DEF NecFrame, SpaceFrame
<1>2. ASSUME NEW k \in 1 .. 32
      PROVE  /\ in_range(syms[k + 1].space, 562) \/ in_range(syms[k + 1].space, 1687)
             /\ in_range(syms[k + 1].space, 562) <=> SpaceBitOf(by, k) = 0
  <2> DEFINE v == syms[k + 1].space
             x == SpaceBitOf(by, k)
  <2>1. k + 1 \in 1 .. 34 OBVIOUS
  <2>2. v \in Nat BY <1>1, <2>1 DEF SymSet
  <2>3. x \in {0, 1} BY SpaceBitTyped
  <2>4. in_range(v, SpaceOf(x, 562, 1687)) BY <1>1
  <2> HIDE DEF v, x
  <2>5. /\ in_range(v, 562) \/ in_range(v, 1687)
        /\ in_range(v, 562) <=> x = 0
    BY <2>2, <2>3, <2>4, SpacesApart
  <2> QED BY <2>5 DEF v, x
<1>3. ASSUME NEW i \in 2 .. 32 + 1
      PROVE  /\ in_range(syms[i].mark, 562)
             /\ in_range(syms[i].space, 562) \/ in_range(syms[i].space, 1687)
  <2> DEFINE k == i - 1
  <2>1. k \in 1 .. 32 /\ k + 1 = i OBVIOUS
  <2> HIDE DEF k
  <2> QED BY <1>1, <1>2, <2>1
<1>4. bits = [k \in 1 .. 32 |-> IF in_range(syms[k + 1].space, 562) THEN 0 ELSE 1]
  <2>1. Symbols(syms, 32)
    <3>1. 34 \in Nat /\ 34 >= 32 + 1 OBVIOUS
    <3> QED BY <1>1, <3>1 DEF Symbols
  <2>2. AllBits(syms, 562, 562, 1687, 32) BY <1>3 DEF AllBits
  <2>3. BitsRead(syms, 562, 562, 1687, 32) BY <2>1, <2>2, SpaceBitsRead
  <2> QED BY <2>3 DEF BitsRead
<1> HIDE DEF bits
<1>5. bits \in [1 .. 32 -> {0, 1}] BY <1>4
<1>6. Len(bits) = 32 BY <1>5, FcnIsSeq
<1>7. ASSUME NEW k \in 1 .. 32 PROVE bits[k] = SpaceBitOf(by, k)
  <2>1. SpaceBitOf(by, k) \in {0, 1} BY SpaceBitTyped
  <2> QED BY <1>2, <1>4, <2>1
<1> QED BY <1>6, <1>7 DEF bits

\* ir_decode reads the 28 bits of an LG frame.
LEMMA LgBitsRead ==
    ASSUME NEW by \in [1 .. 4 -> Byte], NEW syms, LgFrame(syms, by)
    PROVE  Len(LgBits(syms)) = 28 /\ \A k \in 1 .. 28 : LgBits(syms)[k] = SpaceBitOf(by, k)
<1> DEFINE bits == LgBits(syms)
<1>1. /\ syms \in [1 .. 30 -> SymSet]
      /\ \A k \in 1 .. 28 : /\ in_range(syms[k + 1].mark, 560)
                            /\ in_range(syms[k + 1].space, SpaceOf(SpaceBitOf(by, k), 560, 1600))
  BY DEF LgFrame, SpaceFrame
<1>2. ASSUME NEW k \in 1 .. 28
      PROVE  /\ in_range(syms[k + 1].space, 560) \/ in_range(syms[k + 1].space, 1600)
             /\ in_range(syms[k + 1].space, 560) <=> SpaceBitOf(by, k) = 0
  <2> DEFINE v == syms[k + 1].space
             x == SpaceBitOf(by, k)
  <2>1. k + 1 \in 1 .. 30 /\ k \in 1 .. 32 OBVIOUS
  <2>2. v \in Nat BY <1>1, <2>1 DEF SymSet
  <2>3. x \in {0, 1} BY <2>1, SpaceBitTyped
  <2>4. in_range(v, SpaceOf(x, 560, 1600)) BY <1>1
  <2> HIDE DEF v, x
  <2>5. /\ in_range(v, 560) \/ in_range(v, 1600)
        /\ in_range(v, 560) <=> x = 0
    BY <2>2, <2>3, <2>4, SpacesApart
  <2> QED BY <2>5 DEF v, x
<1>3. ASSUME NEW i \in 2 .. 28 + 1
      PROVE  /\ in_range(syms[i].mark, 560)
             /\ in_range(syms[i].space, 560) \/ in_range(syms[i].space, 1600)
  <2> DEFINE k == i - 1
  <2>1. k \in 1 .. 28 /\ k + 1 = i OBVIOUS
  <2> HIDE DEF k
  <2> QED BY <1>1, <1>2, <2>1
<1>4. bits = [k \in 1 .. 28 |-> IF in_range(syms[k + 1].space, 560) THEN 0 ELSE 1]
  <2>1. Symbols(syms, 28)
    <3>1. 30 \in Nat /\ 30 >= 28 + 1 OBVIOUS
    <3> QED BY <1>1, <3>1 DEF Symbols
  <2>2. AllBits(syms, 560, 560, 1600, 28) BY <1>3 DEF AllBits
  <2>3. BitsRead(syms, 560, 560, 1600, 28) BY <2>1, <2>2, SpaceBitsRead
  <2> QED BY <2>3 DEF BitsRead, LgBits
<1> HIDE DEF bits
<1>5. bits \in [1 .. 28 -> {0, 1}] BY <1>4
<1>6. Len(bits) = 28 BY <1>5, FcnIsSeq
<1>7. ASSUME NEW k \in 1 .. 28 PROVE bits[k] = SpaceBitOf(by, k)
  <2>1. k \in 1 .. 32 OBVIOUS
  <2>2. SpaceBitOf(by, k) \in {0, 1} BY <2>1, SpaceBitTyped
  <2> QED BY <1>2, <1>4, <2>2
<1> QED BY <1>6, <1>7 DEF bits

\* A NEC frame passes for an LG frame only if its second and third byte are
\* inverse, whatever the timing error of each symbol.
LEMMA NecIsNotLg ==
    ASSUME NEW by \in [1 .. 4 -> Byte], NEW syms, NecFrame(syms, by), IsLg(syms)
    PROVE  Inverse8(by[2], by[3])
<1> DEFINE bits == LgBits(syms)
<1>1. /\ syms \in [1 .. 34 -> SymSet]
      /\ \A k \in 1 .. 32 : in_range(syms[k + 1].space, SpaceOf(SpaceBitOf(by, k), 562, 1687))
  BY DEF NecFrame, SpaceFrame
<1>2. Len(bits) = 28 /\ Inverse8(ByteOf(bits, 9), ByteOf(bits, 17)) BY DEF IsLg
<1>3. ASSUME NEW k \in 1 .. 28
      PROVE  /\ syms[k + 1].space # 0
             /\ in_range(syms[k + 1].space, 560) \/ in_range(syms[k + 1].space, 1600)
                   => (in_range(syms[k + 1].space, 560) <=> SpaceBitOf(by, k) = 0)
  <2> DEFINE v == syms[k + 1].space
             x == SpaceBitOf(by, k)
  <2>1. k + 1 \in 1 .. 34 /\ k \in 1 .. 32 OBVIOUS
  <2>2. v \in Nat BY <1>1, <2>1 DEF SymSet
  <2>3. x \in {0, 1} BY <2>1, SpaceBitTyped
  <2>4. in_range(v, SpaceOf(x, 562, 1687)) BY <1>1, <2>1
  <2> HIDE DEF v, x
  <2>5. v # 0 /\ (in_range(v, 560) \/ in_range(v, 1600) => (in_range(v, 560) <=> x = 0))
    BY <2>2, <2>3, <2>4, SpacesApart
  <2> QED BY <2>5 DEF v, x
<1>4. Measured(syms, 28)
  <2>1. ASSUME NEW i \in 2 .. 28 + 1 PROVE syms[i].space # 0
    <3> DEFINE k == i - 1
    <3>1. k \in 1 .. 28 /\ k + 1 = i OBVIOUS
    <3> HIDE DEF k
    <3> QED BY <1>3, <3>1
  <2> QED BY <2>1 DEF Measured
<1>5. Symbols(syms, 28)
  <2>1. 34 \in Nat /\ 34 >= 28 + 1 /\ syms \in [1 .. 34 -> SymSet] BY <1>1
  <2> QED BY ONLY <2>1 DEF Symbols
<1>6. AllBits(syms, 560, 560, 1600, 28)
  <2>1. FullCount(syms, 560, 560, 1600, 28) BY <1>2 DEF LgBits, FullCount
  <2> QED BY <1>4, <1>5, <2>1, SpaceBitsFull
<1>10. bits = [k \in 1 .. 28 |-> IF in_range(syms[k + 1].space, 560) THEN 0 ELSE 1]
  <2>1. BitsRead(syms, 560, 560, 1600, 28) BY <1>5, <1>6, SpaceBitsRead
  <2> QED BY <2>1 DEF BitsRead, LgBits
<1> HIDE DEF bits
<1>7. ASSUME NEW k \in 1 .. 28 PROVE bits[k] = SpaceBitOf(by, k)
  <2>1. k \in 1 .. 32 /\ k + 1 \in 2 .. 28 + 1 OBVIOUS
  <2>2. SpaceBitOf(by, k) \in {0, 1} BY <2>1, SpaceBitTyped
  <2>3. in_range(syms[k + 1].space, 560) \/ in_range(syms[k + 1].space, 1600) BY <1>6, <2>1 DEF AllBits
  <2> QED BY <1>3, <1>10, <2>2, <2>3
<1>8. ByteOf(bits, 8 * 2 - 7) = by[2] /\ ByteOf(bits, 8 * 3 - 7) = by[3]
  <2>1. 28 \in 1 .. 32 /\ 2 \in 1 .. 4 /\ 3 \in 1 .. 4 /\ 8 * 2 <= 28 /\ 8 * 3 <= 28 OBVIOUS
  <2>2. ByteOf(bits, 8 * 2 - 7) = by[2] BY <1>7, <2>1, SpaceBytes
  <2>3. ByteOf(bits, 8 * 3 - 7) = by[3] BY <1>7, <2>1, SpaceBytes
  <2> QED BY <2>2, <2>3
<1>9. 8 * 2 - 7 = 9 /\ 8 * 3 - 7 = 17 OBVIOUS
<1> QED BY <1>2, <1>8, <1>9

\* A NEC frame is found by ir_decode, after it was found not to be LG's.
LEMMA NecDecoded ==
    ASSUME NEW by \in [1 .. 4 -> Byte], NEW syms, NecFrame(syms, by),
           Inverse8(by[3], by[4]), ~Inverse8(by[2], by[3])
    PROVE  ir_decode(syms) = IF Inverse8(by[1], by[2]) THEN Decoded("NEC", by[1], by[3], <<>>)
                             ELSE Decoded("NEC_EXT", 256 * by[2] + by[1], by[3], <<>>)
<1> DEFINE bits == decode_space_bits(syms, 562, 562, 1687, 32)
<1>1. syms \in [1 .. 34 -> SymSet] /\ Matches(syms[1], Sym(9000, 4500)) BY DEF NecFrame, SpaceFrame
<1>2. Len(syms) = 34
  <2>1. 34 \in Nat OBVIOUS
  <2> QED BY <1>1, <2>1, FcnIsSeq
<1>3. /\ ~Matches(syms[1], HdrSym) /\ ~Matches(syms[1], SecSym) /\ ~Matches(syms[1], Sym(9000, 2250))
  <2>1. syms[1] \in SymSet BY <1>1
  <2> QED BY <1>1, <2>1, Headers
<1>4. ~IsLg(syms) BY NecIsNotLg
<1>5. Len(bits) = 32 /\ \A k \in 1 .. 32 : bits[k] = SpaceBitOf(by, k) BY NecBits
<1> HIDE DEF bits
<1>6. ASSUME NEW b \in 1 .. 4 PROVE ByteOf(bits, 8 * b - 7) = by[b]
  <2>1. 32 \in 1 .. 32 /\ 8 * b <= 32 OBVIOUS
  <2> QED BY <1>5, <2>1, SpaceBytes
<1>7. /\ ByteOf(bits, 1) = by[1] /\ ByteOf(bits, 9) = by[2]
      /\ ByteOf(bits, 17) = by[3] /\ ByteOf(bits, 25) = by[4]
  <2>1. 8 * 1 - 7 = 1 /\ 8 * 2 - 7 = 9 /\ 8 * 3 - 7 = 17 /\ 8 * 4 - 7 = 25 OBVIOUS
  <2>2. /\ ByteOf(bits, 8 * 1 - 7) = by[1] /\ ByteOf(bits, 8 * 2 - 7) = by[2]
        /\ ByteOf(bits, 8 * 3 - 7) = by[3] /\ ByteOf(bits, 8 * 4 - 7) = by[4]
    BY <1>6
  <2> QED BY <2>1, <2>2
<1>8. ir_decode(syms) = Nec(bits)
  BY <1>1, <1>2, <1>3, <1>4, <1>5 DEF ir_decode, bits
<1> QED BY <1>7, <1>8 DEF Nec

\* An LG frame is found by ir_decode.
LEMMA LgDecoded ==
    ASSUME NEW by \in [1 .. 4 -> Byte], NEW syms, LgFrame(syms, by), Inverse8(by[2], by[3])
    PROVE  ir_decode(syms) = Decoded("LG_AC", by[1], by[2], <<>>)
<1> DEFINE bits == LgBits(syms)
<1>1. syms \in [1 .. 30 -> SymSet] /\ Matches(syms[1], Sym(8500, 4250)) BY DEF LgFrame, SpaceFrame
<1>2. Len(syms) = 30
  <2>1. 30 \in Nat OBVIOUS
  <2> QED BY <1>1, <2>1, FcnIsSeq
<1>3. ~Matches(syms[1], HdrSym) /\ ~Matches(syms[1], SecSym)
  <2>1. syms[1] \in SymSet BY <1>1
  <2> QED BY <1>1, <2>1, Headers
<1>4. Len(bits) = 28 /\ \A k \in 1 .. 28 : bits[k] = SpaceBitOf(by, k) BY LgBitsRead
<1> HIDE DEF bits
<1>5. ASSUME NEW b \in 1 .. 3 PROVE ByteOf(bits, 8 * b - 7) = by[b]
  <2>1. 28 \in 1 .. 32 /\ 8 * b <= 28 /\ b \in 1 .. 4 OBVIOUS
  <2> QED BY <1>4, <2>1, SpaceBytes
<1>6. ByteOf(bits, 1) = by[1] /\ ByteOf(bits, 9) = by[2] /\ ByteOf(bits, 17) = by[3]
  <2>1. 8 * 1 - 7 = 1 /\ 8 * 2 - 7 = 9 /\ 8 * 3 - 7 = 17 OBVIOUS
  <2>2. /\ ByteOf(bits, 8 * 1 - 7) = by[1] /\ ByteOf(bits, 8 * 2 - 7) = by[2]
        /\ ByteOf(bits, 8 * 3 - 7) = by[3]
    BY <1>5
  <2> QED BY <2>1, <2>2
<1>7. IsLg(syms) BY <1>1, <1>2, <1>4, <1>6 DEF IsLg, bits
<1> QED BY <1>3, <1>6, <1>7 DEF ir_decode, bits

\* A Samsung frame is found by ir_decode by its section header.
LEMMA SamsungDecoded ==
    ASSUME NEW n \in Nat, n \in 1 .. 3, NEW by \in [1 .. 7 * n -> Byte], NEW syms, SacFrame(syms, by, n)
    PROVE  ir_decode(syms) = Decoded("SAMSUNG_AC", 0, 0, by)
<1>1. Matches(syms[1], SecSym)
  <2>1. SacPos(0, 0) = 1 /\ 0 \in 0 .. n - 1 BY DEF SacPos
  <2> QED BY <2>1 DEF SacFrame
<1>2. ~Matches(syms[1], HdrSym)
  <2>1. 1 \in 1 .. 58 * n OBVIOUS
  <2>2. syms[1] \in SymSet BY <2>1 DEF SacFrame
  <2> QED BY <1>1, <2>2, Headers
<1>3. decode_bytes(syms, 24) = by BY BytesDecoded
<1>4. by # <<>>
  <2>1. 7 * n \in Nat OBVIOUS
  <2>2. Len(by) = 7 * n BY <2>1, FcnIsSeq
  <2> QED BY <2>2
<1> QED BY <1>1, <1>2, <1>3, <1>4 DEF ir_decode

\* What is sent in the two protocols.
NecAir(by) == SpaceAir(by, 32, Sym(9000, 4500), Sym(562, 0), 562, 562, 1687)
LgAir(by)  == SpaceAir(by, 28, Sym(8500, 4250), Sym(560, 0), 560, 560, 1600)

\* What is heard of a NEC frame is such a frame.
LEMMA NecHeard ==
    ASSUME NEW by \in [1 .. 4 -> Byte]
    PROVE  /\ NecAir(by) \in Seq(SymSet)
           /\ \A syms : Heard(syms, NecAir(by)) => NecFrame(syms, by)
<1> DEFINE nb == 32
           hdr == Sym(9000, 4500)
           stop == Sym(562, 0)
           short == 562
           long == 1687
<1>1. nb \in 1 .. 32 /\ hdr \in SymSet /\ stop \in SymSet /\ short \in Nat /\ long \in Nat
  BY DEF Sym, SymSet
<1>2. NecAir(by) = SpaceAir(by, nb, hdr, stop, short, short, long) BY DEF NecAir
<1>3. \A syms : NecFrame(syms, by) <=> SpaceFrame(syms, by, nb, hdr, short, short, long)
  BY DEF NecFrame
<1> HIDE DEF nb, hdr, stop, short, long
<1>4. SentAs(NecAir(by), by, nb, hdr, short, short, long) BY <1>1, <1>2, SpaceOnAir
<1>5. ASSUME NEW syms, Heard(syms, NecAir(by)) PROVE NecFrame(syms, by)
  BY <1>1, <1>2, <1>3, <1>5, SpaceHeard
<1> QED BY <1>4, <1>5 DEF SentAs

\* What is heard of an LG frame is such a frame.
LEMMA LgHeard ==
    ASSUME NEW by \in [1 .. 4 -> Byte]
    PROVE  /\ LgAir(by) \in Seq(SymSet)
           /\ \A syms : Heard(syms, LgAir(by)) => LgFrame(syms, by)
<1> DEFINE nb == 28
           hdr == Sym(8500, 4250)
           stop == Sym(560, 0)
           short == 560
           long == 1600
<1>1. nb \in 1 .. 32 /\ hdr \in SymSet /\ stop \in SymSet /\ short \in Nat /\ long \in Nat
  BY DEF Sym, SymSet
<1>2. LgAir(by) = SpaceAir(by, nb, hdr, stop, short, short, long) BY DEF LgAir
<1>3. \A syms : LgFrame(syms, by) <=> SpaceFrame(syms, by, nb, hdr, short, short, long)
  BY DEF LgFrame
<1> HIDE DEF nb, hdr, stop, short, long
<1>4. SentAs(LgAir(by), by, nb, hdr, short, short, long) BY <1>1, <1>2, SpaceOnAir
<1>5. ASSUME NEW syms, Heard(syms, LgAir(by)) PROVE LgFrame(syms, by)
  BY <1>1, <1>2, <1>3, <1>5, SpaceHeard
<1> QED BY <1>4, <1>5 DEF SentAs

\* Every frame of a sample, its symbols off by at most a quarter each and
\* independently of each other, is decoded to what was sent.
THEOREM DecodesAnyTiming ==
    ASSUME NEW smp \in Samples, NEW syms, Heard(syms, OnAir(smp))
    PROVE  Returns(ir_decode(syms), syms, smp)
<1> DEFINE by == smp.bytes
<1>1. CASE smp.kind = "SAMSUNG_AC" /\ \E nsec \in 1 .. 3 : by \in [1 .. 7 * nsec -> Byte]
  <2>1. PICK n \in 1 .. 3 : by \in [1 .. 7 * n -> Byte] BY <1>1
  <2>2. n \in Nat /\ n >= 1 /\ n \in 1 .. 3 OBVIOUS
  <2>3. SacFrame(syms, by, n) BY <1>1, <2>1, <2>2, SamsungHeard
  <2>4. ir_decode(syms) = Decoded("SAMSUNG_AC", 0, 0, by) BY <2>1, <2>2, <2>3, SamsungDecoded
  <2>5. Len(by) \div 7 = n
    <3>1. 7 * n \in Nat /\ (7 * n) \div 7 = n OBVIOUS
    <3>2. Len(by) = 7 * n BY <2>1, <3>1, FcnIsSeq
    <3> QED BY <3>1, <3>2
  <2>6. \A s \in 0 .. n - 1 : decode_section(syms, s) = [rc |-> 1, bytes |-> Section(by, s)]
    BY <2>1, <2>2, <2>3, SectionDecoded
  <2>7. ir_decode(syms).proto = "SAMSUNG_AC" /\ ir_decode(syms).bytes = by BY <2>4 DEF Decoded
  <2> QED BY <1>1, <2>5, <2>6, <2>7 DEF Returns
<1>2. CASE smp.kind = "NEC" /\ by \in [1 .. 4 -> Byte] /\ Inverse8(by[3], by[4])
  <2>1. NecFrame(syms, by)
    <3>1. OnAir(smp) = NecAir(by) BY <1>2 DEF OnAir, NecAir, SpaceAir
    <3> QED BY <1>2, <3>1, NecHeard
  <2>2. CASE Inverse8(by[2], by[3]) BY <1>2, <2>2 DEF Returns
  <2>3. CASE ~Inverse8(by[2], by[3])
    <3>1. ir_decode(syms) = IF Inverse8(by[1], by[2]) THEN Decoded("NEC", by[1], by[3], <<>>)
                            ELSE Decoded("NEC_EXT", 256 * by[2] + by[1], by[3], <<>>)
      BY <1>2, <2>1, <2>3, NecDecoded
    <3> QED BY <1>2, <2>3, <3>1 DEF Returns, Decoded
  <2> QED BY <2>2, <2>3
<1>3. CASE smp.kind = "LG_AC" /\ by \in [1 .. 4 -> Byte] /\ Inverse8(by[2], by[3])
  <2>1. LgFrame(syms, by)
    <3>1. OnAir(smp) = LgAir(by) BY <1>3 DEF OnAir, LgAir, SpaceAir
    <3> QED BY <1>3, <3>1, LgHeard
  <2>2. ir_decode(syms) = Decoded("LG_AC", by[1], by[2], <<>>) BY <1>3, <2>1, LgDecoded
  <2> QED BY <1>3, <2>2 DEF Returns, Decoded
<1> QED BY <1>1, <1>2, <1>3, SamplesAssumption

\* A duration as short or as long as the tolerance allows is within it.
LEMMA OffWithin ==
    ASSUME NEW v \in Nat, NEW j PROVE Off(v, j) \in Nat /\ in_range(Off(v, j), v)
<1>1. (v * 3) \div 4 \in Nat /\ (v * 5) \div 4 \in Nat /\ (v * 3) \div 4 <= v /\ v <= (v * 5) \div 4 OBVIOUS
<1>2. Off(v, j) = (v * 3) \div 4 \/ Off(v, j) = (v * 5) \div 4 \/ Off(v, j) = v BY DEF Off
<1> QED BY <1>1, <1>2 DEF in_range

\* What is on the air are symbols.
LEMMA OnAirTyped == ASSUME NEW smp \in Samples PROVE OnAir(smp) \in Seq(SymSet)
<1> DEFINE by == smp.bytes
<1>1. CASE smp.kind = "SAMSUNG_AC" /\ \E nsec \in 1 .. 3 : by \in [1 .. 7 * nsec -> Byte]
  <2>1. PICK n \in 1 .. 3 : by \in [1 .. 7 * n -> Byte] BY <1>1
  <2>2. n \in Nat /\ n >= 1 OBVIOUS
  <2>3. SacAir(OnAir(smp), by, n) BY <1>1, <2>1, <2>2, SamsungOnAir
  <2> QED BY <2>3 DEF SacAir
<1>2. CASE smp.kind = "NEC" /\ by \in [1 .. 4 -> Byte]
  <2>1. OnAir(smp) = NecAir(by) BY <1>2 DEF OnAir, NecAir, SpaceAir
  <2> QED BY <1>2, <2>1, NecHeard
<1>3. CASE smp.kind = "LG_AC" /\ by \in [1 .. 4 -> Byte]
  <2>1. OnAir(smp) = LgAir(by) BY <1>3 DEF OnAir, LgAir, SpaceAir
  <2> QED BY <1>3, <2>1, LgHeard
<1> QED BY <1>1, <1>2, <1>3, SamplesAssumption

\* The captures that the model checks are among those heard within the tolerance.
LEMMA CapturedIsHeard == ASSUME NEW smp \in Samples PROVE Heard(Captured(smp), OnAir(smp))
<1> DEFINE air == OnAir(smp)
           cap == Captured(smp)
<1>1. air \in Seq(SymSet) BY OnAirTyped
<1>2. cap = [i \in 1 .. Len(air) |->
               Sym(Off(air[i].mark, smp.marks),
                   IF i = Len(air) THEN 0 ELSE Off(air[i].space, smp.spaces))]
  BY DEF Captured
<1> HIDE DEF air, cap
<1>3. ASSUME NEW i \in 1 .. Len(air)
      PROVE  /\ cap[i] \in SymSet /\ in_range(cap[i].mark, air[i].mark)
             /\ i # Len(air) => in_range(cap[i].space, air[i].space)
  <2>1. air[i] \in SymSet BY <1>1, ElementOfSeq
  <2>2. air[i].mark \in Nat /\ air[i].space \in Nat BY <2>1 DEF SymSet
  <2> DEFINE m == Off(air[i].mark, smp.marks)
             s == Off(air[i].space, smp.spaces)
  <2>3. /\ m \in Nat /\ in_range(m, air[i].mark)
        /\ s \in Nat /\ in_range(s, air[i].space)
    BY <2>2, OffWithin
  <2>4. cap[i] = Sym(m, IF i = Len(air) THEN 0 ELSE s) BY <1>2
  <2> HIDE DEF m, s
  <2>5. cap[i].mark = m /\ cap[i].space = IF i = Len(air) THEN 0 ELSE s BY <2>4 DEF Sym
  <2>6. cap[i] \in SymSet BY <2>3, <2>4 DEF Sym, SymSet
  <2> QED BY <2>3, <2>5, <2>6
<1>4. cap \in [1 .. Len(air) -> SymSet] BY <1>2, <1>3
<1>5. Heard(cap, air) BY <1>3, <1>4 DEF Heard
<1> QED BY <1>5 DEF cap, air

\* What the receiver captures of any sample is decoded to what was sent.
THEOREM DecodesWhatIsSent == DecSpec => []DecodesWhatWasSent
<1>1. DecIInv => DecodesWhatWasSent
  <2> SUFFICES ASSUME DecIInv, decoded # Pending
               PROVE  Returns(decoded, Captured(sample), sample)
    BY DEF DecodesWhatWasSent
  <2>1. sample \in Samples /\ decoded = ir_decode(Captured(sample)) BY DEF DecIInv
  <2>2. Heard(Captured(sample), OnAir(sample)) BY <2>1, CapturedIsHeard
  <2> QED BY <2>1, <2>2, DecodesAnyTiming
<1> QED BY <1>1, DecInvariant, PTL
=============================================================================
