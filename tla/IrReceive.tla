------------------------------ MODULE IrReceive ------------------------------
(***************************************************************************)
(* Receiving infrared: the double-buffered capture of                      *)
(* ir/ir_rx_nxp_gpio_ctimer.c.                                             *)
(*                                                                         *)
(* gpio_edge_cb is an interrupt: it runs at any time outside irq_lock.     *)
(* gap_work_handler and the callback it makes run on the system work       *)
(* queue, one at a time.  A duration is replaced by the epoch in which it  *)
(* was measured (0 is a space that was not measured), so that what a frame *)
(* contains tells when it was captured.                                    *)
(***************************************************************************)
EXTENDS Integers

CONSTANTS
    RxMaxSymbols, RxMinSymbols,  \* APP_IR_RX_MAX_SYMBOLS, APP_IR_RX_MIN_SYMBOLS
    Epochs                       \* epochs are counted modulo this

ASSUME RxAssumption ==
    /\ RxMaxSymbols \in Nat \ {0} /\ RxMinSymbols \in 1 .. RxMaxSymbols
    /\ Epochs \in Nat /\ Epochs > 2

VARIABLES
    s_wr_idx, s_wr_len, s_phase, rx_buf, s_rx_active,
    gap_timer, gap_queued,  \* s_gap_work: its timer runs, it is in the queue
    reading,                \* what the callback was given: buffer, length, epoch
    epoch                   \* the epoch of the frame being captured

capture == <<s_wr_idx, s_wr_len, s_phase, rx_buf, s_rx_active, gap_timer, epoch>>
rx_vars == <<capture, gap_queued, reading>>

NoFrameRead == [buf |-> 0, len |-> 0, ep |-> 0]
EpochSet    == 1 .. Epochs

RxTypeOK ==
    /\ s_wr_idx \in {0, 1} /\ s_wr_len \in 0 .. RxMaxSymbols
    /\ s_phase \in {"IDLE", "MARK", "SPACE"}
    /\ rx_buf \in [{0, 1} -> [1 .. RxMaxSymbols ->
                      [mark : EpochSet \cup {0}, space : EpochSet \cup {0}]]]
    /\ {s_rx_active, gap_timer, gap_queued} \subseteq BOOLEAN
    /\ reading \in [buf : {0, 1}, len : 0 .. RxMaxSymbols, ep : EpochSet \cup {0}]
    /\ epoch \in EpochSet

RxInit ==
    /\ s_wr_idx = 0 /\ s_wr_len = 0 /\ s_phase = "IDLE" /\ epoch = 1
    /\ rx_buf = [i \in {0, 1} |-> [k \in 1 .. RxMaxSymbols |-> [mark |-> 0, space |-> 0]]]
    /\ s_rx_active = FALSE /\ gap_timer = FALSE /\ gap_queued = FALSE
    /\ reading = NoFrameRead

NextEpoch == (epoch % Epochs) + 1

-----------------------------------------------------------------------------
(***************************************************************************)
(* ir_rx_start, which may fail to enable the interrupt, and ir_rx_stop.    *)
(***************************************************************************)
RxStart ==
    /\ s_wr_len' = 0 /\ s_phase' = "IDLE" /\ s_rx_active' \in BOOLEAN
    /\ epoch' = NextEpoch
    /\ UNCHANGED <<s_wr_idx, rx_buf, gap_timer, gap_queued, reading>>

RxStop ==
    /\ s_rx_active
    /\ s_rx_active' = FALSE /\ gap_timer' = FALSE /\ gap_queued' = FALSE
    /\ UNCHANGED <<s_wr_idx, s_wr_len, s_phase, rx_buf, epoch, reading>>

(***************************************************************************)
(* gpio_edge_cb.  The level is read after the edge, so a missed edge shows *)
(* as two edges of the same kind.                                          *)
(***************************************************************************)
Edge == s_rx_active /\ gap_timer' = TRUE

FallingEdge ==
    /\ Edge
    /\ s_phase' = "MARK"
    /\ rx_buf' = IF s_phase = "SPACE" /\ s_wr_len > 0
                 THEN [rx_buf EXCEPT ![s_wr_idx][s_wr_len].space = epoch]
                 ELSE rx_buf
    /\ UNCHANGED <<s_wr_idx, s_wr_len, s_rx_active, epoch, gap_queued, reading>>

\* Mutant: the space of the new symbol is not reset.
M_RisingEdge ==
    /\ Edge
    /\ s_phase' = IF s_phase = "MARK" THEN "SPACE" ELSE s_phase
    /\ \/ /\ s_phase = "MARK" /\ s_wr_len < RxMaxSymbols
          /\ rx_buf' = [rx_buf EXCEPT ![s_wr_idx][s_wr_len + 1].mark = epoch]
          /\ s_wr_len' = s_wr_len + 1
       \/ /\ s_phase # "MARK" \/ s_wr_len = RxMaxSymbols
          /\ UNCHANGED <<rx_buf, s_wr_len>>
    /\ UNCHANGED <<s_wr_idx, s_rx_active, epoch, gap_queued, reading>>

RisingEdge ==
    /\ Edge
    /\ s_phase' = IF s_phase = "MARK" THEN "SPACE" ELSE s_phase
    /\ \/ /\ s_phase = "MARK" /\ s_wr_len < RxMaxSymbols
          /\ rx_buf' = [rx_buf EXCEPT ![s_wr_idx][s_wr_len + 1] = [mark |-> epoch, space |-> 0]]
          /\ s_wr_len' = s_wr_len + 1
       \/ /\ s_phase # "MARK" \/ s_wr_len = RxMaxSymbols
          /\ UNCHANGED <<rx_buf, s_wr_len>>
    /\ UNCHANGED <<s_wr_idx, s_rx_active, epoch, gap_queued, reading>>

-----------------------------------------------------------------------------
(***************************************************************************)
(* APP_IR_RX_GAP_WORK_MS without an edge, and gap_work_handler.  An edge   *)
(* between the two arms the timer again but leaves the work in the queue.  *)
(***************************************************************************)
GapExpires ==
    /\ gap_timer
    /\ gap_timer' = FALSE /\ gap_queued' = TRUE
    /\ UNCHANGED <<s_wr_idx, s_wr_len, s_phase, rx_buf, s_rx_active, epoch, reading>>

GapWork ==
    /\ gap_queued /\ reading = NoFrameRead
    /\ gap_queued' = FALSE
    /\ s_wr_idx' = 1 - s_wr_idx
    /\ s_wr_len' = 0 /\ s_phase' = "IDLE" /\ epoch' = NextEpoch
    /\ reading' = IF s_wr_len >= RxMinSymbols
                  THEN [buf |-> s_wr_idx, len |-> s_wr_len, ep |-> epoch]
                  ELSE NoFrameRead
    /\ UNCHANGED <<rx_buf, s_rx_active, gap_timer>>

\* The callback returns: what it does with the frame is IrDecode's FrameCb.
CallbackReturns ==
    /\ reading # NoFrameRead
    /\ reading' = NoFrameRead
    /\ UNCHANGED <<capture, gap_queued>>

RxNext ==
    \/ RxStart \/ RxStop \/ FallingEdge \/ RisingEdge \/ GapExpires \/ GapWork
    \/ CallbackReturns

RxSpec == RxInit /\ [][RxNext]_rx_vars

-----------------------------------------------------------------------------
(***************************************************************************)
(* Properties.                                                             *)
(***************************************************************************)

\* While the callback reads a frame, whatever edges arrive, the frame holds only
\* what was captured for it: every mark is of its own epoch, every space is too
\* or is 0.  Nothing of an older frame shows through and nothing of the next one
\* is written into it.
FrameFresh ==
    reading # NoFrameRead =>
        /\ reading.buf # s_wr_idx
        /\ \A k \in 1 .. reading.len :
              LET s == rx_buf[reading.buf][k]
              IN  s.mark = reading.ep /\ s.space \in {0, reading.ep}
=============================================================================
