-------------------------------- MODULE Radar --------------------------------
(***************************************************************************)
(* The radar's UART (radar/app_radar_zephyr.c): a double buffer lent to    *)
(* the asynchronous UART driver.  The driver and its DMA are external:     *)
(* modelled by the events the callback handles.  It holds the buffer being *)
(* filled and the next one, and returns both before RX_DISABLED.           *)
(***************************************************************************)
EXTENDS Integers

RX_BUF_COUNT == 2
NoBuf == RX_BUF_COUNT
Bufs  == 0 .. RX_BUF_COUNT - 1

VARIABLES
    r_running,         \* s_running
    s_buf_idx,
    rx,                \* driver: "off", "request" (wants the next buffer), "on"
    filling, queued,   \* driver: the buffers it holds
    start_pc,          \* app_radar_start is between uart_rx_enable and s_running
    stop_pc,           \* app_radar_stop is between s_running and uart_rx_disable
    s_rx_seen,
    rx_lost,           \* reception ended where the code does not restart it
    lent_twice         \* a buffer was lent while the driver still held it

rad_vars == <<r_running, s_buf_idx, rx, filling, queued, start_pc, stop_pc, s_rx_seen, rx_lost,
              lent_twice>>

RadInit ==
    /\ r_running = FALSE /\ s_buf_idx = 0 /\ rx = "off"
    /\ filling = NoBuf /\ queued = NoBuf
    /\ start_pc = FALSE /\ stop_pc = FALSE /\ s_rx_seen = FALSE
    /\ rx_lost = FALSE /\ lent_twice = FALSE

Next_idx == (s_buf_idx + 1) % RX_BUF_COUNT

\* uart_rx_enable: the driver takes the buffer and asks for the next one.
Enables(b) ==
    /\ filling' = b /\ queued' = NoBuf /\ rx' = "request"
    /\ lent_twice' = (lent_twice \/ b \in {filling, queued})

-----------------------------------------------------------------------------
\* The callers start a radar that was stopped, one call at a time.
app_radar_start ==
    /\ ~r_running /\ ~start_pc /\ ~stop_pc /\ rx = "off"
    /\ s_buf_idx' = 0
    /\ \/ Enables(0) /\ start_pc' = TRUE
       \/ UNCHANGED <<rx, filling, queued, lent_twice, start_pc>>    \* refused
    /\ UNCHANGED <<r_running, stop_pc, s_rx_seen, rx_lost>>

Started ==
    /\ start_pc /\ start_pc' = FALSE
    /\ r_running' = TRUE /\ s_rx_seen' = FALSE
    /\ rx_lost' = (rx = "off")
    /\ UNCHANGED <<s_buf_idx, rx, filling, queued, stop_pc, lent_twice>>

app_radar_stop ==
    /\ r_running /\ ~stop_pc
    /\ r_running' = FALSE /\ stop_pc' = TRUE
    /\ UNCHANGED <<s_buf_idx, rx, filling, queued, start_pc, s_rx_seen, rx_lost, lent_twice>>

-----------------------------------------------------------------------------
(***************************************************************************)
(* uart_async_cb, one action an event.                                     *)
(***************************************************************************)
\* UART_RX_RDY: data of the buffer being filled goes to radar_rx_cb.
RxRdy ==
    /\ rx # "off"
    /\ s_rx_seen' = TRUE
    /\ UNCHANGED <<r_running, s_buf_idx, rx, filling, queued, start_pc, stop_pc, rx_lost, lent_twice>>

\* Mutant: the index is advanced only after the buffer was given.
M_BufRequest ==
    /\ rx = "request"
    /\ s_buf_idx' = Next_idx
    /\ queued' = s_buf_idx /\ rx' = "on"
    /\ lent_twice' = (lent_twice \/ s_buf_idx = filling)
    /\ UNCHANGED <<r_running, filling, start_pc, stop_pc, s_rx_seen, rx_lost>>

BufRequest ==
    /\ rx = "request"
    /\ s_buf_idx' = Next_idx
    /\ queued' = Next_idx /\ rx' = "on"
    /\ lent_twice' = (lent_twice \/ Next_idx = filling)
    /\ UNCHANGED <<r_running, filling, start_pc, stop_pc, s_rx_seen, rx_lost>>

\* The buffer is full: it is released and the driver goes on with the next one.
BufFull ==
    /\ rx = "on"
    /\ filling' = queued /\ queued' = NoBuf /\ rx' = "request"
    /\ UNCHANGED <<r_running, s_buf_idx, start_pc, stop_pc, s_rx_seen, rx_lost, lent_twice>>

\* UART_RX_DISABLED, after an error or when the driver ran out of buffers:
\* restarted only while s_running, and the restart may be refused.
Disabled ==
    /\ rx # "off"
    /\ s_buf_idx' = IF r_running THEN Next_idx ELSE s_buf_idx
    /\ \/ /\ r_running
          /\ filling' = Next_idx /\ queued' = NoBuf /\ rx' = "request"
          /\ UNCHANGED rx_lost
       \/ /\ filling' = NoBuf /\ queued' = NoBuf /\ rx' = "off"
          /\ rx_lost' = r_running
    /\ UNCHANGED <<r_running, start_pc, stop_pc, s_rx_seen, lent_twice>>

\* uart_rx_disable in app_radar_stop.
StopDisables ==
    /\ stop_pc /\ stop_pc' = FALSE
    /\ filling' = NoBuf /\ queued' = NoBuf /\ rx' = "off"
    /\ UNCHANGED <<r_running, s_buf_idx, start_pc, s_rx_seen, rx_lost, lent_twice>>

RadNext ==
    \/ app_radar_start \/ Started \/ app_radar_stop
    \/ RxRdy \/ BufRequest \/ BufFull \/ Disabled \/ StopDisables

RadSpec == RadInit /\ [][RadNext]_rad_vars

-----------------------------------------------------------------------------
\* The driver is never lent a buffer that it still holds, whatever order its
\* events come in, and a running radar receives, unless the driver refused the
\* restart or failed before app_radar_start had set s_running.
BuffersLentOnce ==
    /\ ~lent_twice
    /\ filling # NoBuf => filling # queued
    /\ r_running /\ ~rx_lost => rx # "off"
=============================================================================
