------------------------------- MODULE WifiSta -------------------------------
(***************************************************************************)
(* The Wi-Fi station wrapper, app/wifi/app_wifi.c, with the two work items *)
(* of app_main_zephyr.c that drive it and the part of wifi_cb that calls   *)
(* back into it.                                                           *)
(*                                                                         *)
(* Two threads run this code: the net_mgmt event thread, which takes one   *)
(* event after the other from a queue, and the system work queue, which    *)
(* takes one work item after the other.  Both are cooperative, so a        *)
(* handler runs until it blocks, and it blocks in requests to the driver   *)
(* (net_mgmt).  Handlers are split there.                                  *)
(*                                                                         *)
(* The driver and the access point are external: they refuse a request,    *)
(* answer it late or never, grant an address or not, lose the link.        *)
(***************************************************************************)
EXTENDS Naturals, Sequences

CONSTANTS
    Bands,        \* k_band_seq
    MaxEvents     \* bound: events waiting for the net_mgmt thread

ASSUME WifiAssumption ==
    /\ Bands \in Seq(STRING) /\ Len(Bands) > 0
    /\ MaxEvents \in Nat \ {0}

VARIABLES
    s_started, s_connected, s_retry_idx,
    s_retry_cfg,      \* s_retry_cfg: its security mode is supported or not
    timeout_dwork,    \* the timer of s_connect_timeout_dwork
    ready_dwork,      \* the timer of s_ready_dwork
    wq,               \* work items queued on the system work queue
    wpc,              \* where the work queue thread is
    mpc,              \* where the net_mgmt thread is
    evq,              \* events posted to the net_mgmt thread
    drv,              \* what the driver is doing
    if_up,            \* NET_EVENT_IF_UP was posted
    goal,             \* history: what became of the last app_wifi_connect
    tried             \* history: bands requested since then, while it is pending

app    == <<s_started, s_connected, s_retry_idx, s_retry_cfg>>
timers == <<timeout_dwork, ready_dwork>>
hist   == <<goal, tried>>
vars   == <<app, timers, wq, wpc, mpc, evq, drv, if_up, hist>>

-----------------------------------------------------------------------------
BAND_SEQ_LEN == Len(Bands)
BandSet  == {Bands[i] : i \in 1 .. BAND_SEQ_LEN}
Works    == {"retry", "timeout", "ready", "connect", "reset"}
NetEvts  == {"IF_UP", "OK", "FAIL", "WRONG_PW", "DISC", "DHCP"}

\* Every failure counter stays small: late results and timeouts can push
\* s_retry_idx past the end of the table, but only by one each.
WifiTypeOK ==
    /\ s_started \in BOOLEAN /\ s_connected \in BOOLEAN /\ if_up \in BOOLEAN
    /\ s_retry_idx \in 0 .. BAND_SEQ_LEN + MaxEvents + 1
    /\ s_retry_cfg \in {"supported", "unsupported"}
    /\ timeout_dwork \in {"off", "armed"}
    /\ ready_dwork \in {"unset", "off", "armed"}
    /\ wq \in Seq(Works) /\ Len(wq) <= 5
    /\ wpc \in {"idle", "accepted", "refused", "timeout_next"}
    /\ mpc \in {"idle", "joined"}
    /\ evq \in Seq(NetEvts) /\ Len(evq) <= MaxEvents
    /\ drv \in {"idle", "connecting", "connected", "bound"}
    /\ goal \in {"none", "trying", "joined", "failed"}
    /\ tried \subseteq BandSet

\* app_wifi_init has brought the interface up; it is about to schedule the
\* fallback timer.
WifiInit ==
    /\ s_started = FALSE /\ s_connected = FALSE
    /\ s_retry_idx = 0 /\ s_retry_cfg = "supported"
    /\ timeout_dwork = "off" /\ ready_dwork = "unset"
    /\ wq = <<>> /\ wpc = "idle" /\ mpc = "idle" /\ evq = <<>>
    /\ drv = "idle" /\ if_up = FALSE
    /\ goal = "none" /\ tried = {}

-----------------------------------------------------------------------------
(***************************************************************************)
(* Zephyr work items and the driver, as this code uses them.               *)
(***************************************************************************)
Queued(q, w) == \E i \in 1 .. Len(q) : q[i] = w

\* k_work_submit: an item that is already queued is not queued again.
Submit(q, w) == IF Queued(q, w) THEN q ELSE Append(q, w)

\* k_work_cancel_delayable also takes an expired item off the queue, where it
\* is at most once.
Position(q, w) == CHOOSE i \in 1 .. Len(q) : q[i] = w

Without(q, w) ==
    IF Queued(q, w)
    THEN [i \in 1 .. Len(q) - 1 |-> IF i < Position(q, w) THEN q[i] ELSE q[i + 1]]
    ELSE q

\* NET_REQUEST_WIFI_DISCONNECT: an attempt may be given up with a failure
\* event, with a disconnect event, or silently.
DriverDisconnect ==
    /\ Len(evq) < MaxEvents
    /\ drv' = "idle"
    /\ \/ drv = "idle" /\ evq' = evq
       \/ drv = "connecting" /\ evq' \in {evq, Append(evq, "FAIL"), Append(evq, "DISC")}
       \/ drv \in {"connected", "bound"} /\ evq' = Append(evq, "DISC")

\* The driver and the network, at any time.
DriverStep ==
    /\ Len(evq) < MaxEvents
    /\ \/ /\ drv = "connecting"
          /\ \/ drv' = "connected" /\ evq' = Append(evq, "OK")
             \/ drv' = "idle" /\ \E e \in {"FAIL", "WRONG_PW"} : evq' = Append(evq, e)
       \/ drv = "connected" /\ drv' = "bound" /\ evq' = Append(evq, "DHCP")
       \/ drv \in {"connected", "bound"} /\ drv' = "idle" /\ evq' = Append(evq, "DISC")
    /\ UNCHANGED <<app, timers, wq, wpc, mpc, if_up, hist>>

IfUp ==
    /\ ~if_up /\ Len(evq) < MaxEvents
    /\ if_up' = TRUE
    /\ evq' = Append(evq, "IF_UP")
    /\ UNCHANGED <<app, timers, wq, wpc, mpc, drv, hist>>

\* The end of app_wifi_init, on the thread that runs bt_ready_cb.
ArmReady ==
    /\ ready_dwork = "unset"
    /\ ready_dwork' = "armed"
    /\ UNCHANGED <<app, timeout_dwork, wq, wpc, mpc, evq, drv, if_up, hist>>

ReadyExpires ==
    /\ ready_dwork = "armed"
    /\ ready_dwork' = "off"
    /\ wq' = Submit(wq, "ready")
    /\ UNCHANGED <<app, timeout_dwork, wpc, mpc, evq, drv, if_up, hist>>

TimeoutExpires ==
    /\ timeout_dwork = "armed"
    /\ timeout_dwork' = "off"
    /\ wq' = Submit(wq, "timeout")
    /\ UNCHANGED <<app, ready_dwork, wpc, mpc, evq, drv, if_up, hist>>

\* prov_cb, on the Bluetooth host: COMMIT and RESET are deferred to the work queue.
ProvCb(w) ==
    /\ wq' = Submit(wq, w)
    /\ UNCHANGED <<app, timers, wpc, mpc, evq, drv, if_up, hist>>

-----------------------------------------------------------------------------
(***************************************************************************)
(* app_wifi_connect, with q what is left of the work queue.                *)
(***************************************************************************)
ConnectFrom(q, cfg) ==
    /\ timeout_dwork' = "off"
    /\ s_retry_cfg' = cfg
    /\ s_retry_idx' = 0
    /\ wq' = Submit(Without(q, "timeout"), "retry")
    /\ goal' = "trying" /\ tried' = {}

\* The pending app_wifi_connect, if there is one, has ended.
Settled(how) ==
    /\ goal' = IF goal = "trying" THEN how ELSE goal
    /\ tried' = {}

NoConnect(q) == wq' = q /\ UNCHANGED <<timeout_dwork, s_retry_cfg, s_retry_idx, hist>>

\* emit(READY): wifi_cb connects if s_nvram_cfg is valid.
EmitReady(q) ==
    /\ s_started' = TRUE
    /\ ConnectFrom(q, "supported") \/ NoConnect(q)
    /\ UNCHANGED <<s_connected>>

-----------------------------------------------------------------------------
(***************************************************************************)
(* The work queue.  wpc says which request of a work item has returned.    *)
(***************************************************************************)
Takes(w) == wpc = "idle" /\ wq # <<>> /\ Head(wq) = w

ReadyWork ==
    /\ Takes("ready")
    /\ \/ /\ s_started
          /\ wq' = Tail(wq)
          /\ UNCHANGED <<app, timeout_dwork, hist>>
       \/ ~s_started /\ EmitReady(Tail(wq))
    /\ UNCHANGED <<ready_dwork, wpc, mpc, evq, drv, if_up>>

\* retry_work_fn up to its connect request.
Exhausted == s_retry_idx >= BAND_SEQ_LEN

\* Mutant: after the last band the next one is still taken.
M_RetryFails ==
    /\ Takes("retry")
    /\ Exhausted \/ s_retry_cfg = "unsupported"
    /\ s_retry_idx' = s_retry_idx + 1 /\ wq' = Submit(Tail(wq), "retry")
    /\ Settled("failed")
    /\ UNCHANGED <<s_started, s_connected, s_retry_cfg, timers, wpc, mpc, evq, drv, if_up>>

RetryFails ==
    /\ Takes("retry")
    /\ Exhausted \/ s_retry_cfg = "unsupported"
    /\ wq' = Tail(wq)
    /\ Settled("failed")
    /\ UNCHANGED <<app, timers, wpc, mpc, evq, drv, if_up>>

RetryRequest ==
    /\ Takes("retry")
    /\ ~Exhausted /\ s_retry_cfg = "supported"
    /\ wq' = Tail(wq)
    /\ tried' = IF goal = "trying" THEN tried \cup {Bands[s_retry_idx + 1]} ELSE tried
    /\ \/ wpc' = "accepted" /\ drv' = "connecting"
       \/ wpc' = "refused" /\ UNCHANGED drv
    /\ UNCHANGED <<app, timers, mpc, evq, if_up, goal>>

\* Mutant: no timeout is started.
M_RetryAccepted ==
    /\ wpc = "accepted"
    /\ wpc' = "idle"
    /\ UNCHANGED <<app, timers, wq, mpc, evq, drv, if_up, hist>>

\* The request is back.  k_work_schedule leaves a pending timeout as it is.
RetryAccepted ==
    /\ wpc = "accepted"
    /\ wpc' = "idle"
    /\ timeout_dwork' = IF Queued(wq, "timeout") THEN timeout_dwork ELSE "armed"
    /\ UNCHANGED <<app, ready_dwork, wq, mpc, evq, drv, if_up, hist>>

\* s_retry_idx++ and k_work_submit.
NextBand(q) ==
    /\ s_retry_idx' = s_retry_idx + 1
    /\ wq' = Submit(q, "retry")

RetryRefused ==
    /\ wpc = "refused"
    /\ wpc' = "idle"
    /\ NextBand(wq)
    /\ UNCHANGED <<s_started, s_connected, s_retry_cfg, timers, mpc, evq,
                   drv, if_up, hist>>

\* connect_timeout_fn: disconnect, then the next band.
TimeoutWork ==
    /\ Takes("timeout")
    /\ wq' = Tail(wq)
    /\ wpc' = "timeout_next"
    /\ DriverDisconnect
    /\ UNCHANGED <<app, timers, mpc, if_up, hist>>

TimeoutNext ==
    /\ wpc = "timeout_next"
    /\ wpc' = "idle"
    /\ NextBand(wq)
    /\ UNCHANGED <<s_started, s_connected, s_retry_cfg, timers, mpc, evq,
                   drv, if_up, hist>>

\* prov_connect_work_fn: the record is loaded and app_wifi_connect is called,
\* which refuses before READY.
ConnectWork ==
    /\ Takes("connect")
    /\ \/ NoConnect(Tail(wq))
       \/ s_started /\ \E cfg \in {"supported", "unsupported"} : ConnectFrom(Tail(wq), cfg)
    /\ UNCHANGED <<s_started, s_connected, ready_dwork, wpc, mpc, evq, drv,
                   if_up>>

\* Mutant: the pending timeout is not cancelled.
M_ResetWork ==
    /\ Takes("reset")
    /\ wq' = Tail(wq)
    /\ s_retry_idx' = BAND_SEQ_LEN
    /\ s_connected' = FALSE
    /\ DriverDisconnect
    /\ goal' = "none" /\ tried' = {}
    /\ UNCHANGED <<s_started, s_retry_cfg, timers, wpc, mpc, if_up>>

\* prov_reset_work_fn: app_wifi_disconnect (the TCP client is stopped before).
ResetWork ==
    /\ Takes("reset")
    /\ wq' = Without(Tail(wq), "timeout")
    /\ timeout_dwork' = "off"
    /\ s_retry_idx' = BAND_SEQ_LEN
    /\ s_connected' = FALSE
    /\ DriverDisconnect
    /\ goal' = "none" /\ tried' = {}
    /\ UNCHANGED <<s_started, s_retry_cfg, ready_dwork, wpc, mpc, if_up>>

WorkQueue ==
    \/ ReadyWork \/ RetryFails \/ RetryRequest \/ RetryAccepted \/ RetryRefused
    \/ TimeoutWork \/ TimeoutNext \/ ConnectWork \/ ResetWork

-----------------------------------------------------------------------------
(***************************************************************************)
(* The net_mgmt event thread.                                              *)
(***************************************************************************)
Handles(e) == mpc = "idle" /\ evq # <<>> /\ Head(evq) = e /\ evq' = Tail(evq)

IfaceEvent ==
    /\ Handles("IF_UP")
    /\ \/ /\ s_started
                /\ UNCHANGED <<app, timers, wq, hist>>
       \/ /\ ~s_started
          /\ ready_dwork' = IF ready_dwork = "armed" THEN "off" ELSE ready_dwork
          /\ EmitReady(Without(wq, "ready"))
    /\ UNCHANGED <<wpc, mpc, drv, if_up>>

ConnectFailed ==
    /\ Handles("FAIL")
    /\ timeout_dwork' = "off"
    /\ NextBand(Without(wq, "timeout"))
    /\ UNCHANGED <<s_started, s_connected, s_retry_cfg, ready_dwork, wpc,
                   mpc, drv, if_up, hist>>

ConnectWrongPassword ==
    /\ Handles("WRONG_PW")
    /\ timeout_dwork' = "off"
    /\ wq' = Without(wq, "timeout")
    /\ Settled("failed")
    /\ UNCHANGED <<app, ready_dwork, wpc, mpc, drv, if_up>>

ConnectOk ==
    /\ Handles("OK")
    /\ timeout_dwork' = "off"
    /\ wq' = Without(wq, "timeout")
    /\ s_connected' = TRUE
    /\ mpc' = "joined"
    /\ Settled("joined")
    /\ UNCHANGED <<s_started, s_retry_idx, s_retry_cfg, ready_dwork, wpc,
                   drv, if_up>>

\* disable_power_save and log_connection_status have returned.
Joined ==
    /\ mpc = "joined"
    /\ mpc' = "idle"
    /\ UNCHANGED <<s_started, s_connected, s_retry_idx, s_retry_cfg, timers, wq, wpc, evq,
                   drv, if_up, hist>>

Disconnected ==
    /\ Handles("DISC")
    /\ s_connected' = FALSE
    /\ UNCHANGED <<s_started, s_retry_idx, s_retry_cfg, timers, wq, wpc, mpc, drv, if_up,
                   hist>>

DhcpBound ==
    /\ Handles("DHCP")
    /\ UNCHANGED <<app, timers, wq, wpc, mpc, drv, if_up, hist>>

NetMgmt ==
    \/ IfaceEvent \/ ConnectFailed \/ ConnectWrongPassword \/ ConnectOk \/ Joined
    \/ Disconnected \/ DhcpBound

-----------------------------------------------------------------------------
WifiNext ==
    \/ DriverStep \/ IfUp
    \/ ArmReady \/ ReadyExpires \/ TimeoutExpires
    \/ \E w \in {"connect", "reset"} : ProvCb(w)
    \/ WorkQueue
    \/ NetMgmt

WifiSpec == WifiInit /\ [][WifiNext]_vars

\* The two threads run on and armed timers expire.  Nothing is assumed of the
\* driver: an attempt it never answers is ended by the timeout.
WifiFairness ==
    /\ WF_vars(WorkQueue)
    /\ WF_vars(NetMgmt)
    /\ WF_vars(TimeoutExpires)

WifiFairSpec == WifiSpec /\ WifiFairness

-----------------------------------------------------------------------------
(***************************************************************************)
(* Properties.                                                             *)
(***************************************************************************)

\* app_wifi_disconnect sets s_retry_idx to the end of the table to "cancel
\* pending retry": until the next app_wifi_connect no timeout is pending and no
\* retry that is queued, or that a late failure queues, makes a request.
ResetQuiesces ==
    goal = "none" =>
        /\ timeout_dwork = "off"
        /\ ~Queued(wq, "timeout")
        /\ wpc = "idle"
        /\ Queued(wq, "retry") => Exhausted

\* Every app_wifi_connect comes to an end: the station joins, AUTH_FAILED is
\* reported, or a reset takes the request back; also when the driver answers
\* late, never, or to a request that was given up.  The user, who can start
\* over at any time, is assumed to stop doing so.
AttemptEnds ==
    <>[][~\E w \in {"connect", "reset"} : ProvCb(w)]_vars
        => (goal = "trying" ~> goal # "trying")

-----------------------------------------------------------------------------
(***************************************************************************)
(* What a comment says and the code does not do.                           *)
(***************************************************************************)

\* app_wifi.c: the bands are tried "5GHz -> 2.4GHz" one after the other.  So
\* every band was requested when the retries are reported as exhausted.
BandsAllTried ==
    [][RetryFails /\ Exhausted /\ goal = "trying" => tried = BandSet]_vars
=============================================================================
