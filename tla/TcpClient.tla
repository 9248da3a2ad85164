------------------------------ MODULE TcpClient ------------------------------
(***************************************************************************)
(* The TCP client, app/tcp/app_tcp_client.c: tcp_task, and the threads     *)
(* that start and stop it through wifi_cb (the net_mgmt thread) and        *)
(* prov_reset_work_fn (the system work queue) in app_main_zephyr.c.        *)
(*                                                                         *)
(* Socket descriptors are small integers of one table that every socket    *)
(* user of the firmware shares, so a descriptor that was closed may be     *)
(* somebody else's socket by the time it is used again.                    *)
(***************************************************************************)
EXTENDS Integers, FiniteSets

CONSTANTS
    Fds,          \* the descriptor table
    Stoppers,     \* threads that call app_tcp_client_stop
    OtherUsers,   \* other socket users: the OTA download, the TCP server
    RetryMin,     \* APP_TCP_RETRY_MS_MIN
    RetryMax      \* APP_TCP_RETRY_MS_MAX

NoFd == -1

ASSUME TcpAssumption ==
    /\ Fds \subseteq Nat /\ IsFiniteSet(Fds)
    /\ RetryMin \in Nat \ {0} /\ RetryMax \in Nat /\ RetryMin <= RetryMax
    /\ "client" \notin OtherUsers /\ "free" \notin OtherUsers

VARIABLES
    s_running, s_connected, s_sock,
    task,        \* the static k_thread tcp_task_data
    tpc,         \* where tcp_task is
    s,           \* its local descriptor
    backoff,     \* its local backoff
    spc,         \* where each stopper is in app_tcp_client_stop
    fdtab,       \* who opened each descriptor of the table
    held         \* the descriptors each other user has opened and not closed

tcp_vars == <<s_running, s_connected, s_sock, task, tpc, s, backoff, spc, fdtab, held>>

TcpTypeOK ==
    /\ s_running \in BOOLEAN /\ s_connected \in BOOLEAN
    /\ s_sock \in Fds \cup {NoFd} /\ s \in Fds \cup {NoFd}
    /\ task \in {"none", "live", "corrupt"}
    /\ tpc \in {"off", "loop", "connect", "publish", "recv", "unpublish", "close", "sleep"}
    /\ backoff \in RetryMin .. RetryMax
    /\ spc \in [Stoppers -> {"idle", "stop"}]
    /\ fdtab \in [Fds -> {"free", "client"} \cup OtherUsers]
    /\ held \in [OtherUsers -> SUBSET Fds]

TcpInit ==
    /\ s_running = FALSE /\ s_connected = FALSE /\ s_sock = NoFd
    /\ task = "none" /\ tpc = "off" /\ s = NoFd /\ backoff = RetryMin
    /\ spc = [c \in Stoppers |-> "idle"]
    /\ fdtab = [f \in Fds |-> "free"]
    /\ held = [u \in OtherUsers |-> {}]

\* A thread object that was created again while it lives: the model stops.
Defined   == task # "corrupt"
Undefined == ~Defined /\ UNCHANGED tcp_vars

-----------------------------------------------------------------------------
(***************************************************************************)
(* zsock_socket and zsock_close.                                           *)
(***************************************************************************)
Opens(u, f) == fdtab[f] = "free" /\ fdtab' = [fdtab EXCEPT ![f] = u]

\* Whoever opened f, it is closed; a free descriptor is an error nobody checks.
Closes(f) == fdtab' = [fdtab EXCEPT ![f] = "free"]

-----------------------------------------------------------------------------
(***************************************************************************)
(* app_tcp_client_start, from wifi_cb(CONNECTED).                          *)
(***************************************************************************)
Start ==
    /\ Defined /\ ~s_running
    /\ s_running' = TRUE
    /\ \/ /\ tpc = "off"
          /\ task' = "live" /\ tpc' = "loop" /\ backoff' = RetryMin /\ s' = NoFd
       \/ /\ tpc # "off"
          /\ task' = "corrupt"
          /\ UNCHANGED <<tpc, backoff, s>>
    /\ UNCHANGED <<s_connected, s_sock, spc, fdtab, held>>

(***************************************************************************)
(* app_tcp_client_stop: s_running is cleared, then s_lock is taken.        *)
(***************************************************************************)
StopEnter(c) ==
    /\ Defined /\ spc[c] = "idle"
    /\ s_running' = FALSE
    /\ spc' = [spc EXCEPT ![c] = "stop"]
    /\ UNCHANGED <<s_connected, s_sock, task, tpc, s, backoff, fdtab, held>>

\* Mutant: stop that forgets s_connected.
M_StopLocked(c) ==
    /\ Defined /\ spc[c] = "stop"
    /\ spc' = [spc EXCEPT ![c] = "idle"]
    /\ \/ s_sock = NoFd /\ UNCHANGED <<s_sock, fdtab>>
       \/ s_sock # NoFd /\ Closes(s_sock) /\ s_sock' = NoFd
    /\ UNCHANGED <<s_running, s_connected, task, tpc, s, backoff, held>>

StopLocked(c) ==
    /\ Defined /\ spc[c] = "stop"
    /\ spc' = [spc EXCEPT ![c] = "idle"]
    /\ \/ s_sock = NoFd /\ UNCHANGED <<s_sock, s_connected, fdtab>>
       \/ s_sock # NoFd /\ Closes(s_sock) /\ s_sock' = NoFd /\ s_connected' = FALSE
    /\ UNCHANGED <<s_running, task, tpc, s, backoff, held>>

-----------------------------------------------------------------------------
(***************************************************************************)
(* tcp_task.                                                               *)
(***************************************************************************)
At(l) == task = "live" /\ tpc = l

\* The while condition, and zsock_socket.
Loop ==
    /\ At("loop")
    /\ \/ /\ ~s_running
          /\ tpc' = "off" /\ task' = "none"
          /\ UNCHANGED <<s, fdtab>>
       \/ /\ s_running
          /\ tpc' = "sleep"
          /\ UNCHANGED <<task, s, fdtab>>
       \/ /\ s_running
          /\ \E f \in Fds : Opens("client", f) /\ s' = f
          /\ tpc' = "connect"
          /\ UNCHANGED task
    /\ UNCHANGED <<s_running, s_connected, s_sock, backoff, spc, held>>

\* Mutant: the socket is not closed before the sleep.
M_ConnectFails ==
    /\ At("connect")
    /\ s' = NoFd
    /\ tpc' = "sleep"
    /\ UNCHANGED <<s_running, s_connected, s_sock, task, backoff, spc, fdtab, held>>

ConnectFails ==
    /\ At("connect")
    /\ Closes(s)
    /\ s' = NoFd
    /\ tpc' = "sleep"
    /\ UNCHANGED <<s_running, s_connected, s_sock, task, backoff, spc, held>>

Connected ==
    /\ At("connect")
    /\ backoff' = RetryMin
    /\ tpc' = "publish"
    /\ UNCHANGED <<s_running, s_connected, s_sock, task, s, spc, fdtab, held>>

\* Mutant: no cap.
M_backoff_next(cur) == cur * 2

backoff_next(cur) == IF cur * 2 > RetryMax THEN RetryMax ELSE cur * 2

Sleep ==
    /\ At("sleep")
    /\ backoff' = backoff_next(backoff)
    /\ tpc' = "loop"
    /\ UNCHANGED <<s_running, s_connected, s_sock, task, s, spc, fdtab, held>>

Publish ==
    /\ At("publish")
    /\ s_sock' = s /\ s_connected' = TRUE
    /\ tpc' = "recv"
    /\ UNCHANGED <<s_running, task, s, backoff, spc, fdtab, held>>

\* The recv loop ends: the peer closes, the link fails, or the descriptor was
\* closed underneath.  What s_rx_cb does with data is OtaHttp's StartEnter.
RecvEnds ==
    /\ At("recv")
    /\ tpc' = "unpublish"
    /\ UNCHANGED <<s_running, s_connected, s_sock, task, s, backoff, spc, fdtab, held>>

Unpublish ==
    /\ At("unpublish")
    /\ s_connected' = FALSE /\ s_sock' = NoFd
    /\ tpc' = "close"
    /\ UNCHANGED <<s_running, task, s, backoff, spc, fdtab, held>>

CloseOwn ==
    /\ At("close")
    /\ Closes(s)
    /\ s' = NoFd
    /\ tpc' = "loop"
    /\ UNCHANGED <<s_running, s_connected, s_sock, task, backoff, spc, held>>

TcpTask ==
    \/ Loop \/ ConnectFails \/ Connected \/ Sleep \/ Publish \/ RecvEnds
    \/ Unpublish \/ CloseOwn

-----------------------------------------------------------------------------
(***************************************************************************)
(* The other socket users: each opens descriptors and closes its own.      *)
(***************************************************************************)
OtherOpens(u) ==
    /\ Defined
    /\ \E f \in Fds : Opens(u, f) /\ held' = [held EXCEPT ![u] = @ \cup {f}]
    /\ UNCHANGED <<s_running, s_connected, s_sock, task, tpc, s, backoff, spc>>

OtherCloses(u) ==
    /\ Defined
    /\ \E f \in held[u] : Closes(f) /\ held' = [held EXCEPT ![u] = @ \ {f}]
    /\ UNCHANGED <<s_running, s_connected, s_sock, task, tpc, s, backoff, spc>>

TcpNext ==
    \/ Start
    \/ \E c \in Stoppers : StopEnter(c) \/ StopLocked(c)
    \/ TcpTask
    \/ \E u \in OtherUsers : OtherOpens(u) \/ OtherCloses(u)
    \/ Undefined

TcpSpec == TcpInit /\ [][TcpNext]_tcp_vars

-----------------------------------------------------------------------------
(***************************************************************************)
(* Properties.                                                             *)
(***************************************************************************)

\* The socket that app_tcp_client_send would write to is the one the task has
\* connected and receives on, never a number left over from an earlier
\* connection, wherever stops, reconnects and other socket users meet it.
SendCurrent == s_connected => s_sock # NoFd /\ s_sock = s /\ tpc \in {"recv", "unpublish"}

\* A socket the client opened is always known to its task, which closes it:
\* failed connects, stops and reconnects leave no descriptor behind.
NoFdLeak == Defined => \A f \in Fds : fdtab[f] = "client" => f = s

-----------------------------------------------------------------------------
(***************************************************************************)
(* The inductive invariant.                                                *)
(***************************************************************************)

\* The task's local descriptor and s_sock follow its location: s is set from
\* zsock_socket to zsock_close, s_sock only while the task receives.
TaskInv ==
    /\ tpc \in {"off", "loop", "sleep"} => s = NoFd
    /\ tpc \notin {"off", "loop", "sleep"} => s # NoFd
    /\ s_sock # NoFd => s_sock = s /\ tpc \in {"recv", "unpublish"}
    /\ s_connected => s_sock # NoFd
    /\ \A f \in Fds : fdtab[f] = "client" => f = s

TcpIInv == TcpTypeOK /\ TaskInv
=============================================================================
