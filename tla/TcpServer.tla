------------------------------ MODULE TcpServer ------------------------------
(***************************************************************************)
(* The TCP server, app/tcp/app_tcp_server.c: srv_task and the threads that *)
(* start and stop it.  Sections under s_lock are one step.                 *)
(*                                                                         *)
(* As in TcpClient, descriptors are numbers of a table that all socket     *)
(* users share.  Unlike the client, the server closes only what is still   *)
(* published, so no number is closed twice.                                *)
(***************************************************************************)
EXTENDS Integers, FiniteSets

CONSTANTS
    Fds,          \* the descriptor table
    Stoppers,     \* threads that call app_tcp_server_stop
    OtherUsers    \* other socket users: the TCP client, the OTA download

NoFd == -1

ASSUME SrvAssumption ==
    /\ Fds \subseteq Nat /\ IsFiniteSet(Fds)
    /\ "server" \notin OtherUsers /\ "free" \notin OtherUsers

VARIABLES
    s_running, s_listen_sock, s_client_sock, s_client_connected,
    task,        \* the static k_thread srv_task_data
    tpc,         \* where srv_task is
    ls, cs,      \* its local descriptors
    spc,         \* where each stopper is in app_tcp_server_stop
    fdtab,       \* who opened each descriptor
    held         \* the descriptors each other user has opened and not closed

shared == <<s_listen_sock, s_client_sock, s_client_connected>>
locals == <<ls, cs>>
table  == <<fdtab, held>>
srv_vars   == <<s_running, shared, task, tpc, locals, spc, table>>

SrvTypeOK ==
    /\ s_running \in BOOLEAN /\ s_client_connected \in BOOLEAN
    /\ {s_listen_sock, s_client_sock, ls, cs} \subseteq Fds \cup {NoFd}
    /\ task \in {"none", "live", "corrupt"}
    /\ tpc \in {"off", "loop", "bind", "publish", "inner", "accept", "serve",
                "recv", "rx_cb", "unserve", "unlisten", "sleep"}
    /\ spc \in [Stoppers -> {"idle", "stop"}]
    /\ fdtab \in [Fds -> {"free", "server"} \cup OtherUsers]
    /\ held \in [OtherUsers -> SUBSET Fds]

SrvInit ==
    /\ s_running = FALSE /\ s_client_connected = FALSE
    /\ s_listen_sock = NoFd /\ s_client_sock = NoFd
    /\ task = "none" /\ tpc = "off" /\ ls = NoFd /\ cs = NoFd
    /\ spc = [c \in Stoppers |-> "idle"]
    /\ fdtab = [f \in Fds |-> "free"]
    /\ held = [u \in OtherUsers |-> {}]

\* A thread object that was created again while it lives: the model stops.
Defined   == task # "corrupt"
Undefined == ~Defined /\ UNCHANGED srv_vars

-----------------------------------------------------------------------------
(***************************************************************************)
(* zsock_socket, zsock_accept and zsock_close on the table.                *)
(***************************************************************************)
Opens(u, f) == fdtab[f] = "free" /\ fdtab' = [fdtab EXCEPT ![f] = u]
Closes(F)   == fdtab' = [f \in Fds |-> IF f \in F THEN "free" ELSE fdtab[f]]

(***************************************************************************)
(* app_tcp_server_start.                                                   *)
(***************************************************************************)
Start ==
    /\ Defined /\ ~s_running
    /\ s_running' = TRUE
    /\ \/ tpc = "off" /\ task' = "live" /\ tpc' = "loop"
       \/ tpc # "off" /\ task' = "corrupt" /\ UNCHANGED tpc
    /\ UNCHANGED <<shared, locals, spc, table>>

(***************************************************************************)
(* app_tcp_server_stop: s_running is cleared, then s_lock is taken.        *)
(***************************************************************************)
StopEnter(c) ==
    /\ Defined /\ spc[c] = "idle"
    /\ s_running' = FALSE
    /\ spc' = [spc EXCEPT ![c] = "stop"]
    /\ UNCHANGED <<shared, task, tpc, locals, table>>

\* Mutant: stop leaves the listening socket to a task that may be blocked in
\* accept on it.
M_StopLocked(c) ==
    /\ Defined /\ spc[c] = "stop"
    /\ spc' = [spc EXCEPT ![c] = "idle"]
    /\ Closes({s_client_sock} \ {NoFd})
    /\ s_client_sock' = NoFd
    /\ s_client_connected' = (s_client_connected /\ s_client_sock = NoFd)
    /\ UNCHANGED <<s_running, s_listen_sock, task, tpc, locals, held>>

\* Mutant: stop closes the client but leaves the flag to the task.
M_StopFlag(c) ==
    /\ Defined /\ spc[c] = "stop"
    /\ spc' = [spc EXCEPT ![c] = "idle"]
    /\ Closes({s_client_sock, s_listen_sock} \ {NoFd})
    /\ s_client_sock' = NoFd /\ s_listen_sock' = NoFd
    /\ UNCHANGED <<s_running, s_client_connected, task, tpc, locals, held>>

StopLocked(c) ==
    /\ Defined /\ spc[c] = "stop"
    /\ spc' = [spc EXCEPT ![c] = "idle"]
    /\ Closes({s_client_sock, s_listen_sock} \ {NoFd})
    /\ s_client_sock' = NoFd /\ s_listen_sock' = NoFd
    /\ s_client_connected' = (s_client_connected /\ s_client_sock = NoFd)
    /\ UNCHANGED <<s_running, task, tpc, locals, held>>

-----------------------------------------------------------------------------
(***************************************************************************)
(* srv_task.                                                               *)
(***************************************************************************)
At(l) == task = "live" /\ tpc = l

\* The outer while condition, and zsock_socket of build_listening_socket.
Loop ==
    /\ At("loop")
    /\ \/ ~s_running /\ tpc' = "off" /\ task' = "none" /\ UNCHANGED <<ls, fdtab>>
       \/ s_running /\ tpc' = "sleep" /\ UNCHANGED <<task, ls, fdtab>>
       \/ /\ s_running
          /\ \E f \in Fds : Opens("server", f) /\ ls' = f
          /\ tpc' = "bind" /\ UNCHANGED task
    /\ UNCHANGED <<s_running, shared, cs, spc, held>>

\* Mutant: a failed bind or listen forgets its socket.
M_BindListen ==
    /\ At("bind")
    /\ \/ tpc' = "publish" /\ UNCHANGED ls
       \/ tpc' = "sleep" /\ ls' = NoFd
    /\ UNCHANGED <<s_running, shared, task, cs, spc, table>>

\* zsock_bind and zsock_listen; a failure closes the socket.
BindListen ==
    /\ At("bind")
    /\ \/ tpc' = "publish" /\ UNCHANGED <<ls, fdtab>>
       \/ tpc' = "sleep" /\ Closes({ls}) /\ ls' = NoFd
    /\ UNCHANGED <<s_running, shared, task, cs, spc, held>>

PublishListen ==
    /\ At("publish")
    /\ s_listen_sock' = ls
    /\ tpc' = "inner"
    /\ UNCHANGED <<s_running, s_client_sock, s_client_connected, task, locals, spc, table>>

\* The inner while condition.
Inner ==
    /\ At("inner")
    /\ tpc' = IF s_running THEN "accept" ELSE "unlisten"
    /\ UNCHANGED <<s_running, shared, task, locals, spc, table>>

\* accept fails: its own error, or ls is no longer the server's socket.
AcceptFails ==
    /\ At("accept")
    /\ tpc' = "unlisten"
    /\ UNCHANGED <<s_running, shared, task, locals, spc, table>>

\* accept returns a client: ls must still be the server's socket.
Accepted ==
    /\ At("accept") /\ fdtab[ls] = "server"
    /\ \E f \in Fds : Opens("server", f) /\ cs' = f
    /\ tpc' = "serve"
    /\ UNCHANGED <<s_running, shared, task, ls, spc, held>>

\* serve_client, until its recv loop.
PublishClient ==
    /\ At("serve")
    /\ s_client_sock' = cs /\ s_client_connected' = TRUE
    /\ tpc' = "recv"
    /\ UNCHANGED <<s_running, s_listen_sock, task, locals, spc, table>>

\* recv returns data and s_rx_cb runs on it.
RecvData ==
    /\ At("recv") /\ fdtab[cs] # "free"
    /\ tpc' = "rx_cb"
    /\ UNCHANGED <<s_running, shared, task, locals, spc, table>>

RxCbReturns ==
    /\ At("rx_cb")
    /\ tpc' = "recv"
    /\ UNCHANGED <<s_running, shared, task, locals, spc, table>>

\* recv fails: the peer closed, or the descriptor is closed.
RecvEnds ==
    /\ At("recv")
    /\ tpc' = "unserve"
    /\ UNCHANGED <<s_running, shared, task, locals, spc, table>>

\* Mutant: serve_client closes its own number, as tcp_task does.
M_Unserve ==
    /\ At("unserve")
    /\ s_client_connected' = FALSE
    /\ Closes({cs})
    /\ s_client_sock' = NoFd /\ cs' = NoFd
    /\ tpc' = "inner"
    /\ UNCHANGED <<s_running, s_listen_sock, task, ls, spc, held>>

\* The end of serve_client.
Unserve ==
    /\ At("unserve")
    /\ s_client_connected' = FALSE
    /\ Closes({s_client_sock} \ {NoFd})
    /\ s_client_sock' = NoFd /\ cs' = NoFd
    /\ tpc' = "inner"
    /\ UNCHANGED <<s_running, s_listen_sock, task, ls, spc, held>>

Unlisten ==
    /\ At("unlisten")
    /\ Closes({s_listen_sock} \ {NoFd})
    /\ s_listen_sock' = NoFd /\ ls' = NoFd
    /\ tpc' = "sleep"
    /\ UNCHANGED <<s_running, s_client_sock, s_client_connected, task, cs, spc, held>>

Sleep ==
    /\ At("sleep")
    /\ tpc' = "loop"
    /\ UNCHANGED <<s_running, shared, task, locals, spc, table>>

SrvTask ==
    \/ Loop \/ BindListen \/ PublishListen \/ Inner \/ AcceptFails \/ Accepted
    \/ PublishClient \/ RecvData \/ RxCbReturns \/ RecvEnds \/ Unserve
    \/ Unlisten \/ Sleep

-----------------------------------------------------------------------------
(***************************************************************************)
(* The other socket users.                                                 *)
(***************************************************************************)
OtherOpens(u) ==
    /\ Defined
    /\ \E f \in Fds : Opens(u, f) /\ held' = [held EXCEPT ![u] = @ \cup {f}]
    /\ UNCHANGED <<s_running, shared, task, tpc, locals, spc>>

OtherCloses(u) ==
    /\ Defined
    /\ \E f \in held[u] : Closes({f}) /\ held' = [held EXCEPT ![u] = @ \ {f}]
    /\ UNCHANGED <<s_running, shared, task, tpc, locals, spc>>

SrvNext ==
    \/ Start
    \/ \E c \in Stoppers : StopEnter(c) \/ StopLocked(c)
    \/ SrvTask
    \/ \E u \in OtherUsers : OtherOpens(u) \/ OtherCloses(u)
    \/ Undefined

(***************************************************************************)
(* The task is scheduled.  A peer need not speak, close or connect: recv   *)
(* and accept return for sure only when stop has closed their descriptor.  *)
(***************************************************************************)
TaskRuns ==
    \/ Loop \/ BindListen \/ PublishListen \/ Inner \/ PublishClient \/ RxCbReturns
    \/ Unserve \/ Unlisten \/ Sleep
    \/ AcceptFails /\ fdtab[ls] # "server"
    \/ RecvEnds /\ fdtab[cs] = "free"

SrvSpec ==
    /\ SrvInit /\ [][SrvNext]_srv_vars
    /\ WF_srv_vars(TaskRuns)
    /\ \A c \in Stoppers : WF_srv_vars(StopLocked(c))

-----------------------------------------------------------------------------
(***************************************************************************)
(* Properties.                                                             *)
(***************************************************************************)

\* Every descriptor the server opened and has not closed is published, or is in
\* the task's hands on its way to be: failed binds, stops at any point and new
\* clients leave none behind.
NoServerFdLeak ==
    Defined => \A f \in Fds : fdtab[f] = "server" =>
        \/ f \in {s_listen_sock, s_client_sock}
        \/ f = ls /\ tpc \in {"bind", "publish"}
        \/ f = cs /\ tpc = "serve"

\* A socket another user holds open stays open, although stop frees numbers that
\* the task still has in its locals: neither side closes a number twice.
OthersKept == \A u \in OtherUsers : \A f \in held[u] : fdtab[f] = u

\* app_tcp_server_send writes to the client that srv_task serves, on a socket
\* that is open.
SendServed ==
    s_client_connected => /\ s_client_sock = cs /\ cs # NoFd /\ fdtab[cs] = "server"
                          /\ tpc \in {"recv", "rx_cb", "unserve"}

\* A stopped server ends, unless a client was accepted while stop ran (it is
\* then served until it leaves), or another user already has the number that
\* recv is called with.
StopEndsTask ==
    (Defined /\ ~s_running /\ \A c \in Stoppers : spc[c] = "idle")
        ~> (s_running \/ tpc = "off" \/ (tpc \in {"recv", "rx_cb"} /\ fdtab[cs] # "free"))
=============================================================================
