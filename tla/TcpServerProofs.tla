--------------------------- MODULE TcpServerProofs ---------------------------
(***************************************************************************)
(* Proofs about TcpServer for every descriptor table, set of stoppers and  *)
(* set of other socket users.                                              *)
(***************************************************************************)
EXTENDS TcpServer, TLAPS

(***************************************************************************)
(* The inductive invariant: what each location of srv_task says about its  *)
(* local descriptors and the published ones.  stop may have closed and     *)
(* withdrawn a published descriptor at any moment, so a location only says *)
(* what a descriptor is while it is published.                             *)
(***************************************************************************)

\* The listening socket: in the task's hands until published, then its local.
ListenInv ==
    /\ tpc \in {"bind", "publish"} =>
          /\ ls \in Fds /\ fdtab[ls] = "server"
          /\ s_listen_sock = NoFd
    /\ s_listen_sock # NoFd =>
          /\ s_listen_sock = ls /\ fdtab[ls] = "server"
          /\ tpc \in {"inner", "accept", "serve", "recv", "rx_cb", "unserve", "unlisten"}

\* The client's socket: in the task's hands until published; the flag and the
\* number are published and withdrawn together, and it is not the listening one.
ClientInv ==
    /\ tpc = "serve" =>
          /\ cs \in Fds /\ fdtab[cs] = "server" /\ cs # s_listen_sock
          /\ s_client_sock = NoFd
    /\ s_client_connected <=> s_client_sock # NoFd
    /\ s_client_sock # NoFd =>
          /\ s_client_sock = cs /\ fdtab[cs] = "server" /\ cs # s_listen_sock
          /\ tpc \in {"recv", "rx_cb", "unserve"}

\* Every descriptor of the server is accounted for, also in a state where the
\* thread object was overwritten.
Accounted ==
    \A f \in Fds : fdtab[f] = "server" =>
        \/ f \in {s_listen_sock, s_client_sock}
        \/ f = ls /\ tpc \in {"bind", "publish"}
        \/ f = cs /\ tpc = "serve"

SrvIInv == SrvTypeOK /\ ListenInv /\ ClientInv /\ Accounted /\ OthersKept

-----------------------------------------------------------------------------
\* The descriptor -1 is not in the table.
LEMMA NoFdOutside == NoFd \notin Fds
BY SrvAssumption DEF NoFd

\* Closing descriptors keeps the table a table, frees those and no others.
LEMMA ClosesTyped ==
    ASSUME NEW F, fdtab \in [Fds -> {"free", "server"} \cup OtherUsers], Closes(F)
    PROVE  /\ fdtab' \in [Fds -> {"free", "server"} \cup OtherUsers]
           /\ \A f \in Fds : fdtab'[f] = IF f \in F THEN "free" ELSE fdtab[f]
BY DEF Closes

\* Opening a free descriptor keeps the table a table and changes only that one.
LEMMA OpensTyped ==
    ASSUME NEW f \in Fds, NEW u \in {"server"} \cup OtherUsers,
           fdtab \in [Fds -> {"free", "server"} \cup OtherUsers], Opens(u, f)
    PROVE  /\ fdtab' \in [Fds -> {"free", "server"} \cup OtherUsers]
           /\ fdtab[f] = "free" /\ fdtab'[f] = u
           /\ \A g \in Fds \ {f} : fdtab'[g] = fdtab[g]
BY DEF Opens

\* A held descriptor is one of its holder's, neither free nor the server's.
LEMMA HeldOwned ==
    ASSUME SrvIInv
    PROVE  \A u \in OtherUsers : \A f \in held[u] :
               f \in Fds /\ fdtab[f] = u /\ fdtab[f] \notin {"free", "server"}
BY SrvAssumption DEF SrvIInv, SrvTypeOK, OthersKept

\* What the server closes, it opened: the others keep what they hold.
LEMMA ServerClosesOwn ==
    ASSUME SrvIInv, NEW F, Closes(F), UNCHANGED held,
           \A f \in F : f \in Fds => fdtab[f] = "server"
    PROVE  OthersKept'
<1>1. \A u \in OtherUsers : \A f \in held[u] : f \in Fds /\ fdtab[f] = u /\ f \notin F
  BY HeldOwned
<1> QED BY <1>1, ClosesTyped DEF SrvIInv, SrvTypeOK, OthersKept

\* The server opens what was free: the others keep what they hold.
LEMMA OpensKeeps ==
    ASSUME SrvIInv, NEW f \in Fds, Opens("server", f), UNCHANGED held
    PROVE  OthersKept'
<1>1. \A u \in OtherUsers : \A g \in held[u] : g \in Fds \ {f} /\ fdtab[g] = u
  BY HeldOwned DEF Opens
<1>2. \A g \in Fds \ {f} : fdtab'[g] = fdtab[g]
  BY OpensTyped DEF SrvIInv, SrvTypeOK
<1> QED BY <1>1, <1>2 DEF OthersKept

\* Power-on: nothing is open and nothing is published.
LEMMA InitSrvIInv == SrvInit => SrvIInv
BY NoFdOutside
DEF SrvInit, SrvIInv, SrvTypeOK, ListenInv, ClientInv, Accounted, OthersKept

-----------------------------------------------------------------------------
(***************************************************************************)
(* One lemma for the threads that start and stop, one for the task, one    *)
(* for the other socket users.                                             *)
(***************************************************************************)

\* app_tcp_server_start, also over a live task.
LEMMA StartKeeps == ASSUME SrvIInv, Start PROVE SrvIInv'
BY DEF Start, Defined, shared, locals, table, SrvIInv, SrvTypeOK, ListenInv, ClientInv,
       Accounted, OthersKept

\* Both halves of app_tcp_server_stop.
LEMMA StopKeeps ==
    ASSUME SrvIInv, NEW c \in Stoppers, StopEnter(c) \/ StopLocked(c)
    PROVE  SrvIInv'
<1>1. CASE StopEnter(c)
  BY <1>1 DEF StopEnter, shared, locals, table, SrvIInv, SrvTypeOK, ListenInv, ClientInv,
              Accounted, OthersKept
<1>2. CASE StopLocked(c)
  <2> DEFINE F == {s_client_sock, s_listen_sock} \ {NoFd}
  <2> USE <1>2, NoFdOutside DEF StopLocked, locals
  <2>1. Closes(F) /\ UNCHANGED held
    OBVIOUS
  <2>2. \A f \in F : fdtab[f] = "server"
    BY DEF SrvIInv, ListenInv, ClientInv
  <2>3. SrvTypeOK'
    BY <2>1, ClosesTyped DEF SrvIInv, SrvTypeOK
  <2>4. ListenInv' /\ Accounted'
    BY <2>1, ClosesTyped DEF SrvIInv, SrvTypeOK, ListenInv, ClientInv, Accounted
  <2>5. ClientInv'
    <3>1. ~s_client_connected'
      BY DEF SrvIInv, ClientInv
    <3>2. tpc # "serve" \/ s_listen_sock' # cs
      BY DEF SrvIInv, ClientInv
    <3>3. tpc = "serve" => cs \in Fds /\ cs \notin F /\ fdtab[cs] = "server"
      BY DEF SrvIInv, ClientInv
    <3> QED BY <2>1, <3>1, <3>2, <3>3, ClosesTyped DEF SrvIInv, SrvTypeOK, ClientInv
  <2>6. OthersKept'
    BY <2>1, <2>2, ServerClosesOwn
  <2> QED BY <2>3, <2>4, <2>5, <2>6 DEF SrvIInv
<1> QED BY <1>1, <1>2

\* Every step of srv_task.
LEMMA TaskKeeps == ASSUME SrvIInv, SrvTask PROVE SrvIInv'
<1> USE NoFdOutside DEF At, shared, locals, table
<1>1. CASE Loop
  <2>1. CASE UNCHANGED <<ls, fdtab>> /\ task' \in {"none", "live"} /\ tpc' \in {"off", "sleep"}
    <3>1. UNCHANGED <<s_running, shared, cs, spc, held>> /\ tpc = "loop"
      BY <1>1 DEF Loop
    <3> QED BY <2>1, <3>1 DEF SrvIInv, SrvTypeOK, ListenInv, ClientInv, Accounted, OthersKept
  <2>2. CASE \E f \in Fds : Opens("server", f) /\ ls' = f /\ tpc' = "bind" /\ UNCHANGED task
    <3>1. PICK f \in Fds : Opens("server", f) /\ ls' = f /\ tpc' = "bind" /\ UNCHANGED task
      BY <2>2
    <3>2. SrvTypeOK'
      BY <1>1, <3>1, OpensTyped DEF Loop, SrvIInv, SrvTypeOK
    <3>3. ListenInv' /\ ClientInv' /\ Accounted'
      BY <1>1, <3>1, OpensTyped DEF Loop, SrvIInv, SrvTypeOK, ListenInv, ClientInv, Accounted
    <3>4. OthersKept'
      BY <1>1, <3>1, OpensKeeps DEF Loop
    <3> QED BY <3>2, <3>3, <3>4 DEF SrvIInv
  <2> QED BY <1>1, <2>1, <2>2 DEF Loop
<1>2. CASE BindListen
  <2>1. CASE UNCHANGED <<ls, fdtab>> /\ tpc' = "publish"
    BY <1>2, <2>1 DEF BindListen, SrvIInv, SrvTypeOK, ListenInv, ClientInv, Accounted, OthersKept
  <2>2. CASE tpc' = "sleep" /\ Closes({ls}) /\ ls' = NoFd
    <3>1. OthersKept'
      BY <1>2, <2>2, ServerClosesOwn DEF BindListen, SrvIInv, ListenInv
    <3>2. SrvTypeOK'
      BY <1>2, <2>2, ClosesTyped DEF BindListen, SrvIInv, SrvTypeOK
    <3>3. ListenInv' /\ ClientInv' /\ Accounted'
      BY <1>2, <2>2, ClosesTyped DEF BindListen, SrvIInv, SrvTypeOK, ListenInv, ClientInv, Accounted
    <3> QED BY <3>1, <3>2, <3>3 DEF SrvIInv
  <2> QED BY <1>2, <2>1, <2>2 DEF BindListen
<1>3. CASE Accepted
  <2>1. PICK f \in Fds : Opens("server", f) /\ cs' = f
    BY <1>3 DEF Accepted
  <2>2. SrvTypeOK'
    BY <1>3, <2>1, OpensTyped DEF Accepted, SrvIInv, SrvTypeOK
  <2>3. ListenInv' /\ ClientInv' /\ Accounted'
    BY <1>3, <2>1, OpensTyped DEF Accepted, SrvIInv, SrvTypeOK, ListenInv, ClientInv, Accounted
  <2>4. OthersKept'
    BY <1>3, <2>1, OpensKeeps DEF Accepted
  <2> QED BY <2>2, <2>3, <2>4 DEF SrvIInv
<1>4. CASE PublishListen \/ Inner \/ AcceptFails \/ PublishClient \/ RecvData \/ RxCbReturns
           \/ RecvEnds \/ Sleep
  <2> USE DEF SrvIInv, SrvTypeOK, ListenInv, ClientInv, Accounted, OthersKept
  <2>1. CASE PublishListen  BY <2>1 DEF PublishListen
  <2>2. CASE Inner          BY <2>2 DEF Inner
  <2>3. CASE AcceptFails    BY <2>3 DEF AcceptFails
  <2>4. CASE PublishClient  BY <2>4 DEF PublishClient
  <2>5. CASE RecvData       BY <2>5 DEF RecvData
  <2>6. CASE RxCbReturns    BY <2>6 DEF RxCbReturns
  <2>7. CASE RecvEnds       BY <2>7 DEF RecvEnds
  <2>8. CASE Sleep          BY <2>8 DEF Sleep
  <2> QED BY <1>4, <2>1, <2>2, <2>3, <2>4, <2>5, <2>6, <2>7, <2>8
<1>5. CASE Unserve
  <2>1. OthersKept'
    BY <1>5, ServerClosesOwn DEF Unserve, SrvIInv, ClientInv
  <2>2. SrvTypeOK'
    <3>1. fdtab' \in [Fds -> {"free", "server"} \cup OtherUsers]
      BY <1>5, ClosesTyped DEF Unserve, SrvIInv, SrvTypeOK
    <3> QED BY <1>5, <3>1 DEF Unserve, SrvIInv, SrvTypeOK
  <2>3. ListenInv' /\ ClientInv' /\ Accounted'
    BY <1>5, ClosesTyped DEF Unserve, SrvIInv, SrvTypeOK, ListenInv, ClientInv, Accounted
  <2> QED BY <2>1, <2>2, <2>3 DEF SrvIInv
<1>6. CASE Unlisten
  <2>1. OthersKept'
    BY <1>6, ServerClosesOwn DEF Unlisten, SrvIInv, ListenInv
  <2>2. SrvTypeOK'
    BY <1>6, ClosesTyped DEF Unlisten, SrvIInv, SrvTypeOK
  <2>3. ListenInv' /\ ClientInv' /\ Accounted'
    BY <1>6, ClosesTyped DEF Unlisten, SrvIInv, SrvTypeOK, ListenInv, ClientInv, Accounted
  <2> QED BY <2>1, <2>2, <2>3 DEF SrvIInv
<1> QED BY <1>1, <1>2, <1>3, <1>4, <1>5, <1>6 DEF SrvTask

\* The other socket users open free descriptors and close their own.
LEMMA OthersKeep ==
    ASSUME SrvIInv, NEW u \in OtherUsers, OtherOpens(u) \/ OtherCloses(u)
    PROVE  SrvIInv'
<1> USE NoFdOutside, SrvAssumption DEF shared, locals
<1>1. UNCHANGED <<s_running, s_listen_sock, s_client_sock, s_client_connected, task, tpc,
                  ls, cs, spc>>
  BY DEF OtherOpens, OtherCloses
<1>2. CASE OtherOpens(u)
  <2>1. PICK f \in Fds : Opens(u, f) /\ held' = [held EXCEPT ![u] = @ \cup {f}]
    BY <1>2 DEF OtherOpens
  <2>2. /\ fdtab' \in [Fds -> {"free", "server"} \cup OtherUsers]
        /\ fdtab[f] = "free" /\ fdtab'[f] = u
        /\ \A g \in Fds \ {f} : fdtab'[g] = fdtab[g]
    BY <2>1, OpensTyped DEF SrvIInv, SrvTypeOK
  <2>3. SrvTypeOK'
    BY <1>1, <2>1, <2>2 DEF SrvIInv, SrvTypeOK
  <2>4. ListenInv' /\ ClientInv'
    BY <1>1, <2>2 DEF SrvIInv, SrvTypeOK, ListenInv, ClientInv
  <2>5. Accounted'
    BY <1>1, <2>2 DEF SrvIInv, Accounted
  <2>6. OthersKept'
    <3>1. \A v \in OtherUsers : \A g \in held[v] : g \in Fds \ {f} /\ fdtab[g] = v
      BY <2>2, HeldOwned
    <3>2. \A v \in OtherUsers : held'[v] = IF v = u THEN held[v] \cup {f} ELSE held[v]
      BY <2>1 DEF SrvIInv, SrvTypeOK
    <3> SUFFICES ASSUME NEW v \in OtherUsers, NEW g \in held'[v] PROVE fdtab'[g] = v
      BY DEF OthersKept
    <3>3. g \in held[v] \/ (v = u /\ g = f)
      BY <3>2
    <3> QED BY <2>2, <3>1, <3>3
  <2> QED BY <2>3, <2>4, <2>5, <2>6 DEF SrvIInv
<1>3. CASE OtherCloses(u)
  <2>1. PICK f \in held[u] : Closes({f}) /\ held' = [held EXCEPT ![u] = @ \ {f}]
    BY <1>3 DEF OtherCloses
  <2>2. f \in Fds /\ fdtab[f] = u /\ fdtab[f] # "server"
    BY HeldOwned
  <2>3. /\ fdtab' \in [Fds -> {"free", "server"} \cup OtherUsers]
        /\ \A g \in Fds : fdtab'[g] = IF g = f THEN "free" ELSE fdtab[g]
    BY <2>1, ClosesTyped DEF SrvIInv, SrvTypeOK
  <2>4. SrvTypeOK'
    BY <1>1, <2>1, <2>3 DEF SrvIInv, SrvTypeOK
  <2>5. ListenInv' /\ ClientInv'
    BY <1>1, <2>2, <2>3 DEF SrvIInv, SrvTypeOK, ListenInv, ClientInv
  <2>6. Accounted'
    BY <1>1, <2>3 DEF SrvIInv, Accounted
  <2>7. OthersKept'
    <3>1. \A v \in OtherUsers : \A g \in held[v] : g \in Fds /\ fdtab[g] = v
      BY HeldOwned
    <3>2. \A v \in OtherUsers : held'[v] = IF v = u THEN held[v] \ {f} ELSE held[v]
      BY <2>1 DEF SrvIInv, SrvTypeOK
    <3> SUFFICES ASSUME NEW v \in OtherUsers, NEW g \in held'[v] PROVE fdtab'[g] = v
      BY DEF OthersKept
    <3>3. g \in held[v] /\ (v = u => g # f)
      BY <3>2
    <3> QED BY <2>2, <2>3, <3>1, <3>3
  <2> QED BY <2>4, <2>5, <2>6, <2>7 DEF SrvIInv
<1> QED BY <1>2, <1>3

-----------------------------------------------------------------------------
\* Every reachable state of the server satisfies the inductive invariant.
THEOREM SrvIInvInvariant == SrvSpec => []SrvIInv
<1>1. SrvIInv /\ [SrvNext]_srv_vars => SrvIInv'
  <2> SUFFICES ASSUME SrvIInv, [SrvNext]_srv_vars PROVE SrvIInv'
    OBVIOUS
  <2>1. CASE UNCHANGED srv_vars
    BY <2>1 DEF srv_vars, shared, locals, table, SrvIInv, SrvTypeOK, ListenInv, ClientInv,
                Accounted, OthersKept
  <2>2. CASE Undefined
    BY <2>1, <2>2 DEF Undefined
  <2> QED BY <2>1, <2>2, StartKeeps, StopKeeps, TaskKeeps, OthersKeep DEF SrvNext
<1> QED BY <1>1, InitSrvIInv, PTL DEF SrvSpec

\* A descriptor the server opened is published or on its way to be: neither a
\* failed bind nor a stop at any point of srv_task leaves one open.
THEOREM ServerLeaksNothing == SrvSpec => []NoServerFdLeak
<1>1. SrvIInv => NoServerFdLeak
  BY DEF SrvIInv, Accounted, NoServerFdLeak
<1> QED BY <1>1, SrvIInvInvariant, PTL

\* A socket that another user holds is never closed by the server.
THEOREM OthersAreKept == SrvSpec => []OthersKept
<1>1. SrvIInv => OthersKept
  BY DEF SrvIInv
<1> QED BY <1>1, SrvIInvInvariant, PTL

\* app_tcp_server_send writes to an open socket of the client being served.
THEOREM SendIsServed == SrvSpec => []SendServed
<1>1. SrvIInv => SendServed
  BY DEF SrvIInv, ClientInv, SendServed
<1> QED BY <1>1, SrvIInvInvariant, PTL

-----------------------------------------------------------------------------
(***************************************************************************)
(* What has to hold in every state for StopEndsTask, which needs fairness  *)
(* besides: no stop leaves srv_task blocked in accept.                     *)
(***************************************************************************)

\* A task that is blocked in accept on the open listening socket belongs to a
\* server that runs, or a stop is still to close the socket.
AcceptWatched ==
    Defined /\ tpc = "accept" /\ s_listen_sock # NoFd =>
        s_running \/ \E c \in Stoppers : spc[c] = "stop"

\* From socket to the end of its inner loop the task has a descriptor.
HasListener ==
    tpc \in {"bind", "publish", "inner", "accept", "serve", "recv", "rx_cb", "unserve"}
        => ls \in Fds

\* Once stop has returned, accept is called on a descriptor that is no longer
\* the server's, so that it returns.
StopUnblocksAccept ==
    Defined /\ ~s_running /\ (\A c \in Stoppers : spc[c] = "idle") /\ tpc = "accept"
        => fdtab[ls] # "server"

\* Nobody but the task touches its local descriptor.
LEMMA ListenerKept ==
    ASSUME HasListener, [SrvNext]_srv_vars
    PROVE  HasListener'
<1>1. CASE Start
  BY <1>1 DEF Start, HasListener, locals
<1>2. ASSUME NEW c \in Stoppers, StopEnter(c) \/ StopLocked(c) PROVE HasListener'
  BY <1>2 DEF StopEnter, StopLocked, HasListener, locals
<1>3. CASE SrvTask
  BY <1>3 DEF SrvTask, Loop, BindListen, PublishListen, Inner, AcceptFails, Accepted, PublishClient,
              RecvData, RxCbReturns, RecvEnds, Unserve, Unlisten, Sleep, At, HasListener, locals
<1>4. ASSUME NEW u \in OtherUsers, OtherOpens(u) \/ OtherCloses(u) PROVE HasListener'
  BY <1>4 DEF OtherOpens, OtherCloses, HasListener, locals
<1>5. CASE UNCHANGED srv_vars
  BY <1>5 DEF srv_vars, HasListener, locals
<1> QED BY <1>1, <1>2, <1>3, <1>4, <1>5 DEF SrvNext, Undefined

\* accept is only called by a server that runs, and stop closes the socket.
LEMMA WatchKept ==
    ASSUME SrvIInv, AcceptWatched, [SrvNext]_srv_vars
    PROVE  AcceptWatched'
<1>1. spc \in [Stoppers -> {"idle", "stop"}]
  BY DEF SrvIInv, SrvTypeOK
<1>2. CASE Start
  BY <1>2 DEF Start, AcceptWatched
<1>3. ASSUME NEW c \in Stoppers, StopEnter(c) PROVE AcceptWatched'
  BY <1>1, <1>3 DEF StopEnter, AcceptWatched
<1>4. ASSUME NEW c \in Stoppers, StopLocked(c) PROVE AcceptWatched'
  BY <1>4 DEF StopLocked, AcceptWatched
<1>5. CASE Inner
  BY <1>5 DEF Inner, AcceptWatched
<1>6. CASE SrvTask /\ ~Inner
  <2>1. tpc' # "accept"
    BY <1>6 DEF SrvTask, Loop, BindListen, PublishListen, AcceptFails, Accepted,
                PublishClient, RecvData, RxCbReturns, RecvEnds, Unserve, Unlisten, Sleep, At
  <2> QED BY <2>1 DEF AcceptWatched
<1>7. ASSUME NEW u \in OtherUsers, OtherOpens(u) \/ OtherCloses(u) PROVE AcceptWatched'
  BY <1>7 DEF OtherOpens, OtherCloses, shared, AcceptWatched, Defined
<1>8. CASE UNCHANGED srv_vars
  BY <1>8 DEF srv_vars, shared, AcceptWatched, Defined
<1>9. CASE Undefined
  BY <1>8, <1>9 DEF Undefined
<1> QED BY <1>2, <1>3, <1>4, <1>5, <1>6, <1>7, <1>8, <1>9 DEF SrvNext

\* A stop that comes after the check of s_running, and before or during accept,
\* still ends the accept: between the check and the closing of the socket there
\* is no moment at which the task is left waiting on an open one.
THEOREM StopEndsAccept == SrvSpec => []StopUnblocksAccept
<1>1. SrvInit => AcceptWatched /\ HasListener
  BY DEF SrvInit, AcceptWatched, HasListener
<1>2. SrvSpec => [](AcceptWatched /\ HasListener)
  BY <1>1, WatchKept, ListenerKept, SrvIInvInvariant, PTL DEF SrvSpec
<1>3. SrvIInv /\ AcceptWatched /\ HasListener => StopUnblocksAccept
  <2> SUFFICES ASSUME SrvIInv, AcceptWatched, HasListener, Defined, ~s_running, tpc = "accept",
                      \A c \in Stoppers : spc[c] = "idle", fdtab[ls] = "server"
               PROVE  FALSE
    BY DEF StopUnblocksAccept
  <2>1. s_listen_sock = NoFd
    BY DEF AcceptWatched
  <2>2. s_client_sock = NoFd
    BY DEF SrvIInv, ClientInv
  <2>3. ls \in Fds
    BY DEF HasListener
  <2>4. ls \in {s_listen_sock, s_client_sock}
    BY <2>3 DEF SrvIInv, Accounted
  <2> QED BY <2>1, <2>2, <2>3, <2>4, NoFdOutside
<1> QED BY <1>2, <1>3, SrvIInvInvariant, PTL
=============================================================================
