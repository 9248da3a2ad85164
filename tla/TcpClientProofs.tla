--------------------------- MODULE TcpClientProofs ---------------------------
(***************************************************************************)
(* Proofs about TcpClient for every descriptor table, set of stoppers, set *)
(* of other socket users and backoff limits.                               *)
(***************************************************************************)
EXTENDS TcpClient, TLAPS

\* The descriptor -1 is not in the table.
LEMMA NoFdOutside == NoFd \notin Fds
BY TcpAssumption DEF NoFd

\* The backoff stays within its limits.
LEMMA BackoffBounded ==
    ASSUME NEW cur \in RetryMin .. RetryMax
    PROVE  backoff_next(cur) \in RetryMin .. RetryMax
BY TcpAssumption DEF backoff_next

\* Power-on: nothing is open and nothing is published.
LEMMA InitTcpIInv == TcpInit => TcpIInv
<1> SUFFICES ASSUME TcpInit PROVE TcpIInv
  OBVIOUS
<1>1. backoff \in RetryMin .. RetryMax
  BY TcpAssumption DEF TcpInit
<1>2. TcpTypeOK
  BY <1>1 DEF TcpInit, TcpTypeOK
<1>3. TaskInv
  BY DEF TcpInit, TaskInv
<1> QED BY <1>2, <1>3 DEF TcpIInv

\* Closing a descriptor keeps the table a table, and makes no new owner.
LEMMA ClosesTyped ==
    ASSUME NEW f, fdtab \in [Fds -> {"free", "client"} \cup OtherUsers], Closes(f)
    PROVE  /\ fdtab' \in [Fds -> {"free", "client"} \cup OtherUsers]
           /\ \A g \in Fds : fdtab'[g] = "client" => fdtab[g] = "client" /\ g # f
BY DEF Closes

-----------------------------------------------------------------------------
(***************************************************************************)
(* One lemma for the threads that start and stop, one for the task, one    *)
(* for the other socket users.                                             *)
(***************************************************************************)

\* app_tcp_client_start, also over a live task.
LEMMA StartKeeps == ASSUME TcpIInv, Start PROVE TcpIInv'
BY TcpAssumption, NoFdOutside DEF Start, Defined, TcpIInv, TcpTypeOK, TaskInv

\* Both halves of app_tcp_client_stop.
LEMMA StopKeeps ==
    ASSUME TcpIInv, NEW c \in Stoppers, StopEnter(c) \/ StopLocked(c)
    PROVE  TcpIInv'
<1>1. CASE StopEnter(c)
  BY <1>1 DEF StopEnter, TcpIInv, TcpTypeOK, TaskInv
<1>2. CASE StopLocked(c)
  <2>1. CASE s_sock = NoFd
    BY <1>2, <2>1, NoFdOutside DEF StopLocked, Closes, TcpIInv, TcpTypeOK, TaskInv
  <2>2. CASE s_sock # NoFd
    <3>1. Closes(s_sock)
      BY <1>2, <2>2 DEF StopLocked
    <3>2. TcpTypeOK'
      BY <1>2, <2>2, <3>1, ClosesTyped DEF StopLocked, TcpIInv, TcpTypeOK
    <3>3. TaskInv'
      BY <1>2, <2>2, <3>1, ClosesTyped DEF StopLocked, TcpIInv, TcpTypeOK, TaskInv
    <3> QED BY <3>2, <3>3 DEF TcpIInv
  <2> QED BY <2>1, <2>2
<1> QED BY <1>1, <1>2

\* Every step of tcp_task.
LEMMA TaskKeeps == ASSUME TcpIInv, TcpTask PROVE TcpIInv'
<1> USE NoFdOutside
<1>1. CASE Loop
  <2>1. CASE UNCHANGED fdtab
    BY <1>1, <2>1 DEF Loop, At, Opens, TcpIInv, TcpTypeOK, TaskInv
  <2>2. CASE \E f \in Fds : Opens("client", f) /\ s' = f
    <3>1. PICK f \in Fds : Opens("client", f) /\ s' = f
      BY <2>2
    <3>2. tpc' = "connect" \/ UNCHANGED fdtab
      BY <1>1 DEF Loop
    <3>3. CASE tpc' = "connect"
      <4>1. UNCHANGED task
        BY <1>1, <3>3 DEF Loop, At
      <4>2. TcpTypeOK'
        BY <1>1, <3>1, <3>3, <4>1 DEF Loop, Opens, TcpIInv, TcpTypeOK
      <4>3. TaskInv'
        BY <1>1, <3>1, <3>3 DEF Loop, At, Opens, TcpIInv, TcpTypeOK, TaskInv
      <4> QED BY <4>2, <4>3 DEF TcpIInv
    <3> QED BY <2>1, <3>2, <3>3
  <2> QED BY <1>1, <2>1, <2>2 DEF Loop
<1>2. CASE ConnectFails \/ CloseOwn
  <2>1. Closes(s) /\ s' = NoFd /\ tpc' \in {"sleep", "loop"}
    BY <1>2 DEF ConnectFails, CloseOwn
  <2>2. UNCHANGED <<s_running, s_connected, s_sock, task, backoff, spc, held>>
    BY <1>2 DEF ConnectFails, CloseOwn
  <2>3. tpc \in {"connect", "close"}
    BY <1>2 DEF ConnectFails, CloseOwn, At
  <2>4. TcpTypeOK'
    BY <2>1, <2>2, ClosesTyped DEF TcpIInv, TcpTypeOK
  <2>5. TaskInv'
    BY <2>1, <2>2, <2>3, ClosesTyped DEF TcpIInv, TcpTypeOK, TaskInv
  <2> QED BY <2>4, <2>5 DEF TcpIInv
<1>3. CASE Connected
  BY <1>3, TcpAssumption DEF Connected, At, TcpIInv, TcpTypeOK, TaskInv
<1>4. CASE Sleep
  BY <1>4, BackoffBounded DEF Sleep, At, TcpIInv, TcpTypeOK, TaskInv
<1>5. CASE Publish
  BY <1>5 DEF Publish, At, TcpIInv, TcpTypeOK, TaskInv
<1>6. CASE RecvEnds
  BY <1>6 DEF RecvEnds, At, TcpIInv, TcpTypeOK, TaskInv
<1>7. CASE Unpublish
  BY <1>7 DEF Unpublish, At, TcpIInv, TcpTypeOK, TaskInv
<1> QED BY <1>1, <1>2, <1>3, <1>4, <1>5, <1>6, <1>7 DEF TcpTask

\* The other users take free descriptors and close theirs, or what was theirs.
LEMMA OtherKeeps ==
    ASSUME TcpIInv, NEW u \in OtherUsers, OtherOpens(u) \/ OtherCloses(u)
    PROVE  TcpIInv'
<1>1. CASE OtherOpens(u)
  <2>1. PICK f \in Fds : Opens(u, f) /\ held' = [held EXCEPT ![u] = @ \cup {f}]
    BY <1>1 DEF OtherOpens
  <2>2. TcpTypeOK'
    BY <1>1, <2>1 DEF OtherOpens, Opens, TcpIInv, TcpTypeOK
  <2>3. TaskInv'
    BY <1>1, <2>1, TcpAssumption DEF OtherOpens, Opens, TcpIInv, TcpTypeOK, TaskInv
  <2> QED BY <2>2, <2>3 DEF TcpIInv
<1>2. CASE OtherCloses(u)
  <2>1. PICK f \in held[u] : Closes(f) /\ held' = [held EXCEPT ![u] = @ \ {f}]
    BY <1>2 DEF OtherCloses
  <2>2. TcpTypeOK'
    BY <1>2, <2>1, ClosesTyped DEF OtherCloses, TcpIInv, TcpTypeOK
  <2>3. TaskInv'
    BY <1>2, <2>1, ClosesTyped DEF OtherCloses, TcpIInv, TcpTypeOK, TaskInv
  <2> QED BY <2>2, <2>3 DEF TcpIInv
<1> QED BY <1>1, <1>2

-----------------------------------------------------------------------------
\* Every behaviour of the TCP client satisfies the inductive invariant.
THEOREM TcpIInvInvariant == TcpSpec => []TcpIInv
<1>1. TcpInit => TcpIInv
  BY InitTcpIInv
<1>2. TcpIInv /\ [TcpNext]_tcp_vars => TcpIInv'
  <2> SUFFICES ASSUME TcpIInv, [TcpNext]_tcp_vars PROVE TcpIInv'
    OBVIOUS
  <2>1. CASE UNCHANGED tcp_vars
    BY <2>1 DEF tcp_vars, TcpIInv, TcpTypeOK, TaskInv
  <2>2. CASE TcpNext
    BY <2>1, <2>2, StartKeeps, StopKeeps, TaskKeeps, OtherKeeps DEF TcpNext, Undefined
  <2> QED BY <2>1, <2>2
<1> QED BY <1>1, <1>2, PTL DEF TcpSpec

\* The client's variables keep their types: backoff_ms stays within its limits
\* however often connects fail, and the table holds only owners that exist.
THEOREM TcpTypeCorrect == TcpSpec => []TcpTypeOK
<1>1. TcpIInv => TcpTypeOK
  BY DEF TcpIInv
<1> QED BY <1>1, TcpIInvInvariant, PTL

\* Failed connects, stops, restarts and double closes lose no descriptor of
\* the client.
THEOREM NoFdLeakInvariant == TcpSpec => []NoFdLeak
<1>1. TcpIInv => NoFdLeak
  BY DEF TcpIInv, TaskInv, NoFdLeak
<1> QED BY <1>1, TcpIInvInvariant, PTL

\* app_tcp_client_send uses the descriptor of the current connection.
THEOREM SendCurrentInvariant == TcpSpec => []SendCurrent
<1>1. TcpIInv => SendCurrent
  BY DEF TcpIInv, TaskInv, SendCurrent
<1> QED BY <1>1, TcpIInvInvariant, PTL
=============================================================================
