---------------------------- MODULE OtaHttpProofs ----------------------------
(***************************************************************************)
(* Proofs about OtaHttp, on top of those about AppOta, for every slot      *)
(* size, server, set of starters and set of options.                       *)
(***************************************************************************)
EXTENDS OtaHttp, AppOtaProofs

(***************************************************************************)
(* What holds in every build: the session keeps AppOta's invariant, and    *)
(* s_running is reset before the task ends.                                *)
(***************************************************************************)

\* HttpTypeOK without AppOta's part, in three pieces.
ControlTyped ==
    /\ s_running \in BOOLEAN /\ s_has_header_url \in BOOLEAN
    /\ s_auto_commit \in BOOLEAN /\ s_ota_core_inited \in BOOLEAN
    /\ s_state \in HttpStates
    /\ http_thread \in {"none", "live", "corrupt"}

TaskTyped ==
    /\ hpc \in HttpPcs
    /\ stage \in {"image", "header"}
    /\ hop \in 0 .. MaxRedirects
    /\ range_from \in 0 .. SlotSize
    /\ ota_offset \in Nat /\ seen \in Nat /\ body_total \in Nat
    /\ part \in Parts /\ buf_filled \in 0 .. HeaderMax

KernTyped ==
    /\ kpc \in [Others -> {"boot", "idle", "start_init", "start_go",
                           "api", "abort", "commit", "reboot"}]
    /\ kopt \in [Others -> [header: BOOLEAN, auto: BOOLEAN]]
    /\ s_last_pdu \in States

RunningInv ==
    /\ http_thread = "none" => ~s_running
    /\ At("reboot") \/ At("exit") => ~s_running

HttpIInv == IInv /\ ControlTyped /\ TaskTyped /\ KernTyped /\ RunningInv

(***************************************************************************)
(* Before the first download only the Bluetooth host uses app_ota, and the *)
(* service's copy of the state is the session's, or is about to be.        *)
(***************************************************************************)
NotStarted ==
    ~s_ota_core_inited => http_thread = "none" /\ \A c \in Others : kpc[c] # "start_go"

BleAlone ==
    BLE \in Caller /\ ~s_ota_core_inited /\ (\A c \in Others : kpc[c] # "start_init") =>
        /\ \A c \in Caller \ {BLE} : pc[c] = "idle"
        /\ kpc[BLE] \in {"boot", "idle", "reboot"} <=> pc[BLE] = "idle"
        /\ kpc[BLE] = "boot" \/ pc[BLE] = "init" => s_last_pdu = "IDLE"
        /\ pc[BLE] # "init_null"
        /\ kpc[BLE] # "boot" /\ pc[BLE] # "init" => s_cb
        /\ IF pc[BLE] \in {"emit", "emit_reboot"} THEN snap[BLE].state = s_st.state
                                                  ELSE s_last_pdu = s_st.state

FreshIInv == HttpIInv /\ NotStarted /\ BleAlone

(***************************************************************************)
(* Without svc_ota and with one thread that starts downloads, the session  *)
(* belongs to the task.  (A second starter can be inside app_ota_init when *)
(* the task of the first one already streams.)                             *)
(***************************************************************************)
OneClient == BLE \notin Caller /\ \A a, b \in Starters : a = b

StarterInv ==
    \A c \in Starters :
        /\ kpc[c] \in {"idle", "start_init", "start_go"}
        /\ kpc[c] # "start_init" => pc[c] = "idle"
        /\ kpc[c] = "start_init" => pc[c] \in {"init_null", "ret"} /\ ~s_ota_core_inited

\* Where the task can be inside app_ota at each of its waits for a call.
Inside(l) ==
    CASE l = "begin_ret"               -> {"begin", "erase", "emit", "ret"}
      [] l \in {"abort_ret", "fail_ret"} -> {"abort", "emit", "ret"}
      [] l = "chunk_ret"               -> {"chunk", "emit", "ret"}
      [] l = "commit_ret"              -> {"commit", "emit", "emit_reboot", "reboot", "ret"}
      [] OTHER                         -> {"idle"}

CallInv ==
    /\ http_thread = "none" => pc[HTTP] = "idle"
    /\ http_thread = "live" => pc[HTTP] \in Inside(hpc)

\* The session is open and at the task's offset; a download that was not
\* resumed has streamed all of it.
Aligned ==
    /\ s_st.state \in {"READY", "WRITING"}
    /\ ota_offset = s_st.bytes_received
    /\ range_from = 0 => /\ seen = ota_offset /\ seen <= body_total
                         /\ s_st.total_size = body_total

Staged ==
    /\ s_st.state = "WRITING"
    /\ s_st.bytes_received = body_total /\ s_st.total_size = body_total

Answered(ok) == pc[HTTP] \in {"emit", "ret"} /\ ret[HTTP] = "OK" => ok

BeginInv ==
    At("begin_ret") =>
        /\ pc[HTTP] \in {"begin", "erase"} => arg[HTTP].n = body_total
        /\ Answered(/\ s_st.state = "READY" /\ s_st.bytes_received = 0
                    /\ s_st.total_size = body_total)

ChunkInv ==
    At("chunk_ret") =>
        /\ pc[HTTP] = "chunk" =>
              /\ s_st.state \in {"READY", "WRITING"}
              /\ arg[HTTP].off = s_st.bytes_received
              /\ ota_offset = s_st.bytes_received + arg[HTTP].n
              /\ range_from = 0 => /\ seen = ota_offset /\ seen <= body_total
                                   /\ s_st.total_size = body_total
        /\ Answered(Aligned)

CommitInv ==
    /\ At("commit_ret") => /\ pc[HTTP] = "emit" => ret[HTTP] # "OK"
                           /\ pc[HTTP] = "ret" /\ ret[HTTP] = "OK" => s_reboot_scheduled
    /\ At("reboot") => s_reboot_scheduled

StageInv ==
    /\ http_thread = "none" => stage = "image" /\ seen = 0
    /\ http_thread = "live" =>
          /\ hpc \notin {"resolve", "connect", "reply", "header", "hrecv", "commit", "commit_ret",
                         "reboot", "fail", "fail_ret", "exit"} => stage = "image"
          /\ stage = "image" /\ hpc \in {"status", "resolve", "connect", "reply", "abort",
                                         "abort_ret", "begin", "begin_ret"} => seen = 0

\* A resumed session is still where the task found it when the server answers.
ResumeInv ==
    stage = "image" /\ range_from # 0 /\ (At("resolve") \/ At("connect") \/ At("reply")) =>
        s_st.state = "WRITING" /\ s_st.bytes_received = range_from

SessionInv ==
    /\ At("stream") \/ At("recv") => Aligned
    /\ range_from = 0 =>
          /\ stage = "header" /\ (At("resolve") \/ At("connect") \/ At("reply")) => Staged
          /\ At("header") \/ At("hrecv") \/ At("commit") => Staged
          /\ At("exit") /\ s_state # "FAILED" /\ ~s_reboot_scheduled => Staged

\* What holds of the task and its session, and of that and the starter.
TaskInv ==
    CallInv /\ BeginInv /\ ChunkInv /\ CommitInv /\ StageInv /\ ResumeInv /\ SessionInv

OwnIInv ==
    /\ HttpIInv /\ NotStarted
    /\ http_thread # "corrupt" => StarterInv /\ TaskInv

-----------------------------------------------------------------------------
(***************************************************************************)
(* Every build.                                                            *)
(***************************************************************************)

\* What a step of the download task does to app_ota.
TaskCore ==
    \/ UNCHANGED vars
    \/ \E got \in 1 .. RxChunk : ChunkCall(HTTP, ota_offset, got)
    \/ BeginCall(HTTP, body_total)
    \/ AbortCall(HTTP) \/ CommitCall(HTTP) \/ RebootCall(HTTP)
    \/ Return(HTTP)

LEMMA TaskIsCore == ASSUME HttpTask PROVE TaskCore
<1> USE DEF TaskCore
<1>1. CASE ReadStatus \/ Resolve \/ Connect \/ Reply
  BY <1>1 DEF ReadStatus, Resolve, Connect, Reply, ReplyUnusable, ReplyRedirect, ReplyFull,
              ReplyPartial, ReplyHeader
<1>2. CASE PreAbort \/ PreAborted \/ PreBegin \/ PreBegun
  BY <1>2 DEF PreAbort, PreAborted, PreBegin, PreBegun
<1>3. CASE StreamCheck \/ StreamWrote \/ StreamDone
  BY <1>3 DEF StreamCheck, StreamWrote, StreamDone
<1>4. CASE StreamRecv
  BY <1>4 DEF StreamRecv
<1>5. CASE Commit \/ Committed \/ RequestReboot \/ Fail \/ Failed \/ Exit
  BY <1>5 DEF Commit, Committed, RequestReboot, Fail, Failed, Exit
<1>6. CASE HeaderCheck \/ HeaderRead \/ HeaderBroken \/ HeaderDone
  BY <1>6 DEF HeaderCheck, HeaderRead, HeaderBroken, HeaderDone
<1> QED BY <1>1, <1>2, <1>3, <1>4, <1>5, <1>6 DEF HttpTask

\* What a step of the Bluetooth host or of a starter does to app_ota.
LEMMA ClientIsCore ==
    ASSUME NEW c \in Others, SvcOta \/ Starting(c) \/ StopCmd(c)
    PROVE  UNCHANGED vars \/ \E d \in Caller : Call(d) \/ Return(d)
<1>0. c \in Caller
  BY DEF Others
<1>1. CASE SvcInit
  BY <1>1 DEF SvcInit, Call
<1>2. CASE DispatchCtrl
  BY <1>2 DEF DispatchCtrl, Call
<1>3. CASE DispatchReturn \/ DispatchReboot
  BY <1>3 DEF DispatchReturn, DispatchReboot, Call
<1>4. CASE Starting(c) \/ StopCmd(c)
  BY <1>0, <1>4 DEF Starting, StopCmd, StartEnter, StartInited, StartGo, Call
<1> QED BY <1>1, <1>2, <1>3, <1>4 DEF SvcOta

\* The composed system keeps the invariant of app_ota.
LEMMA SessionKeeps == ASSUME HttpIInv, [HttpNext]_allVars PROVE IInv'
<1>0. IInv /\ ota_offset \in Nat /\ body_total \in Nat /\ HTTP \in Caller
  BY HttpAssumption DEF HttpIInv, TaskTyped
<1>1. ASSUME UNCHANGED vars PROVE IInv'
  BY <1>0, <1>1, StutterKeeps
<1>2. ASSUME NEW d \in Caller, Call(d) \/ Return(d) PROVE IInv'
  BY <1>0, <1>2, CallKeeps, StepKeeps DEF Step
<1>3. CASE HttpTask
  <2>1. TaskCore
    BY <1>3, TaskIsCore
  <2>2. ASSUME NEW got \in 1 .. RxChunk, ChunkCall(HTTP, ota_offset, got) PROVE IInv'
    BY <1>0, <2>2, ChunkCallKeeps, HttpAssumption
  <2>3. CASE BeginCall(HTTP, body_total)
    BY <1>0, <2>3, BeginCallKeeps
  <2> QED BY <1>0, <1>1, <1>2, <2>1, <2>2, <2>3 DEF TaskCore, Call
<1>4. ASSUME NEW c \in Caller, InApi(c) PROVE IInv'
  BY <1>0, <1>4, StepKeeps DEF InApi, Step
<1>5. CASE SystemReset
  BY <1>0, <1>5, RebootKeeps DEF SystemReset
<1>6. CASE Undefined \/ UNCHANGED allVars
  BY <1>1, <1>6 DEF Undefined, allVars
<1>7. ASSUME NEW c \in Others, Starting(c) \/ StopCmd(c) PROVE IInv'
  BY <1>1, <1>2, <1>7, ClientIsCore
<1>8. CASE SvcOta
  <2>1. \E c \in Others : TRUE
    BY <1>8, HttpAssumption
       DEF Others, SvcOta, SvcInit, DispatchCtrl, DispatchReturn, DispatchReboot
  <2> QED BY <1>1, <1>2, <1>8, <2>1, ClientIsCore
<1> QED BY <1>3, <1>4, <1>5, <1>6, <1>7, <1>8 DEF HttpNext

-----------------------------------------------------------------------------
\* The download task keeps the types and resets s_running before it ends.
LEMMA TaskKeepsOwn ==
    ASSUME HttpIInv, HttpTask
    PROVE  ControlTyped' /\ TaskTyped' /\ KernTyped' /\ RunningInv'
<1> USE DEF At, Goto, TaskKeeps, Locals, hdr, kern
<1>0. ControlTyped /\ TaskTyped /\ KernTyped /\ RunningInv
  BY DEF HttpIInv
<1> DEFINE Quiet == /\ UNCHANGED <<s_running, s_has_header_url, s_auto_commit, s_ota_core_inited,
                                   http_thread, kern, s_last_pdu>>
                    /\ http_thread = "live" /\ s_state' \in HttpStates
                    /\ hpc' \in HttpPcs \ {"reboot", "exit"}
<1>1. ASSUME Quiet PROVE ControlTyped' /\ KernTyped' /\ RunningInv'
  BY <1>0, <1>1 DEF ControlTyped, KernTyped, RunningInv
<1>2. CASE ReadStatus
  <2>1. s_st.bytes_received \in 0 .. SlotSize
    BY DEF HttpIInv, IInv, TypeOK, StatusType
  <2>2. TaskTyped'
    BY <1>0, <1>2, <2>1, SlotAssumption DEF ReadStatus, TaskTyped, HttpPcs
  <2>3. Quiet
    BY <1>0, <1>2 DEF ReadStatus, ControlTyped, HttpPcs
  <2> QED BY <1>1, <2>2, <2>3
<1>3. CASE \/ Resolve \/ Connect \/ ReplyUnusable \/ ReplyHeader \/ StreamCheck
           \/ HeaderCheck \/ HeaderBroken
  <2>1. TaskTyped'
    BY <1>0, <1>3 DEF Resolve, Connect, ReplyUnusable, ReplyHeader, StreamCheck, HeaderCheck,
                      HeaderBroken, TaskTyped, HttpPcs, Parts
  <2>2. Quiet
    BY <1>0, <1>3 DEF Resolve, Connect, ReplyUnusable, ReplyHeader, StreamCheck, HeaderCheck,
                      HeaderBroken, ControlTyped, HttpPcs, HttpStates
  <2> QED BY <1>1, <2>1, <2>2
<1>4. CASE ReplyRedirect
  <2>1. TaskTyped'
    BY <1>0, <1>4, HttpAssumption DEF ReplyRedirect, FollowsRedirect, TaskTyped, HttpPcs
  <2>2. Quiet
    BY <1>0, <1>4 DEF ReplyRedirect, ControlTyped, HttpPcs
  <2> QED BY <1>1, <2>1, <2>2
<1>5. ASSUME NEW n \in Sizes, ReplyFull(n) PROVE TaskTyped' /\ Quiet
  <2>1. TaskTyped'
    BY <1>0, <1>5, ArgAssumption DEF ReplyFull, TaskTyped, HttpPcs
  <2>2. Quiet
    BY <1>0, <1>5 DEF ReplyFull, ControlTyped, HttpPcs
  <2> QED BY <2>1, <2>2
<1>6. ASSUME NEW start \in Offsets, NEW end \in 0 .. U32 - 1, ReplyPartial(start, end)
      PROVE TaskTyped' /\ Quiet
  <2>1. start \in Nat /\ (end + 1 - start) % U32 \in Nat
    BY ArgAssumption, HttpAssumption, SlotAssumption
  <2>2. TaskTyped'
    <3>1. ota_offset' \in Nat /\ body_total' \in Nat
      BY <1>0, <1>6, <2>1 DEF ReplyPartial, TaskTyped
    <3>2. hpc' \in HttpPcs
      BY <1>6 DEF ReplyPartial, HttpPcs
    <3> QED BY <1>0, <1>6, <3>1, <3>2 DEF ReplyPartial, TaskTyped
  <2>3. Quiet
    BY <1>0, <1>6 DEF ReplyPartial, ControlTyped, HttpPcs, HttpStates
  <2> QED BY <2>2, <2>3
<1>7. CASE PreAbort \/ PreAborted \/ PreBegin \/ PreBegun \/ StreamWrote \/ Commit \/ Fail
  <2>1. TaskTyped'
    BY <1>0, <1>7 DEF PreAbort, PreAborted, PreBegin, PreBegun, StreamWrote, Commit, Fail,
                      TaskTyped, HttpPcs
  <2>2. Quiet
    BY <1>0, <1>7 DEF PreAbort, PreAborted, PreBegin, PreBegun, StreamWrote, Commit, Fail,
                      ControlTyped, HttpPcs, HttpStates
  <2> QED BY <1>1, <2>1, <2>2
<1>8. CASE StreamRecv
  <2>1. TaskTyped'
    BY <1>0, <1>8, HttpAssumption DEF StreamRecv, TaskTyped, HttpPcs
  <2>2. Quiet
    BY <1>0, <1>8 DEF StreamRecv, ControlTyped, HttpPcs
  <2> QED BY <1>1, <2>1, <2>2
<1>9. CASE StreamDone \/ HeaderDone
  <2>1. TaskTyped'
    BY <1>0, <1>9, HttpAssumption DEF StreamDone, HeaderDone, Finish, TaskTyped, HttpPcs
  <2>2. KernTyped'
    BY <1>0, <1>9 DEF StreamDone, HeaderDone, KernTyped
  <2>3. s_running' \in BOOLEAN /\ (~s_running' \/ s_running' = s_running)
    BY <1>0, <1>9 DEF StreamDone, HeaderDone, Finish, ControlTyped
  <2>4. ControlTyped'
    BY <1>0, <1>9, <2>3 DEF StreamDone, HeaderDone, Finish, ControlTyped, HttpStates
  <2>5. http_thread' = "live" /\ (hpc' = "exit" => ~s_running') /\ hpc' # "reboot"
    BY <1>9 DEF StreamDone, HeaderDone, Finish
  <2> QED BY <2>1, <2>2, <2>4, <2>5 DEF RunningInv
<1>10. CASE Committed \/ Failed
  <2>1. TaskTyped'
    BY <1>0, <1>10 DEF Committed, Failed, TaskTyped, HttpPcs
  <2>2. KernTyped'
    BY <1>0, <1>10 DEF Committed, Failed, KernTyped
  <2>3. s_running' \in BOOLEAN /\ (~s_running' \/ s_running' = s_running)
    BY <1>0, <1>10 DEF Committed, Failed, ControlTyped
  <2>4. ControlTyped'
    BY <1>0, <1>10, <2>3 DEF Committed, Failed, ControlTyped, HttpStates
  <2>5. http_thread' = "live" /\ (hpc' \in {"exit", "reboot"} => ~s_running')
    BY <1>10 DEF Committed, Failed
  <2> QED BY <2>1, <2>2, <2>4, <2>5 DEF RunningInv
<1>11. CASE RequestReboot \/ Exit
  <2>1. TaskTyped'
    BY <1>0, <1>11, HttpAssumption, SlotAssumption DEF RequestReboot, Exit, TaskTyped, HttpPcs,
       Parts
  <2>2. ControlTyped' /\ KernTyped'
    BY <1>0, <1>11 DEF RequestReboot, Exit, ControlTyped, KernTyped
  <2>3. ~s_running /\ s_running' = s_running
    BY <1>0, <1>11 DEF RequestReboot, Exit, RunningInv
  <2> QED BY <2>1, <2>2, <2>3 DEF RunningInv
<1>12. CASE HeaderRead
  <2>1. part' \in Parts
    BY <1>0, <1>12 DEF HeaderRead, After, TaskTyped, Parts
  <2>2. buf_filled' \in 0 .. HeaderMax
    BY <1>0, <1>12, HttpAssumption DEF HeaderRead, TaskTyped
  <2>3. TaskTyped'
    BY <1>0, <1>12, <2>1, <2>2 DEF HeaderRead, TaskTyped, HttpPcs
  <2>4. Quiet
    BY <1>0, <1>12 DEF HeaderRead, ControlTyped, HttpPcs
  <2> QED BY <1>1, <2>3, <2>4
<1> QED BY <1>1, <1>2, <1>3, <1>4, <1>5, <1>6, <1>7, <1>8, <1>9, <1>10, <1>11, <1>12
        DEF HttpTask, Reply

\* So do the Bluetooth host, the starters and the steps inside app_ota.
LEMMA ClientKeepsOwn ==
    ASSUME HttpIInv, NEW c \in Others, SvcOta \/ Starting(c) \/ StopCmd(c)
    PROVE  ControlTyped' /\ TaskTyped' /\ KernTyped' /\ RunningInv'
<1> USE DEF control, task, hdr, kern, Defined
<1>0. ControlTyped /\ TaskTyped /\ KernTyped /\ RunningInv
  BY DEF HttpIInv
<1>1. CASE SvcInit \/ DispatchCtrl \/ DispatchReboot
  <2>1. KernTyped'
    BY <1>0, <1>1 DEF SvcInit, DispatchCtrl, DispatchReboot, BleGoes, KernTyped, States
  <2>2. UNCHANGED <<control, task>>
    BY <1>1 DEF SvcInit, DispatchCtrl, DispatchReboot
  <2>3. ControlTyped' /\ TaskTyped' /\ RunningInv'
    BY <1>0, <2>2 DEF ControlTyped, TaskTyped, RunningInv, At
  <2> QED BY <2>1, <2>3
<1>2. CASE DispatchReturn
  <2>1. KernTyped'
    BY <1>0, <1>2 DEF DispatchReturn, BleGoes, KernTyped
  <2>2. s_running' \in BOOLEAN /\ (s_running' => s_running)
    BY <1>2, Zenon DEF DispatchReturn
  <2> QED BY <1>0, <1>2, <2>1, <2>2 DEF DispatchReturn, ControlTyped, TaskTyped, RunningInv, At
<1>3. CASE \E opt \in Opts : StartEnter(c, opt)
  <2>1. KernTyped'
    BY <1>0, <1>3, HttpAssumption DEF StartEnter, KernTyped
  <2> QED BY <1>0, <1>3, <2>1 DEF StartEnter, ControlTyped, TaskTyped, RunningInv, At
<1>4. CASE StartInited(c)
  BY <1>0, <1>4 DEF StartInited, ControlTyped, TaskTyped, KernTyped, RunningInv, At
<1>5. CASE StartGo(c)
  <2>1. KernTyped'
    BY <1>0, <1>5 DEF StartGo, KernTyped, NoOpt
  <2>2. TaskTyped'
    BY <1>0, <1>5 DEF StartGo, CreateHttpTask, TaskTyped, HttpPcs
  <2>3. kopt[c].header \in BOOLEAN /\ kopt[c].auto \in BOOLEAN
    BY <1>0 DEF KernTyped
  <2>4. s_running' \in BOOLEAN /\ s_has_header_url' \in BOOLEAN /\ s_auto_commit' \in BOOLEAN
    BY <1>0, <1>5, <2>3 DEF StartGo, ControlTyped
  <2>5. ControlTyped'
    BY <1>0, <1>5, <2>4 DEF StartGo, CreateHttpTask, ControlTyped, HttpStates
  <2>6. RunningInv'
    BY <1>0, <1>5 DEF StartGo, CreateHttpTask, RunningInv, At
  <2> QED BY <2>1, <2>2, <2>5, <2>6
<1>6. CASE StopCmd(c)
  <2>1. s_running' \in BOOLEAN /\ ~s_running'
    BY <1>6 DEF StopCmd
  <2> QED BY <1>0, <1>6, <2>1 DEF StopCmd, ControlTyped, TaskTyped, KernTyped, RunningInv
<1> QED BY <1>1, <1>2, <1>3, <1>4, <1>5, <1>6 DEF SvcOta, Starting

LEMMA ApiKeepsOwn ==
    ASSUME HttpIInv, NEW c \in Caller, InApi(c)
    PROVE  ControlTyped' /\ TaskTyped' /\ KernTyped' /\ RunningInv'
<1> USE DEF control, task, hdr, kern
<1>0. ControlTyped /\ TaskTyped /\ KernTyped /\ RunningInv
  BY DEF HttpIInv
<1>1. Delivered(c).state \in States
  BY DEF HttpIInv, IInv, TypeOK, StatusType, Delivered
<1>2. s_last_pdu' \in States
  BY <1>0, <1>1 DEF InApi, KernTyped
<1>3. ControlTyped' /\ TaskTyped' /\ KernTyped'
  BY <1>0, <1>2 DEF InApi, ControlTyped, TaskTyped, KernTyped
<1>4. RunningInv'
  BY <1>0 DEF InApi, RunningInv, At
<1> QED BY <1>3, <1>4

\* The RAM after a reset.
LEMMA ResetOwn == ASSUME Reset PROVE ControlTyped' /\ TaskTyped' /\ KernTyped' /\ RunningInv'
<1>1. ControlTyped' /\ ~s_running'
  BY DEF Reset, ControlTyped, HttpStates
<1>2. TaskTyped'
  BY HttpAssumption, SlotAssumption DEF Reset, TaskTyped, HttpPcs, Parts
<1>3. KernTyped'
  BY DEF Reset, KernTyped, NoOpt, States
<1> QED BY <1>1, <1>2, <1>3 DEF RunningInv

LEMMA HttpInitIInv == HttpInit => HttpIInv
<1> SUFFICES ASSUME HttpInit PROVE HttpIInv
  OBVIOUS
<1>1. ControlTyped /\ ~s_running
  BY DEF HttpInit, ControlTyped, HttpStates
<1>2. TaskTyped
  BY HttpAssumption, SlotAssumption DEF HttpInit, TaskTyped, HttpPcs, Parts
<1>3. KernTyped
  BY DEF HttpInit, KernTyped, NoOpt, States
<1>4. IInv
  BY InitIInv DEF HttpInit
<1> QED BY <1>1, <1>2, <1>3, <1>4 DEF HttpIInv, RunningInv

LEMMA HttpNextIInv == ASSUME HttpIInv, [HttpNext]_allVars PROVE HttpIInv'
<1> DEFINE Own == ControlTyped /\ TaskTyped /\ KernTyped /\ RunningInv
<1>0. IInv'
  BY SessionKeeps
<1>1. ASSUME HttpTask PROVE Own'
  BY <1>1, TaskKeepsOwn
<1>2. ASSUME NEW c \in Caller, InApi(c) PROVE Own'
  BY <1>2, ApiKeepsOwn
<1>3. ASSUME NEW c \in Others, Starting(c) \/ StopCmd(c) PROVE Own'
  BY <1>3, ClientKeepsOwn
<1>4. ASSUME SvcOta PROVE Own'
  <2>1. \E c \in Others : TRUE
    BY <1>4, HttpAssumption
       DEF Others, SvcOta, SvcInit, DispatchCtrl, DispatchReturn, DispatchReboot
  <2> QED BY <1>4, <2>1, ClientKeepsOwn
<1>5. ASSUME SystemReset PROVE Own'
  BY <1>5, ResetOwn DEF SystemReset
<1>6. ASSUME Undefined \/ UNCHANGED allVars PROVE Own'
  BY <1>6 DEF Undefined, allVars, httpVars, control, task, hdr, kern, HttpIInv, ControlTyped, TaskTyped,
              KernTyped, RunningInv, At
<1> QED BY <1>0, <1>1, <1>2, <1>3, <1>4, <1>5, <1>6 DEF HttpNext, HttpIInv

-----------------------------------------------------------------------------
\* In every build, and whatever the server, the starters and the Bluetooth
\* client do, the invariant holds.
THEOREM HttpIInvInvariant == HttpSpec => []HttpIInv
<1>1. HttpIInv /\ [HttpNext]_allVars => HttpIInv'
  BY HttpNextIInv
<1> QED BY HttpInitIInv, <1>1, PTL DEF HttpSpec

\* The variables of the download keep their types: hop is bounded by the number
\* of redirects, and the resume point lies in the slot.
THEOREM HttpTypeCorrect == HttpSpec => []HttpTypeOK
<1>1. HttpIInv => HttpTypeOK
  BY DEF HttpIInv, IInv, ControlTyped, TaskTyped, KernTyped, HttpTypeOK
<1> QED BY <1>1, HttpIInvInvariant, PTL

\* s_running is reset on every way out of http_task, so a new download can start.
THEOREM NoLockoutInvariant == HttpSpec => []NoLockout
<1>1. HttpIInv => NoLockout
  BY DEF HttpIInv, RunningInv, NoLockout
<1> QED BY <1>1, HttpIInvInvariant, PTL

\* With the HTTP task and the Bluetooth host writing through the same session, an
\* open session still matches the slot and a committed image is still whole.
THEOREM SharedSessionSafe == HttpSpec => [](StagedPrefix /\ CommittedComplete)
<1>1. HttpIInv => StagedPrefix /\ CommittedComplete
  BY DEF HttpIInv, IInv
<1> QED BY <1>1, HttpIInvInvariant, PTL

-----------------------------------------------------------------------------
(***************************************************************************)
(* What DownloadEnds rests on besides fairness: a measure of what the task *)
(* still has to do, which each of its steps makes smaller whatever the     *)
(* server answers, except where it reads on in a line, and which nobody    *)
(* else touches.                                                           *)
(***************************************************************************)

\* What is left of the body, and of the buffer of the header.
Remaining == IF seen < body_total THEN body_total - seen ELSE 0
Room == HeaderMax - buf_filled

Requests  == {"resolve", "connect", "reply"}
Opening   == {"abort", "abort_ret", "begin", "begin_ret"}
Streaming == {"stream", "recv", "chunk_ret"}

\* The parts of a download still ahead: the requests for the image, each
\* redirect being one, the session, the body, the requests for the header, the
\* body of the header, and the end.
Leg ==
    CASE hpc = "status"                         -> 2 * MaxRedirects + 6
      [] hpc \in Requests /\ stage = "image"    -> MaxRedirects + 5 + (MaxRedirects - hop)
      [] hpc \in Opening                        -> MaxRedirects + 4
      [] hpc \in Streaming                      -> MaxRedirects + 3
      [] hpc \in Requests /\ stage # "image"    -> 2 + (MaxRedirects - hop)
      [] hpc \in {"header", "hrecv"}            -> 1
      [] OTHER                                  -> 0

\* How far the parts of the header's body are from the next data or the end.
Rank ==
    CASE part = "cr" -> 4
      [] part = "lf" -> 3
      [] part = "size" -> 2
      [] part = "end" -> 0
      [] OTHER -> 1

\* The steps left in a part.
Left ==
    CASE hpc = "stream"    -> 3 * Remaining + 1
      [] hpc = "recv"      -> 3 * Remaining
      [] hpc = "chunk_ret" -> 3 * Remaining + 2
      [] hpc = "header"    -> 10 * Room + 2 * Rank + 1
      [] hpc = "hrecv"     -> 10 * Room + 2 * Rank
      [] hpc = "commit"    -> 7
      [] hpc = "commit_ret" -> 6
      [] hpc = "reboot"    -> 5
      [] hpc \in {"fail", "abort"} -> 4
      [] hpc \in {"fail_ret", "abort_ret", "resolve"} -> 3
      [] hpc \in {"connect", "begin"} -> 2
      [] hpc = "off"       -> 0
      [] OTHER             -> 1

Less == Leg' < Leg \/ (Leg' = Leg /\ Left' < Left)

\* A recv that neither ends the size line nor the trailer.
ReadsOn == HeaderRead /\ ReadsLines /\ UNCHANGED hdr

\* Every step of the task makes the measure smaller, or reads on in a line; it
\* goes to the next recv of the header only while s_running is set; and while
\* the task lives every other step leaves the measure alone.
TaskAdvances ==
    [][/\ HttpTask => Less \/ ReadsOn
       /\ HttpTask /\ hpc' = "hrecv" => s_running
       /\ http_thread = "live" /\ http_thread' = "live" => HttpTask \/ UNCHANGED task]_allVars

Measured == Leg \in Nat /\ Left \in Nat

\* Both parts of the measure are natural numbers, so that it cannot decrease
\* for ever.
LEMMA MeasureTyped == ASSUME TaskTyped PROVE Measured
<1>1. /\ hop \in 0 .. MaxRedirects /\ seen \in Nat /\ body_total \in Nat /\ MaxRedirects \in Nat
  BY HttpAssumption DEF TaskTyped
<1>2. Remaining \in Nat /\ Room \in Nat /\ Rank \in Nat
  BY <1>1, HttpAssumption DEF Remaining, Room, Rank, TaskTyped
<1>3. Leg \in Nat
  BY <1>1 DEF Leg
<1>4. Left \in Nat
  BY <1>2 DEF Left
<1> QED BY <1>3, <1>4 DEF Measured

\* A step from one part of the download to a later one.
LEMMA RequestLess ==
    ASSUME TaskTyped, ReadStatus \/ Resolve \/ Connect \/ Reply
    PROVE  Less
<1>1. hop \in 0 .. MaxRedirects /\ MaxRedirects \in Nat /\ stage \in {"image", "header"}
  BY HttpAssumption DEF TaskTyped
<1> USE DEF At, Goto, Requests, Opening, Streaming
<1>2. CASE ReadStatus
  <2>1. hpc = "status" /\ hpc' = "resolve" /\ UNCHANGED <<stage, hop>>
    BY <1>2 DEF ReadStatus
  <2> QED BY <1>1, <2>1 DEF Less, Leg
<1>3. CASE Resolve
  <2>1. hpc = "resolve" /\ hpc' \in {"connect", "fail"} /\ UNCHANGED <<stage, hop>>
    BY <1>3 DEF Resolve, Locals
  <2> QED BY <1>1, <2>1 DEF Less, Leg, Left
<1>4. CASE Connect
  <2>1. hpc = "connect" /\ hpc' \in {"reply", "fail"} /\ UNCHANGED <<stage, hop>>
    BY <1>4 DEF Connect, Locals
  <2> QED BY <1>1, <2>1 DEF Less, Leg, Left
<1>5. CASE ReplyUnusable
  <2>1. hpc = "reply" /\ hpc' = "fail"
    BY <1>5 DEF ReplyUnusable
  <2> QED BY <1>1, <2>1 DEF Less, Leg
<1>6. CASE ReplyRedirect
  <2>1. /\ hpc = "reply" /\ UNCHANGED stage
        /\ \/ hpc' = "fail"
           \/ hpc' = "resolve" /\ hop < MaxRedirects /\ hop' = hop + 1
    BY <1>6 DEF ReplyRedirect, FollowsRedirect
  <2> QED BY <1>1, <2>1 DEF Less, Leg
<1>7. ASSUME NEW n, ReplyFull(n) PROVE Less
  <2>1. hpc = "reply" /\ stage = "image" /\ hpc' \in {"begin", "abort"}
    BY <1>7 DEF ReplyFull
  <2> QED BY <1>1, <2>1 DEF Less, Leg
<1>8. ASSUME NEW start, NEW end, ReplyPartial(start, end) PROVE Less
  <2>1. hpc = "reply" /\ stage = "image" /\ hpc' \in {"stream", "fail"}
    BY <1>8 DEF ReplyPartial
  <2> QED BY <1>1, <2>1 DEF Less, Leg
<1>9. CASE ReplyHeader
  <2>1. hpc = "reply" /\ hpc' = "header"
    BY <1>9 DEF ReplyHeader
  <2> QED BY <1>1, <2>1 DEF Less, Leg
<1> QED BY <1>2, <1>3, <1>4, <1>5, <1>6, <1>7, <1>8, <1>9 DEF Reply

\* The session is opened and the body streamed: every recv that the loop goes
\* on after brought something.
LEMMA SessionLess ==
    ASSUME TaskTyped,
           \/ PreAbort \/ PreAborted \/ PreBegin \/ PreBegun
           \/ StreamCheck \/ StreamRecv \/ StreamWrote \/ StreamDone
    PROVE  Less
<1>1. MaxRedirects \in Nat /\ seen \in Nat /\ body_total \in Nat /\ RxChunk \in Nat
  BY HttpAssumption DEF TaskTyped
<1> USE DEF At, Goto, Requests, Opening, Streaming
<1>2. Remaining \in Nat
  BY <1>1 DEF Remaining
<1>3. CASE PreAbort \/ PreAborted \/ PreBegin
  <2>1. \/ hpc = "abort" /\ hpc' = "abort_ret"
        \/ hpc = "abort_ret" /\ hpc' = "begin"
        \/ hpc = "begin" /\ hpc' = "begin_ret"
    BY <1>3 DEF PreAbort, PreAborted, PreBegin
  <2> QED BY <1>1, <2>1 DEF Less, Leg, Left
<1>4. CASE PreBegun
  <2>1. hpc = "begin_ret" /\ hpc' \in {"stream", "fail"}
    BY <1>4 DEF PreBegun
  <2> QED BY <1>1, <2>1 DEF Less, Leg
<1>5. CASE StreamCheck \/ StreamWrote
  <2>1. /\ UNCHANGED <<seen, body_total>>
        /\ \/ hpc = "stream" /\ hpc' \in {"recv", "fail"}
           \/ hpc = "chunk_ret" /\ hpc' \in {"stream", "fail"}
    BY <1>5 DEF StreamCheck, StreamWrote, Locals
  <2>2. Remaining' = Remaining
    BY <2>1 DEF Remaining
  <2> QED BY <1>1, <1>2, <2>1, <2>2 DEF Less, Leg, Left
<1>6. CASE StreamRecv /\ hpc' = "fail"
  <2>1. hpc = "recv"
    BY <1>6 DEF StreamRecv
  <2> QED BY <1>1, <1>6, <2>1 DEF Less, Leg
<1>7. CASE StreamRecv /\ hpc' # "fail"
  <2>1. PICK got \in 1 .. RxChunk : got <= body_total - seen /\ seen' = seen + got
    BY <1>7 DEF StreamRecv
  <2>2. hpc = "recv" /\ hpc' = "chunk_ret" /\ body_total' = body_total
    BY <1>7 DEF StreamRecv
  <2>3. Remaining' \in Nat /\ Remaining' + 1 <= Remaining
    BY <1>1, <2>1, <2>2 DEF Remaining
  <2>4. Leg' = Leg /\ Left = 3 * Remaining /\ Left' = 3 * Remaining' + 2
    BY <2>2 DEF Leg, Left
  <2>5. \A m, n \in Nat : m + 1 <= n => 3 * m + 2 < 3 * n
    OBVIOUS
  <2>6. 3 * Remaining' + 2 < 3 * Remaining
    BY <1>2, <2>3, <2>5
  <2> QED BY <2>4, <2>6 DEF Less
<1>8. CASE StreamDone
  <2>1. /\ hpc = "stream"
        /\ \/ hpc' = "resolve" /\ stage' = "header" /\ hop' = 0
           \/ hpc' \in {"commit", "exit"}
    BY <1>8 DEF StreamDone, Finish
  <2> QED BY <1>1, <2>1 DEF Less, Leg
<1> QED BY <1>3, <1>4, <1>5, <1>6, <1>7, <1>8

\* The body of the header: data takes room in the buffer, and the framing goes
\* on to the next data or to the end unless a line is read on.
LEMMA HeaderLess ==
    ASSUME TaskTyped, HeaderCheck \/ HeaderRead \/ HeaderBroken \/ HeaderDone
    PROVE  Less \/ ReadsOn
<1>1. /\ HeaderMax \in Nat /\ RxChunk \in Nat /\ buf_filled \in 0 .. HeaderMax
      /\ part \in Parts
  BY HttpAssumption DEF TaskTyped
<1> USE DEF At, Goto, Requests, Opening, Streaming
<1>2. Room \in Nat /\ Rank \in 0 .. 4
  BY <1>1 DEF Room, Rank
<1>3. CASE HeaderBroken \/ HeaderDone \/ (HeaderCheck /\ hpc' = "fail")
  <2>1. hpc \in {"header", "hrecv"} /\ hpc' \in {"fail", "commit", "exit"}
    BY <1>3 DEF HeaderBroken, HeaderDone, HeaderCheck, Finish
  <2> QED BY <2>1 DEF Less, Leg
<1>4. CASE HeaderCheck /\ hpc' # "fail"
  <2>1. hpc = "header" /\ hpc' = "hrecv" /\ UNCHANGED <<part, buf_filled>>
    BY <1>4 DEF HeaderCheck, Locals, hdr
  <2>2. Room' = Room /\ Rank' = Rank
    BY <2>1 DEF Room, Rank
  <2> QED BY <1>2, <2>1, <2>2 DEF Less, Leg, Left
<1>5. CASE HeaderRead /\ part \in {"fixed", "data"}
  <2>1. PICK got \in 1 .. RxChunk : buf_filled + got <= HeaderMax /\ buf_filled' = buf_filled + got
    BY <1>5 DEF HeaderRead
  <2>2. hpc = "hrecv" /\ hpc' = "header" /\ part' \in Parts
    BY <1>5 DEF HeaderRead, After, Parts
  <2>3. Room' \in Nat /\ Room' + 1 <= Room
    BY <1>1, <2>1 DEF Room
  <2>4. Rank = 1 /\ Rank' \in 0 .. 4
    BY <1>5, <2>2 DEF Rank, Parts
  <2>5. Leg' = Leg /\ Left = 10 * Room + 2 * Rank /\ Left' = 10 * Room' + 2 * Rank' + 1
    BY <2>2 DEF Leg, Left
  <2>6. \A m, n \in Nat, k \in 0 .. 4 : m + 1 <= n => 10 * m + 2 * k + 1 < 10 * n + 2
    OBVIOUS
  <2>7. 10 * Room' + 2 * Rank' + 1 < 10 * Room + 2
    BY <1>2, <2>3, <2>4, <2>6
  <2>8. 10 * Room + 2 * Rank = 10 * Room + 2
    BY <1>2, <2>4
  <2> QED BY <2>5, <2>7, <2>8 DEF Less
<1>6. CASE HeaderRead /\ part \notin {"fixed", "data"} /\ part' # part
  <2>1. hpc = "hrecv" /\ hpc' = "header" /\ buf_filled' = buf_filled /\ part' \in After[part]
    BY <1>6 DEF HeaderRead
  <2>2. part # "end"
    BY <1>6, <2>1 DEF HeaderRead, After
  <2>3. Rank' + 1 <= Rank /\ Rank' \in 0 .. 4
    BY <1>1, <1>6, <2>1, <2>2 DEF After, Rank, Parts
  <2>4. Room' = Room
    BY <2>1 DEF Room
  <2> QED BY <1>2, <2>1, <2>3, <2>4 DEF Less, Leg, Left
<1>7. CASE HeaderRead /\ part \notin {"fixed", "data"} /\ part' = part
  <2>1. part \in {"size", "trailer"}
    BY <1>1, <1>7 DEF HeaderRead, After, Parts
  <2> QED BY <1>7, <2>1 DEF HeaderRead, ReadsOn, ReadsLines, hdr
<1> QED BY <1>3, <1>4, <1>5, <1>6, <1>7

\* The end of a download, whichever it is.
LEMMA EndLess ==
    ASSUME TaskTyped, Commit \/ Committed \/ RequestReboot \/ Fail \/ Failed \/ Exit
    PROVE  Less
<1>1. \/ hpc = "commit" /\ hpc' = "commit_ret"
      \/ hpc = "commit_ret" /\ hpc' \in {"reboot", "fail"}
      \/ hpc = "reboot" /\ hpc' = "exit"
      \/ hpc = "fail" /\ hpc' = "fail_ret"
      \/ hpc = "fail_ret" /\ hpc' = "exit"
      \/ hpc = "exit" /\ hpc' = "off"
  BY DEF Commit, Committed, RequestReboot, Fail, Failed, Exit, Finish, At, Goto
<1> QED BY <1>1 DEF Less, Leg, Left, Requests, Opening, Streaming

\* Only the test of s_running leads to a recv of the header.
LEMMA ReadsWhileRunning == ASSUME HttpTask, hpc' = "hrecv" PROVE s_running
<1> USE DEF At, Goto
<1>1. CASE HeaderCheck
  BY <1>1 DEF HeaderCheck
<1>2. CASE ReadStatus \/ Resolve \/ Connect \/ Reply
  BY <1>2 DEF ReadStatus, Resolve, Connect, Reply, ReplyUnusable, ReplyRedirect, ReplyFull,
              ReplyPartial, ReplyHeader
<1>3. CASE PreAbort \/ PreAborted \/ PreBegin \/ PreBegun
  BY <1>3 DEF PreAbort, PreAborted, PreBegin, PreBegun
<1>4. CASE StreamCheck \/ StreamRecv \/ StreamWrote \/ StreamDone
  BY <1>4 DEF StreamCheck, StreamRecv, StreamWrote, StreamDone, Finish
<1>5. CASE HeaderRead \/ HeaderBroken \/ HeaderDone
  BY <1>5 DEF HeaderRead, HeaderBroken, HeaderDone, Finish
<1>6. CASE Commit \/ Committed \/ RequestReboot \/ Fail \/ Failed \/ Exit
  BY <1>6 DEF Commit, Committed, RequestReboot, Fail, Failed, Exit
<1> QED BY <1>1, <1>2, <1>3, <1>4, <1>5, <1>6 DEF HttpTask

\* Whatever the server answers, whatever the options and however stop requests,
\* a second start and the Bluetooth service come in between, every step of a
\* download brings it nearer to its end (a redirect loop is cut after
\* MaxRedirects, a body in the smallest pieces ends), with one exception: a
\* further recv in a size line or in the trailer of header.bin, which the code
\* does not bound but only makes while s_running is set.
THEOREM DownloadAdvances == HttpSpec => TaskAdvances /\ []Measured
<1>1. ASSUME HttpIInv, [HttpNext]_allVars
      PROVE  [/\ HttpTask => Less \/ ReadsOn
              /\ HttpTask /\ hpc' = "hrecv" => s_running
              /\ http_thread = "live" /\ http_thread' = "live" => HttpTask \/ UNCHANGED task]_allVars
  <2>1. ASSUME HttpTask PROVE Less \/ ReadsOn
    <3>1. TaskTyped
      BY <1>1 DEF HttpIInv
    <3>2. CASE ReadStatus \/ Resolve \/ Connect \/ Reply
      BY <3>1, <3>2, RequestLess
    <3>3. CASE \/ PreAbort \/ PreAborted \/ PreBegin \/ PreBegun
               \/ StreamCheck \/ StreamRecv \/ StreamWrote \/ StreamDone
      BY <3>1, <3>3, SessionLess
    <3>4. CASE Commit \/ Committed \/ RequestReboot \/ Fail \/ Failed \/ Exit
      BY <3>1, <3>4, EndLess
    <3>5. CASE HeaderCheck \/ HeaderRead \/ HeaderBroken \/ HeaderDone
      BY <3>1, <3>5, HeaderLess
    <3> QED BY <2>1, <3>2, <3>3, <3>4, <3>5 DEF HttpTask
  <2>2. ASSUME http_thread = "live", http_thread' = "live", HttpNext, ~HttpTask
        PROVE  UNCHANGED task
    <3>1. CASE SystemReset
      BY <2>2, <3>1 DEF SystemReset, Reset
    <3>2. CASE SvcOta
      BY <3>2 DEF SvcOta, SvcInit, DispatchCtrl, DispatchReturn, DispatchReboot
    <3>3. ASSUME NEW c \in Caller, InApi(c) PROVE UNCHANGED task
      BY <3>3 DEF InApi
    <3>4. ASSUME NEW c \in Others, Starting(c) \/ StopCmd(c) PROVE UNCHANGED task
      <4>1. CASE StartGo(c)
        BY <2>2, <4>1 DEF StartGo, CreateHttpTask
      <4> QED BY <3>4, <4>1 DEF Starting, StartEnter, StartInited, StopCmd
    <3>5. CASE Undefined
      BY <3>5 DEF Undefined, allVars, httpVars
    <3> QED BY <2>2, <3>1, <3>2, <3>3, <3>4, <3>5 DEF HttpNext
  <2> QED BY <1>1, <2>1, <2>2, ReadsWhileRunning
<1>2. HttpIInv => Measured
  BY MeasureTyped DEF HttpIInv
<1> QED BY <1>1, <1>2, HttpIInvInvariant, PTL DEF HttpSpec, TaskAdvances

-----------------------------------------------------------------------------
(***************************************************************************)
(* Before the first download.                                              *)
(***************************************************************************)

\* Only a thread inside a call takes steps inside app_ota.
LEMMA ApiNotIdle == ASSUME NEW c \in Caller, InApi(c) PROVE pc[c] # "idle"
BY DEF InApi, LockedStep, InitBody, BeginBody, EraseSector, EraseEnd, ChunkRefused, ChunkWrite,
       CommitRefused, CommitBody, AbortBody, Locked, Emit, CommitReboot

\* The task only runs when it lives, and leaves the starters alone.
LEMMA TaskLive ==
    ASSUME HttpTask
    PROVE  http_thread = "live" /\ UNCHANGED <<s_ota_core_inited, kern>>
BY DEF HttpTask, At, TaskKeeps, ReadStatus, Resolve, Connect, Reply, ReplyUnusable, ReplyRedirect,
   ReplyFull, ReplyPartial, ReplyHeader, PreAbort, PreAborted, PreBegin, PreBegun, StreamCheck,
   StreamRecv, StreamWrote, StreamDone, HeaderCheck, HeaderRead, HeaderBroken, HeaderDone, Commit, Committed,
   RequestReboot, Fail, Failed,
   Exit

\* No task exists and none is about to be created before app_ota_init was called.
LEMMA NotStartedKeeps ==
    ASSUME HttpIInv, NotStarted, [HttpNext]_allVars
    PROVE  NotStarted'
<1> USE DEF control, task, kern
<1>0. kpc \in [Others -> {"boot", "idle", "start_init", "start_go", "api", "abort", "commit", "reboot"}]
  BY DEF HttpIInv, KernTyped
<1>1. ASSUME HttpTask PROVE s_ota_core_inited /\ s_ota_core_inited' = s_ota_core_inited
  BY <1>1, TaskLive DEF NotStarted
<1>2. ASSUME NEW c \in Caller, InApi(c) PROVE NotStarted'
  BY <1>2 DEF InApi, NotStarted
<1>3. ASSUME NEW c \in Others, Starting(c) PROVE NotStarted'
  <2>1. CASE \E opt \in Opts : StartEnter(c, opt)
    <3>1. UNCHANGED <<s_ota_core_inited, http_thread>>
      BY <2>1 DEF StartEnter
    <3>2. s_ota_core_inited \/ kpc' = [kpc EXCEPT ![c] = "start_init"]
      BY <2>1 DEF StartEnter
    <3> QED BY <1>0, <3>1, <3>2 DEF NotStarted
  <2>2. CASE StartInited(c)
    BY <2>2 DEF StartInited, NotStarted
  <2>3. CASE StartGo(c)
    BY <2>3 DEF StartGo, NotStarted
  <2> QED BY <1>3, <2>1, <2>2, <2>3 DEF Starting
<1>4. ASSUME NEW c \in Others, StopCmd(c) PROVE NotStarted'
  BY <1>4 DEF StopCmd, NotStarted
<1>5. CASE SvcOta
  <2>1. s_ota_core_inited' = s_ota_core_inited /\ http_thread' = http_thread
    BY <1>5 DEF SvcOta, SvcInit, DispatchCtrl, DispatchReturn, DispatchReboot
  <2>2. \E l \in {"api", "commit", "abort", "idle", "reboot"} : kpc' = [kpc EXCEPT ![BLE] = l]
    BY <1>5 DEF SvcOta, SvcInit, DispatchCtrl, DispatchReturn, DispatchReboot, BleGoes
  <2> QED BY <1>0, <2>1, <2>2 DEF NotStarted
<1>6. CASE SystemReset
  BY <1>6 DEF SystemReset, Reset, NotStarted
<1>7. CASE Undefined \/ UNCHANGED allVars
  BY <1>7 DEF Undefined, allVars, httpVars, NotStarted
<1> QED BY <1>1, <1>2, <1>3, <1>4, <1>5, <1>6, <1>7 DEF HttpNext, NotStarted

\* The steps the Bluetooth host takes inside app_ota: the callback brings the copy
\* up to date before the call returns.
LEMMA BleApiKeeps ==
    ASSUME FreshIInv, BLE \in Caller, InApi(BLE),
           ~s_ota_core_inited, \A c \in Others : kpc[c] # "start_init"
    PROVE  BleAlone'
<1>0. /\ \A c \in Caller \ {BLE} : pc[c] = "idle"
      /\ kpc[BLE] \notin {"boot", "idle", "reboot"} /\ pc[BLE] # "idle" /\ pc[BLE] # "init_null"
      /\ pc[BLE] = "init" => s_last_pdu = "IDLE"
      /\ pc[BLE] # "init" => s_cb
      /\ IF pc[BLE] \in {"emit", "emit_reboot"} THEN snap[BLE].state = s_st.state
                                                ELSE s_last_pdu = s_st.state
  BY ApiNotIdle DEF FreshIInv, BleAlone
<1>1. /\ UNCHANGED <<kpc, s_ota_core_inited>>
      /\ pc \in [Caller -> PcValues] /\ snap \in [Caller -> StatusType] /\ s_st \in StatusType
  BY DEF InApi, control, kern, FreshIInv, HttpIInv, IInv, TypeOK
<1> DEFINE Moves(l) == /\ pc' = [pc EXCEPT ![BLE] = l]
                       /\ IF l \in {"emit", "emit_reboot"} THEN snap'[BLE].state = s_st'.state
                                                           ELSE s_last_pdu' = s_st'.state
<1>2. ASSUME NEW l \in PcValues \ {"idle", "init", "init_null"}, Moves(l), s_cb' PROVE BleAlone'
  BY <1>0, <1>1, <1>2 DEF BleAlone
<1> HIDE DEF Moves
<1>3. /\ "ret" \in PcValues \ {"idle", "init", "init_null"}
      /\ "emit" \in PcValues \ {"idle", "init", "init_null"}
      /\ "emit_reboot" \in PcValues \ {"idle", "init", "init_null"}
      /\ "erase" \in PcValues \ {"idle", "init", "init_null"}
      /\ "reboot" \in PcValues \ {"idle", "init", "init_null"}
  BY DEF PcValues
<1>4. ASSUME NEW st, NEW rc, NEW l \in {"emit", "emit_reboot"}, StoreAndUnlock(BLE, st, rc, l)
      PROVE  Moves(l)
  BY <1>1, <1>4 DEF StoreAndUnlock, Moves
<1>5. CASE \E where \in {"init", "init_null"} : InitBody(BLE, where)
  <2>1. InitBody(BLE, "init")
    BY <1>0, <1>5 DEF InitBody, Locked
  <2>2. pc[BLE] = "init" /\ s_cb'
    BY <2>1 DEF InitBody, Locked
  <2>3. s_last_pdu' = s_last_pdu
    BY <2>2 DEF InApi, Emit, CommitReboot
  <2>4. Moves("ret")
    BY <1>0, <2>1, <2>2, <2>3 DEF InitBody, Idle, Status, Moves
  <2> QED BY <1>2, <1>3, <2>2, <2>4
<1>6. CASE BeginBody(BLE)
  <2>1. pc[BLE] = "begin" /\ s_cb' = s_cb
    BY <1>6 DEF BeginBody, Locked
  <2>2. s_last_pdu' = s_last_pdu
    BY <2>1 DEF InApi, Emit, CommitReboot
  <2>3. Moves("emit") \/ Moves("erase")
    BY <1>0, <1>4, <1>6, <2>1, <2>2 DEF BeginBody, Status, Moves
  <2> QED BY <1>0, <1>2, <1>3, <2>1, <2>3
<1>7. CASE EraseSector(BLE)
  <2>1. pc[BLE] = "erase" /\ UNCHANGED <<s_cb, s_st, pc>>
    BY <1>7 DEF EraseSector, ram, calls
  <2>2. s_last_pdu' = s_last_pdu
    BY <2>1 DEF InApi, Emit, CommitReboot
  <2>3. Moves("erase")
    BY <1>0, <1>1, <2>1, <2>2 DEF Moves
  <2> QED BY <1>0, <1>2, <1>3, <2>1, <2>3
<1>8. CASE EraseEnd(BLE) \/ ChunkRefused(BLE) \/ ChunkWrite(BLE) \/ CommitRefused(BLE) \/ AbortBody(BLE)
  <2>1. pc[BLE] # "init" /\ s_cb' = s_cb
    BY <1>8 DEF EraseEnd, ChunkRefused, ChunkWrite, CommitRefused, AbortBody, Refuse, Locked
  <2>2. Moves("emit")
    BY <1>4, <1>8 DEF EraseEnd, ChunkRefused, ChunkWrite, CommitRefused, AbortBody, Refuse
  <2> QED BY <1>0, <1>2, <1>3, <2>1, <2>2
<1>9. CASE CommitBody(BLE)
  <2>1. pc[BLE] # "init" /\ s_cb' = s_cb
    BY <1>9 DEF CommitBody, Locked
  <2>2. Moves("emit") \/ Moves("emit_reboot")
    BY <1>4, <1>9 DEF CommitBody
  <2> QED BY <1>0, <1>2, <1>3, <2>1, <2>2
<1>10. CASE Emit(BLE) /\ s_last_pdu' = IF s_cb THEN Delivered(BLE).state ELSE s_last_pdu
  <2>1. pc[BLE] \in {"emit", "emit_reboot"} /\ UNCHANGED <<s_cb, s_st>>
    BY <1>10 DEF Emit, ram
  <2>2. s_last_pdu' = s_st.state
    BY <1>0, <1>10, <2>1 DEF Delivered
  <2>3. Moves("ret") \/ Moves("reboot")
    BY <1>10, <2>1, <2>2 DEF Emit, Moves
  <2> QED BY <1>0, <1>2, <1>3, <2>1, <2>3
<1>11. CASE CommitReboot(BLE) /\ UNCHANGED s_last_pdu
  <2>1. pc[BLE] = "reboot" /\ UNCHANGED <<s_cb, s_st>>
    BY <1>11 DEF CommitReboot, ram
  <2>2. Moves("ret")
    BY <1>0, <1>11, <2>1 DEF CommitReboot, Moves
  <2> QED BY <1>0, <1>2, <1>3, <2>1, <2>2
<1> QED BY <1>5, <1>6, <1>7, <1>8, <1>9, <1>10, <1>11 DEF InApi, LockedStep

\* The requests and the returns of the Bluetooth host.
LEMMA BleDispatchKeeps ==
    ASSUME FreshIInv, BLE \in Caller, SvcOta,
           ~s_ota_core_inited, \A c \in Others : kpc[c] # "start_init"
    PROVE  BleAlone'
<1>0. /\ \A c \in Caller \ {BLE} : pc[c] = "idle"
      /\ kpc[BLE] \in {"boot", "idle", "reboot"} <=> pc[BLE] = "idle"
      /\ kpc[BLE] = "boot" => s_last_pdu = "IDLE"
      /\ kpc[BLE] # "boot" /\ pc[BLE] # "init" => s_cb
      /\ pc[BLE] \notin {"emit", "emit_reboot"} => s_last_pdu = s_st.state
  BY DEF FreshIInv, BleAlone
<1>1. /\ pc \in [Caller -> PcValues] /\ BLE \in Others
      /\ kpc \in [Others -> {"boot", "idle", "start_init", "start_go",
                             "api", "abort", "commit", "reboot"}]
  BY HttpAssumption DEF FreshIInv, HttpIInv, IInv, TypeOK, KernTyped, Others
<1>2. ASSUME NEW k \in {"api", "abort", "commit"},
             NEW l \in {"ret", "begin", "chunk", "commit", "abort"},
             kpc[BLE] = "idle", pc' = [pc EXCEPT ![BLE] = l], kpc' = [kpc EXCEPT ![BLE] = k],
             UNCHANGED <<s_st, s_cb, s_last_pdu>>
      PROVE  BleAlone'
  BY <1>0, <1>1, <1>2 DEF BleAlone
<1>3. CASE SvcInit
  <2>1. /\ pc' = [pc EXCEPT ![BLE] = "init"] /\ kpc' = [kpc EXCEPT ![BLE] = "api"]
        /\ s_last_pdu' = "IDLE" /\ s_st' = s_st /\ kpc[BLE] = "boot"
    BY <1>3 DEF SvcInit, InitCall, Proceed, BleGoes
  <2> QED BY <1>0, <1>1, <2>1 DEF BleAlone
<1>4. CASE DispatchCtrl
  <2>0. kpc[BLE] = "idle" /\ UNCHANGED s_last_pdu
    BY <1>4 DEF DispatchCtrl
  <2>1. ASSUME NEW n \in Sizes, BeginCall(BLE, n), BleGoes("api") PROVE BleAlone'
    BY <1>2, <2>0, <2>1 DEF BeginCall, ReturnEarly, Proceed, ram, BleGoes
  <2>2. ASSUME NEW off \in Offsets, NEW len \in Lens, ChunkCall(BLE, off, len), BleGoes("api")
        PROVE BleAlone'
    BY <1>2, <2>0, <2>2 DEF ChunkCall, ReturnEarly, Proceed, ram, BleGoes
  <2>3. CASE CommitCall(BLE) /\ BleGoes("commit")
    BY <1>2, <2>0, <2>3 DEF CommitCall, ReturnEarly, Proceed, ram, BleGoes
  <2>4. CASE AbortCall(BLE) /\ BleGoes("abort")
    BY <1>2, <2>0, <2>4 DEF AbortCall, ReturnEarly, Proceed, ram, BleGoes
  <2>5. CASE RebootCall(BLE) /\ BleGoes("idle")
    <3>1. UNCHANGED <<pc, s_st, s_cb, s_last_pdu>> /\ kpc' = [kpc EXCEPT ![BLE] = "idle"]
      BY <2>0, <2>5 DEF RebootCall, ram, calls, BleGoes
    <3> QED BY <1>0, <1>1, <2>0, <3>1 DEF BleAlone
  <2> QED BY <1>4, <2>1, <2>2, <2>3, <2>4, <2>5 DEF DispatchCtrl
<1>5. CASE DispatchReturn
  <2>1. PICK l \in {"idle", "reboot"} : kpc' = [kpc EXCEPT ![BLE] = l]
    BY <1>5 DEF DispatchReturn, BleGoes
  <2>2. /\ pc[BLE] = "ret" /\ pc' = [pc EXCEPT ![BLE] = "idle"] /\ kpc[BLE] # "boot"
        /\ UNCHANGED <<s_st, s_cb, s_last_pdu>>
    BY <1>5 DEF DispatchReturn, Return, ram
  <2> QED BY <1>0, <1>1, <2>1, <2>2 DEF BleAlone
<1>6. CASE DispatchReboot
  <2>1. /\ UNCHANGED <<pc, s_st, s_cb, s_last_pdu>> /\ kpc' = [kpc EXCEPT ![BLE] = "idle"]
        /\ kpc[BLE] = "reboot"
    BY <1>6 DEF DispatchReboot, RebootCall, ram, calls, BleGoes
  <2> QED BY <1>0, <1>1, <2>1 DEF BleAlone
<1> QED BY <1>3, <1>4, <1>5, <1>6 DEF SvcOta

LEMMA FreshKeeps == ASSUME FreshIInv, [HttpNext]_allVars PROVE FreshIInv'
<1>1. HttpIInv' /\ NotStarted'
  BY HttpNextIInv, NotStartedKeeps DEF FreshIInv
<1>2. BleAlone'
  <2> DEFINE Before == /\ BLE \in Caller /\ ~s_ota_core_inited
                       /\ \A c \in Others : kpc[c] # "start_init"
  <2> SUFFICES ASSUME Before' PROVE BleAlone'
    BY DEF BleAlone
  <2>0. kpc \in [Others -> {"boot", "idle", "start_init", "start_go",
                            "api", "abort", "commit", "reboot"}]
    BY DEF FreshIInv, HttpIInv, KernTyped
  <2>1. CASE UNCHANGED <<vars, kern, s_ota_core_inited, s_last_pdu>>
    BY <2>1 DEF FreshIInv, BleAlone, vars, ram, calls, kern
  <2>2. ASSUME HttpTask PROVE FALSE
    BY <2>2, TaskLive DEF FreshIInv, NotStarted
  <2>3. ASSUME NEW c \in Caller, InApi(c) PROVE BleAlone'
    <3>1. Before
      BY <2>3 DEF InApi, control, kern
    <3>2. c = BLE
      BY <2>3, <3>1, ApiNotIdle DEF FreshIInv, BleAlone
    <3> QED BY <2>3, <3>1, <3>2, BleApiKeeps
  <2>4. CASE SvcOta
    <3>1. s_ota_core_inited' = s_ota_core_inited
      BY <2>4 DEF SvcOta, SvcInit, DispatchCtrl, DispatchReturn, DispatchReboot, control
    <3>2. /\ kpc[BLE] # "start_init" /\ BLE \in Others
          /\ \E l \in {"api", "commit", "abort", "idle", "reboot"} : kpc' = [kpc EXCEPT ![BLE] = l]
      BY <2>4, HttpAssumption
         DEF SvcOta, SvcInit, DispatchCtrl, DispatchReturn, DispatchReboot, BleGoes, Others
    <3>3. Before
      BY <2>0, <3>1, <3>2
    <3> QED BY <2>4, <3>3, BleDispatchKeeps
  <2>5. ASSUME NEW c \in Others, Starting(c) PROVE FALSE
    <3>1. CASE \E opt \in Opts : StartEnter(c, opt)
      <4>1. s_ota_core_inited' = s_ota_core_inited
        BY <3>1 DEF StartEnter, control
      <4>2. s_ota_core_inited \/ kpc' = [kpc EXCEPT ![c] = "start_init"]
        BY <3>1 DEF StartEnter
      <4> QED BY <2>0, <4>1, <4>2
    <3>2. CASE StartInited(c)
      BY <3>2 DEF StartInited
    <3>3. CASE StartGo(c)
      <4>1. s_ota_core_inited' = s_ota_core_inited /\ kpc[c] = "start_go"
        BY <3>3 DEF StartGo, control
      <4> QED BY <4>1 DEF FreshIInv, NotStarted
    <3> QED BY <2>5, <3>1, <3>2, <3>3 DEF Starting
  <2>6. ASSUME NEW c \in Others, StopCmd(c) PROVE BleAlone'
    BY <2>1, <2>6 DEF StopCmd
  <2>7. CASE SystemReset
    <3>1. /\ pc' = [c \in Caller |-> "idle"] /\ s_st' = Idle /\ s_last_pdu' = "IDLE"
          /\ kpc' = [c \in Others |-> IF c = BLE THEN "boot" ELSE "idle"]
      BY <2>7 DEF SystemReset, RebootTask, Reset
    <3>2. BLE \in Others
      BY HttpAssumption DEF Others
    <3>3. kpc'[BLE] = "boot" /\ (\A c \in Caller : pc'[c] = "idle") /\ s_st'.state = "IDLE"
      BY <3>1, <3>2 DEF Idle, Status, Others
    <3> QED BY <3>1, <3>3 DEF BleAlone
  <2>8. CASE Undefined \/ UNCHANGED allVars
    BY <2>1, <2>8 DEF Undefined, allVars, httpVars, control
  <2> QED BY <2>2, <2>3, <2>4, <2>5, <2>6, <2>7, <2>8 DEF HttpNext
<1> QED BY <1>1, <1>2 DEF FreshIInv

\* Until a thread begins to start the first download, what a client reads between
\* two of its requests is the state of the session.
THEOREM StatusIsFresh == HttpSpec => []StatusFreshBeforeHttp
<1>1. HttpInit => FreshIInv
  <2> SUFFICES ASSUME HttpInit PROVE FreshIInv
    OBVIOUS
  <2>1. NotStarted
    BY DEF HttpInit, NotStarted
  <2>2. \A c \in Caller : pc[c] = "idle"
    BY DEF HttpInit, Init
  <2>3. s_last_pdu = "IDLE" /\ s_st.state = "IDLE"
    BY DEF HttpInit, Init, Idle, Status
  <2>4. ASSUME BLE \in Caller PROVE kpc[BLE] = "boot"
    BY <2>4, HttpAssumption DEF HttpInit, Others
  <2>5. BleAlone
    BY <2>2, <2>3, <2>4 DEF BleAlone
  <2> QED BY <2>1, <2>5, HttpInitIInv DEF FreshIInv
<1>2. FreshIInv /\ [HttpNext]_allVars => FreshIInv'
  BY FreshKeeps
<1>3. FreshIInv => StatusFreshBeforeHttp
  BY DEF FreshIInv, BleAlone, StatusFreshBeforeHttp
<1> QED BY <1>1, <1>2, <1>3, PTL DEF HttpSpec

-----------------------------------------------------------------------------
(***************************************************************************)
(* The task alone with its session.  First its own steps, by what they do  *)
(* to app_ota: nothing, a call, or a return.                               *)
(***************************************************************************)

\* The steps up to the reply, which do nothing to app_ota.
LEMMA RequestKeeps ==
    ASSUME HttpIInv, TaskInv, ReadStatus \/ Resolve \/ Connect \/ Reply
    PROVE  TaskInv'
<1> USE DEF At, Goto, TaskKeeps, Locals
<1>0. /\ CallInv /\ StageInv /\ ResumeInv /\ SessionInv
      /\ range_from \in 0 .. SlotSize
  BY DEF TaskInv, HttpIInv, TaskTyped
<1>1. ASSUME UNCHANGED <<s_st, pc, arg, ret, s_reboot_scheduled, http_thread>>,
             http_thread = "live", hpc \in {"status", "resolve", "connect", "reply"},
             hpc' \in {"resolve", "connect", "reply", "abort", "begin", "stream", "header", "fail"}
      PROVE  CallInv' /\ BeginInv' /\ ChunkInv' /\ CommitInv'
  BY <1>0, <1>1 DEF CallInv, Inside, BeginInv, ChunkInv, CommitInv
<1>2. CASE ReadStatus
  <2>1. UNCHANGED <<s_st, pc, arg, ret, s_reboot_scheduled, http_thread>>
    BY <1>2 DEF ReadStatus, vars, ram, boot, calls
  <2>2. http_thread = "live" /\ hpc = "status" /\ hpc' = "resolve"
    BY <1>2 DEF ReadStatus
  <2>3. StageInv'
    BY <1>0, <1>2, <2>1, <2>2 DEF ReadStatus, StageInv
  <2>4. ResumeInv'
    BY <1>2, <2>1, <2>2 DEF ReadStatus, ResumeInv
  <2>5. SessionInv'
    BY <1>0, <1>2, <2>1, <2>2 DEF ReadStatus, StageInv, SessionInv
  <2> QED BY <1>1, <2>1, <2>2, <2>3, <2>4, <2>5 DEF TaskInv
<1>3. CASE Resolve \/ Connect \/ ReplyUnusable \/ ReplyRedirect
  <2>1. UNCHANGED <<s_st, pc, arg, ret, s_reboot_scheduled, http_thread>>
    BY <1>3 DEF Resolve, Connect, ReplyUnusable, ReplyRedirect, vars, ram, boot, calls
  <2>2. /\ http_thread = "live" /\ hpc \in {"resolve", "connect", "reply"}
        /\ hpc' \in {"resolve", "connect", "reply", "fail"}
        /\ UNCHANGED <<stage, range_from, seen, body_total>>
    BY <1>3 DEF Resolve, Connect, ReplyUnusable, ReplyRedirect
  <2>3. StageInv' /\ ResumeInv' /\ SessionInv'
    BY <1>0, <2>1, <2>2 DEF StageInv, ResumeInv, SessionInv, Staged
  <2> QED BY <1>1, <2>1, <2>2, <2>3 DEF TaskInv
<1>4. CASE ReplyHeader
  <2>1. UNCHANGED <<s_st, pc, arg, ret, s_reboot_scheduled, http_thread>>
    BY <1>4 DEF ReplyHeader, vars, ram, boot, calls
  <2>2. /\ http_thread = "live" /\ hpc = "reply" /\ hpc' = "header" /\ stage = "header"
        /\ UNCHANGED <<stage, range_from, seen, body_total>>
    BY <1>4 DEF ReplyHeader
  <2>3. StageInv' /\ ResumeInv' /\ SessionInv'
    BY <1>0, <2>1, <2>2 DEF StageInv, ResumeInv, SessionInv, Staged
  <2> QED BY <1>1, <2>1, <2>2, <2>3 DEF TaskInv
<1>5. ASSUME NEW n \in Sizes, ReplyFull(n) PROVE TaskInv'
  <2>1. UNCHANGED <<s_st, pc, arg, ret, s_reboot_scheduled, http_thread>>
    BY <1>5 DEF ReplyFull, vars, ram, boot, calls
  <2>2. /\ http_thread = "live" /\ hpc = "reply" /\ hpc' \in {"begin", "abort"} /\ stage = "image"
        /\ UNCHANGED <<stage, range_from, seen>>
    BY <1>5 DEF ReplyFull
  <2>3. StageInv' /\ ResumeInv' /\ SessionInv'
    BY <1>0, <2>1, <2>2 DEF StageInv, ResumeInv, SessionInv
  <2> QED BY <1>1, <2>1, <2>2, <2>3 DEF TaskInv
<1>6. ASSUME NEW start \in Offsets, NEW end \in 0 .. U32 - 1, ReplyPartial(start, end)
      PROVE  TaskInv'
  <2>1. UNCHANGED <<s_st, pc, arg, ret, s_reboot_scheduled, http_thread>>
    BY <1>6 DEF ReplyPartial, vars, ram, boot, calls
  <2>2. /\ http_thread = "live" /\ hpc = "reply" /\ hpc' \in {"stream", "fail"} /\ stage = "image"
        /\ UNCHANGED <<stage, range_from, seen>>
        /\ hpc' = "stream" => range_from # 0 /\ ota_offset' = range_from
    BY <1>6 DEF ReplyPartial, RangeMatches
  <2>3. StageInv' /\ ResumeInv'
    BY <1>0, <2>1, <2>2 DEF StageInv, ResumeInv
  <2>4. SessionInv'
    BY <1>0, <2>1, <2>2 DEF ResumeInv, SessionInv, Aligned
  <2> QED BY <1>1, <2>1, <2>2, <2>3, <2>4 DEF TaskInv
<1> QED BY <1>2, <1>3, <1>4, <1>5, <1>6 DEF Reply

\* The calls.
LEMMA TaskCallsKeep ==
    ASSUME HttpIInv, TaskInv, PreAbort \/ PreBegin \/ StreamRecv \/ Commit \/ Fail
    PROVE  TaskInv'
<1> USE DEF At, Goto, TaskKeeps, Locals
<1>0. /\ CallInv /\ StageInv /\ ResumeInv /\ SessionInv
      /\ range_from \in 0 .. SlotSize /\ seen \in Nat /\ ota_offset \in Nat /\ body_total \in Nat
      /\ HTTP \in Caller /\ pc \in [Caller -> PcValues] /\ ret \in [Caller -> Errs]
      /\ arg \in [Caller -> [off: Nat, n: Nat]]
  BY HttpAssumption DEF TaskInv, HttpIInv, TaskTyped, IInv, TypeOK
<1>1. CASE PreAbort \/ Fail
  <2>1. pc' = [pc EXCEPT ![HTTP] = "ret"] \/ pc' = [pc EXCEPT ![HTTP] = "abort"]
    BY <1>1 DEF PreAbort, Fail, AbortCall, ReturnEarly, Proceed
  <2>2. /\ http_thread = "live" /\ http_thread' = "live"
        /\ \/ hpc = "abort" /\ hpc' = "abort_ret"
           \/ hpc' = "fail_ret"
        /\ UNCHANGED <<stage, seen>>
    BY <1>1 DEF PreAbort, Fail
  <2>3. CallInv'
    BY <1>0, <2>1, <2>2 DEF CallInv, Inside
  <2>4. BeginInv' /\ ChunkInv' /\ CommitInv' /\ ResumeInv' /\ SessionInv'
    BY <2>2 DEF BeginInv, ChunkInv, CommitInv, ResumeInv, SessionInv
  <2>5. StageInv'
    BY <1>0, <2>2 DEF StageInv
  <2> QED BY <2>3, <2>4, <2>5 DEF TaskInv
<1>2. CASE PreBegin
  <2>1. /\ http_thread = "live" /\ http_thread' = "live" /\ hpc = "begin" /\ hpc' = "begin_ret"
        /\ UNCHANGED <<stage, seen, body_total>>
    BY <1>2 DEF PreBegin
  <2>2. \/ /\ pc' = [pc EXCEPT ![HTTP] = "ret"]
           /\ \E rc \in {"PARAM", "INVALID_STATE"} : ret' = [ret EXCEPT ![HTTP] = rc]
        \/ /\ pc' = [pc EXCEPT ![HTTP] = "begin"]
           /\ arg' = [arg EXCEPT ![HTTP] = [off |-> 0, n |-> body_total]]
    BY <1>2 DEF PreBegin, BeginCall, ReturnEarly, Proceed
  <2>3. CallInv' /\ BeginInv'
    BY <1>0, <2>1, <2>2 DEF CallInv, Inside, BeginInv, Answered
  <2>4. ChunkInv' /\ CommitInv' /\ ResumeInv' /\ SessionInv'
    BY <2>1 DEF ChunkInv, CommitInv, ResumeInv, SessionInv
  <2>5. StageInv'
    BY <1>0, <2>1 DEF StageInv
  <2> QED BY <2>3, <2>4, <2>5 DEF TaskInv
<1>3. CASE StreamRecv
  <2>1. /\ http_thread = "live" /\ http_thread' = "live" /\ hpc = "recv"
        /\ UNCHANGED <<stage, range_from, body_total>>
    BY <1>3 DEF StreamRecv
  <2>2. CASE hpc' = "fail" /\ UNCHANGED <<vars, seen, ota_offset>>
    <3>1. UNCHANGED pc
      BY <2>2 DEF vars, calls
    <3>2. CallInv'
      BY <1>0, <2>1, <2>2, <3>1 DEF CallInv, Inside
    <3> QED BY <1>0, <2>1, <2>2, <3>2
            DEF TaskInv, BeginInv, ChunkInv, CommitInv, StageInv, ResumeInv, SessionInv
  <2>3. ASSUME NEW got \in 1 .. RxChunk, got <= body_total - seen, hpc' = "chunk_ret",
               ChunkCall(HTTP, ota_offset, got), seen' = seen + got, ota_offset' = ota_offset + got
        PROVE  TaskInv'
    <3>1. /\ s_st' = s_st
          /\ \/ /\ pc' = [pc EXCEPT ![HTTP] = "ret"]
                /\ \E rc \in {"PARAM", "INVALID_STATE"} : ret' = [ret EXCEPT ![HTTP] = rc]
             \/ /\ pc' = [pc EXCEPT ![HTTP] = "chunk"]
                /\ arg' = [arg EXCEPT ![HTTP] = [off |-> ota_offset, n |-> got]]
      BY <2>3 DEF ChunkCall, ReturnEarly, Proceed, ram
    <3>2. CallInv'
      BY <1>0, <2>1, <2>3, <3>1 DEF CallInv, Inside
    <3>3. Aligned /\ stage = "image"
      BY <1>0, <2>1 DEF SessionInv, StageInv
    <3>4. range_from' = 0 => /\ seen' = ota_offset' /\ seen' <= body_total'
                             /\ s_st'.total_size = body_total'
      BY <1>0, <2>1, <2>3, <3>1, <3>3, HttpAssumption DEF Aligned
    <3>5. ChunkInv'
      <4>1. CASE pc'[HTTP] = "ret" /\ ret'[HTTP] # "OK"
        BY <4>1 DEF ChunkInv, Answered
      <4>2. CASE pc'[HTTP] = "chunk" /\ arg'[HTTP] = [off |-> ota_offset, n |-> got]
        <5>1. arg'[HTTP].off = s_st'.bytes_received /\ ota_offset' = s_st'.bytes_received + arg'[HTTP].n
          BY <2>3, <3>1, <3>3, <4>2 DEF Aligned
        <5>2. s_st'.state \in {"READY", "WRITING"}
          BY <3>1, <3>3 DEF Aligned
        <5> QED BY <3>4, <4>2, <5>1, <5>2 DEF ChunkInv, Answered
      <4> QED BY <1>0, <3>1, <4>1, <4>2
    <3>6. BeginInv' /\ CommitInv' /\ ResumeInv' /\ SessionInv' /\ StageInv'
      BY <2>1, <2>3, <3>3 DEF BeginInv, CommitInv, ResumeInv, SessionInv, StageInv
    <3> QED BY <3>2, <3>5, <3>6 DEF TaskInv
  <2> QED BY <1>3, <2>2, <2>3 DEF StreamRecv
<1>4. CASE Commit
  <2>1. /\ http_thread = "live" /\ http_thread' = "live" /\ hpc = "commit" /\ hpc' = "commit_ret"
    BY <1>4 DEF Commit
  <2>2. \/ pc' = [pc EXCEPT ![HTTP] = "ret"] /\ ret' = [ret EXCEPT ![HTTP] = "INVALID_STATE"]
        \/ pc' = [pc EXCEPT ![HTTP] = "commit"]
    BY <1>4 DEF Commit, CommitCall, ReturnEarly, Proceed
  <2>3. CallInv' /\ CommitInv'
    BY <1>0, <2>1, <2>2 DEF CallInv, Inside, CommitInv
  <2>4. BeginInv' /\ ChunkInv' /\ ResumeInv' /\ SessionInv' /\ StageInv'
    BY <2>1 DEF BeginInv, ChunkInv, ResumeInv, SessionInv, StageInv
  <2> QED BY <2>3, <2>4 DEF TaskInv
<1> QED BY <1>1, <1>2, <1>3, <1>4

\* The returns.
LEMMA TaskReturnsKeep ==
    ASSUME HttpIInv, TaskInv, PreAborted \/ PreBegun \/ StreamWrote \/ Committed \/ Failed
    PROVE  TaskInv'
<1> USE DEF At, Goto, TaskKeeps, Locals
<1>0. /\ CallInv /\ BeginInv /\ ChunkInv /\ CommitInv /\ StageInv
      /\ range_from \in 0 .. SlotSize /\ seen \in Nat /\ ota_offset \in Nat /\ body_total \in Nat
      /\ HTTP \in Caller /\ pc \in [Caller -> PcValues]
  BY HttpAssumption DEF TaskInv, HttpIInv, TaskTyped, IInv, TypeOK
<1>1. /\ Return(HTTP) /\ http_thread = "live" /\ http_thread' = "live"
      /\ UNCHANGED <<stage, range_from, seen, body_total>>
  BY DEF PreAborted, PreBegun, StreamWrote, Committed, Failed
<1>2. /\ pc[HTTP] = "ret" /\ pc'[HTTP] = "idle" /\ UNCHANGED <<s_st, s_reboot_scheduled>>
  BY <1>0, <1>1 DEF Return, ram, boot
<1>3. CASE PreAborted
  <2>1. hpc = "abort_ret" /\ hpc' = "begin"
    BY <1>3 DEF PreAborted
  <2> QED BY <1>0, <1>1, <1>2, <2>1 DEF TaskInv, CallInv, Inside, BeginInv, ChunkInv, CommitInv,
             StageInv, ResumeInv, SessionInv
<1>4. CASE PreBegun
  <2>1. hpc = "begin_ret" /\ stage = "image" /\ seen = 0
    BY <1>0, <1>1, <1>4 DEF PreBegun, StageInv
  <2>2. CASE ret[HTTP] = "OK" /\ ota_offset' = 0 /\ hpc' = "stream"
    <3>1. s_st.state = "READY" /\ s_st.bytes_received = 0 /\ s_st.total_size = body_total
      BY <1>0, <1>1, <1>2, <2>1, <2>2 DEF BeginInv, Answered
    <3>2. Aligned'
      BY <1>0, <1>1, <1>2, <2>1, <2>2, <3>1 DEF Aligned
    <3> QED BY <1>1, <1>2, <2>1, <2>2, <3>2 DEF TaskInv, CallInv, Inside, BeginInv, ChunkInv,
               CommitInv, StageInv, ResumeInv, SessionInv
  <2>3. CASE hpc' = "fail"
    BY <1>1, <1>2, <2>3 DEF TaskInv, CallInv, Inside, BeginInv, ChunkInv, CommitInv, StageInv,
       ResumeInv, SessionInv
  <2> QED BY <1>4, <2>2, <2>3 DEF PreBegun
<1>5. CASE StreamWrote
  <2>1. hpc = "chunk_ret" /\ stage = "image" /\ UNCHANGED ota_offset
    BY <1>0, <1>1, <1>5 DEF StreamWrote, StageInv
  <2>2. CASE ret[HTTP] = "OK" /\ hpc' = "stream"
    <3>1. Aligned
      BY <1>0, <1>1, <1>2, <2>1, <2>2 DEF ChunkInv, Answered
    <3>2. Aligned'
      BY <1>1, <1>2, <2>1, <3>1 DEF Aligned
    <3> QED BY <1>1, <1>2, <2>1, <2>2, <3>2 DEF TaskInv, CallInv, Inside, BeginInv, ChunkInv,
               CommitInv, StageInv, ResumeInv, SessionInv
  <2>3. CASE hpc' = "fail"
    BY <1>1, <1>2, <2>3 DEF TaskInv, CallInv, Inside, BeginInv, ChunkInv, CommitInv, StageInv,
       ResumeInv, SessionInv
  <2> QED BY <1>5, <2>2, <2>3 DEF StreamWrote
<1>6. CASE Committed
  <2>1. hpc = "commit_ret"
    BY <1>6 DEF Committed
  <2>2. CASE ret[HTTP] = "OK" /\ hpc' = "reboot"
    <3>1. s_reboot_scheduled'
      BY <1>0, <1>1, <1>2, <2>1, <2>2 DEF CommitInv
    <3> QED BY <1>1, <1>2, <2>2, <3>1 DEF TaskInv, CallInv, Inside, BeginInv, ChunkInv, CommitInv,
               StageInv, ResumeInv, SessionInv
  <2>3. CASE hpc' = "fail"
    BY <1>1, <1>2, <2>3 DEF TaskInv, CallInv, Inside, BeginInv, ChunkInv, CommitInv, StageInv,
       ResumeInv, SessionInv
  <2> QED BY <1>6, <2>2, <2>3 DEF Committed
<1>7. CASE Failed
  <2>1. hpc' = "exit" /\ s_state' = "FAILED"
    BY <1>7 DEF Failed
  <2> QED BY <1>1, <1>2, <2>1 DEF TaskInv, CallInv, Inside, BeginInv, ChunkInv, CommitInv, StageInv,
             ResumeInv, SessionInv
<1> QED BY <1>3, <1>4, <1>5, <1>6, <1>7

\* The end of the stream and of the task.
LEMMA TaskEndKeeps ==
    ASSUME HttpIInv, TaskInv, s_lock = NONE \/ pc[HTTP] # "idle",
           \/ StreamCheck \/ StreamDone \/ RequestReboot \/ Exit
           \/ HeaderCheck \/ HeaderRead \/ HeaderBroken \/ HeaderDone
    PROVE  TaskInv'
<1> USE DEF At, Goto, TaskKeeps, Locals
<1>0. /\ CallInv /\ CommitInv /\ StageInv /\ SessionInv
      /\ range_from \in 0 .. SlotSize /\ seen \in Nat /\ ota_offset \in Nat /\ body_total \in Nat
      /\ StagedPrefix /\ s_st \in StatusType
  BY DEF TaskInv, HttpIInv, TaskTyped, IInv, TypeOK
<1>1. UNCHANGED <<s_st, pc>> /\ (s_reboot_scheduled => s_reboot_scheduled')
  BY DEF StreamCheck, StreamDone, HeaderCheck, HeaderRead, HeaderBroken, HeaderDone, RequestReboot,
         Exit, RebootCall, ScheduleReboot, vars, ram, boot, calls
<1>2. http_thread = "live" /\ hpc \in {"stream", "header", "hrecv", "reboot", "exit"}
  BY DEF StreamCheck, StreamDone, HeaderCheck, HeaderRead, HeaderBroken, HeaderDone, RequestReboot,
         Exit
<1>3. pc[HTTP] = "idle" /\ pc'[HTTP] = "idle"
  BY <1>0, <1>1, <1>2 DEF CallInv, Inside
<1>4. CASE StreamCheck
  <2>1. /\ hpc = "stream" /\ hpc' \in {"recv", "fail"} /\ http_thread' = "live"
        /\ UNCHANGED <<stage, range_from, seen, ota_offset, body_total>>
    BY <1>4 DEF StreamCheck
  <2>2. Aligned'
    BY <1>0, <1>1, <1>2, <2>1 DEF SessionInv, Aligned
  <2> QED BY <1>0, <1>2, <1>3, <2>1, <2>2 DEF TaskInv, CallInv, Inside, BeginInv, ChunkInv,
             CommitInv, StageInv, ResumeInv, SessionInv
<1>5. CASE StreamDone
  <2>1. /\ hpc = "stream" /\ http_thread' = "live"
        /\ UNCHANGED <<range_from, seen, ota_offset, body_total>>
        /\ \/ stage' = "header" /\ hpc' = "resolve"
           \/ stage' = stage /\ hpc' \in {"commit", "exit"}
    BY <1>2, <1>5 DEF StreamDone, Finish
  <2>2. Aligned /\ seen >= body_total
    BY <1>0, <1>2, <1>5, <2>1 DEF SessionInv, StreamDone, BodyComplete
  <2>3. range_from = 0 => Staged
    BY <1>0, <1>3, <2>2 DEF Aligned, Staged, StagedPrefix, StatusType
  <2>4. range_from' = 0 => Staged'
    BY <1>1, <2>1, <2>3 DEF Staged
  <2> QED BY <1>0, <1>2, <1>3, <2>1, <2>4 DEF TaskInv, CallInv, Inside, BeginInv, ChunkInv,
             CommitInv, StageInv, ResumeInv, SessionInv
<1>6. CASE HeaderCheck \/ HeaderRead \/ HeaderBroken \/ HeaderDone
  <2>1. /\ hpc \in {"header", "hrecv"} /\ http_thread' = "live"
        /\ hpc' \in {"header", "hrecv", "commit", "exit", "fail"}
        /\ UNCHANGED <<stage, range_from, body_total>>
    BY <1>2, <1>6 DEF HeaderCheck, HeaderRead, HeaderBroken, HeaderDone, Finish
  <2>2. range_from' = 0 => Staged'
    BY <1>0, <1>1, <1>2, <2>1 DEF SessionInv, Staged
  <2> QED BY <1>2, <1>3, <2>1, <2>2 DEF TaskInv, CallInv, Inside, BeginInv, ChunkInv,
             CommitInv, StageInv, ResumeInv, SessionInv
<1>7. CASE RequestReboot
  <2>1. hpc = "reboot" /\ http_thread' = "live" /\ hpc' = "exit"
    BY <1>2, <1>7 DEF RequestReboot
  <2>2. s_reboot_scheduled'
    BY <1>0, <1>1, <1>2, <2>1 DEF CommitInv
  <2> QED BY <1>3, <2>1, <2>2 DEF TaskInv, CallInv, Inside, BeginInv, ChunkInv, CommitInv, StageInv,
             ResumeInv, SessionInv
<1>8. CASE Exit
  <2>1. http_thread' = "none" /\ stage' = "image" /\ seen' = 0
    BY <1>8 DEF Exit
  <2> QED BY <1>3, <2>1 DEF TaskInv, CallInv, BeginInv, ChunkInv, CommitInv, StageInv, ResumeInv,
             SessionInv
<1> QED BY <1>4, <1>5, <1>6, <1>7, <1>8

\* The steps of the task inside app_ota.
LEMMA TaskApiKeeps ==
    ASSUME HttpIInv, TaskInv, http_thread \in {"none", "live"}, InApi(HTTP)
    PROVE  TaskInv'
<1>0. /\ CallInv /\ BeginInv /\ ChunkInv /\ CommitInv /\ StageInv
      /\ range_from \in 0 .. SlotSize /\ seen \in Nat /\ ota_offset \in Nat /\ body_total \in Nat
      /\ HTTP \in Caller /\ pc \in [Caller -> PcValues] /\ ret \in [Caller -> Errs]
      /\ snap \in [Caller -> StatusType] /\ s_st \in StatusType
      /\ arg \in [Caller -> [off: Nat, n: Nat]]
  BY HttpAssumption DEF TaskInv, HttpIInv, TaskTyped, IInv, TypeOK
<1>1. UNCHANGED <<http_thread, s_state, hpc, stage, range_from, ota_offset, seen, body_total>>
  BY DEF InApi, control, task
<1>2. /\ http_thread = "live" /\ pc[HTTP] \in Inside(hpc) /\ pc[HTTP] # "idle"
      /\ hpc \in {"begin_ret", "abort_ret", "chunk_ret", "commit_ret", "fail_ret"}
  BY <1>0, ApiNotIdle DEF CallInv, Inside
<1>3. StageInv' /\ ResumeInv' /\ SessionInv'
  BY <1>0, <1>1, <1>2 DEF StageInv, ResumeInv, SessionInv, At
<1>4. SUFFICES CallInv' /\ BeginInv' /\ ChunkInv' /\ CommitInv'
  BY <1>3 DEF TaskInv
<1>5. CASE BeginBody(HTTP) \/ EraseSector(HTTP) \/ EraseEnd(HTTP)
  <2>1. hpc = "begin_ret" /\ pc[HTTP] \in {"begin", "erase"} /\ arg[HTTP].n = body_total
    BY <1>0, <1>2, <1>5 DEF BeginBody, EraseSector, EraseEnd, Locked, Inside, BeginInv, At
  <2>2. \/ /\ pc'[HTTP] = "emit" /\ ret'[HTTP] # "OK"
        \/ /\ pc'[HTTP] = "erase" /\ arg'[HTTP].n = body_total
        \/ /\ pc'[HTTP] = "emit" /\ s_st' = Status("READY", "OK", 0, body_total)
    BY <1>0, <1>5, <2>1 DEF BeginBody, EraseSector, EraseEnd, StoreAndUnlock, calls
  <2>3. BeginInv'
    BY <1>1, <2>2 DEF BeginInv, Answered, At, Status
  <2> QED BY <1>1, <1>2, <2>1, <2>2, <2>3 DEF CallInv, Inside, ChunkInv, CommitInv, At
<1>6. CASE AbortBody(HTTP)
  <2>1. hpc \in {"abort_ret", "fail_ret"} /\ pc'[HTTP] = "emit"
    BY <1>0, <1>2, <1>6 DEF AbortBody, Locked, Inside, StoreAndUnlock
  <2> QED BY <1>1, <1>2, <2>1 DEF CallInv, Inside, BeginInv, ChunkInv, CommitInv, At
<1>7. CASE ChunkRefused(HTTP) \/ ChunkWrite(HTTP)
  <2>1. hpc = "chunk_ret" /\ pc[HTTP] = "chunk"
    BY <1>2, <1>7 DEF ChunkRefused, ChunkWrite, Locked, Inside
  <2>2. /\ pc'[HTTP] = "emit"
        /\ \/ ret'[HTTP] # "OK"
           \/ s_st' = Status("WRITING", "OK", s_st.bytes_received + arg[HTTP].n, s_st.total_size)
    BY <1>0, <1>7 DEF ChunkRefused, ChunkWrite, Refuse, StoreAndUnlock
  <2>3. ASSUME ret'[HTTP] = "OK" PROVE Aligned'
    <3>1. /\ s_st'.state = "WRITING" /\ s_st'.bytes_received = s_st.bytes_received + arg[HTTP].n
          /\ s_st'.total_size = s_st.total_size
      BY <2>2, <2>3 DEF Status
    <3>2. /\ ota_offset = s_st.bytes_received + arg[HTTP].n
          /\ range_from = 0 => /\ seen = ota_offset /\ seen <= body_total
                               /\ s_st.total_size = body_total
      BY <1>0, <1>2, <2>1 DEF ChunkInv, At
    <3> QED BY <1>1, <3>1, <3>2 DEF Aligned
  <2>4. ChunkInv'
    BY <2>2, <2>3 DEF ChunkInv, Answered
  <2> QED BY <1>1, <1>2, <2>1, <2>2, <2>4 DEF CallInv, Inside, BeginInv, CommitInv, At
<1>8. CASE CommitRefused(HTTP) \/ CommitBody(HTTP)
  <2>1. hpc = "commit_ret"
    BY <1>2, <1>8 DEF CommitRefused, CommitBody, Locked, Inside
  <2>2. pc'[HTTP] = "emit_reboot" \/ (pc'[HTTP] = "emit" /\ ret'[HTTP] # "OK")
    BY <1>0, <1>8 DEF CommitRefused, CommitBody, Refuse, StoreAndUnlock
  <2> QED BY <1>1, <1>2, <2>1, <2>2 DEF CallInv, Inside, BeginInv, ChunkInv, CommitInv, At
<1>9. CASE Emit(HTTP)
  <2>1. /\ UNCHANGED <<s_st, ret>>
        /\ \/ pc[HTTP] = "emit" /\ pc'[HTTP] = "ret"
           \/ pc[HTTP] = "emit_reboot" /\ pc'[HTTP] = "reboot"
    BY <1>0, <1>9 DEF Emit, ram
  <2>2. CallInv' /\ CommitInv'
    BY <1>0, <1>1, <1>2, <2>1 DEF CallInv, Inside, CommitInv, At
  <2>3. BeginInv' /\ ChunkInv'
    <3>1. BeginInv'
      BY <1>0, <1>1, <2>1 DEF BeginInv, Answered, At
    <3>2. ChunkInv'
      BY <1>0, <1>1, <2>1 DEF ChunkInv, Answered, Aligned, At
    <3> QED BY <3>1, <3>2
  <2> QED BY <2>2, <2>3
<1>10. CASE CommitReboot(HTTP)
  <2>1. hpc = "commit_ret" /\ pc'[HTTP] = "ret" /\ s_reboot_scheduled'
    BY <1>0, <1>2, <1>10 DEF CommitReboot, ScheduleReboot, boot, Inside
  <2> QED BY <1>1, <1>2, <2>1 DEF CallInv, Inside, BeginInv, ChunkInv, CommitInv, At
<1>11. ASSUME NEW where \in {"init", "init_null"}, InitBody(HTTP, where) PROVE FALSE
  BY <1>2, <1>11 DEF InitBody, Locked, Inside
<1> QED BY <1>5, <1>6, <1>7, <1>8, <1>9, <1>10, <1>11 DEF InApi, LockedStep

-----------------------------------------------------------------------------
\* Once the core is initialised the starter is outside app_ota, so the task and
\* nobody else can hold the lock.
LEMMA LockIsFree ==
    ASSUME OneClient, OwnIInv, http_thread = "live", pc[HTTP] = "idle"
    PROVE  s_lock = NONE
<1>1. \A c \in Caller : pc[c] # "erase"
  <2>1. \A c \in Starters : pc[c] # "erase"
    BY DEF OwnIInv, NotStarted, StarterInv
  <2> QED BY <2>1, HttpAssumption DEF OneClient
<1> QED BY <1>1 DEF OwnIInv, HttpIInv, IInv, TypeOK, LockInv

\* A step of the task leaves the other threads where they are.
LEMMA TaskPcOnly ==
    ASSUME HttpIInv, HttpTask
    PROVE  \A c \in Caller \ {HTTP} : pc'[c] = pc[c]
<1>1. TaskCore
  BY TaskIsCore
<1>2. pc' = pc \/ \E l : pc' = [pc EXCEPT ![HTTP] = l]
  BY <1>1 DEF TaskCore, ChunkCall, BeginCall, AbortCall, CommitCall, RebootCall, Return, ReturnEarly,
              Proceed, vars, calls
<1>3. pc \in [Caller -> PcValues]
  BY DEF HttpIInv, IInv, TypeOK
<1> QED BY <1>2, <1>3

\* So does a step of a thread inside app_ota.
LEMMA ApiPcOnly ==
    ASSUME HttpIInv, NEW c \in Caller, InApi(c)
    PROVE  \A d \in Caller \ {c} : pc'[d] = pc[d] /\ arg'[d] = arg[d] /\ ret'[d] = ret[d]
<1>1. /\ pc' = pc \/ \E l : pc' = [pc EXCEPT ![c] = l]
      /\ arg' = arg \/ \E l : arg' = [arg EXCEPT ![c] = l]
      /\ ret' = ret \/ \E l : ret' = [ret EXCEPT ![c] = l]
  BY DEF InApi, LockedStep, InitBody, BeginBody, EraseSector, EraseEnd, ChunkRefused, ChunkWrite,
         CommitRefused, CommitBody, AbortBody, Refuse, StoreAndUnlock, Emit, CommitReboot, calls
<1>2. /\ pc \in [Caller -> PcValues] /\ ret \in [Caller -> Errs]
      /\ arg \in [Caller -> [off: Nat, n: Nat]]
  BY DEF HttpIInv, IInv, TypeOK
<1> QED BY <1>1, <1>2

\* Without a task only the types of its locals matter.
LEMMA NoTask ==
    ASSUME http_thread = "none", pc[HTTP] = "idle", stage = "image", seen = 0
    PROVE  TaskInv
BY DEF TaskInv, CallInv, BeginInv, ChunkInv, CommitInv, StageInv, ResumeInv, SessionInv, At

\* The starter.
LEMMA StarterKeeps ==
    ASSUME OneClient, OwnIInv, http_thread # "corrupt", NEW c \in Others,
           Starting(c) \/ StopCmd(c), http_thread' # "corrupt"
    PROVE  StarterInv' /\ TaskInv'
<1>0. /\ StarterInv /\ TaskInv /\ NotStarted /\ c \in Starters /\ Starters \subseteq Caller \ {HTTP}
      /\ \A d \in Starters : d = c
      /\ HTTP \in Caller /\ c # HTTP /\ c \in Caller /\ Starters \subseteq Others
      /\ pc \in [Caller -> PcValues]
      /\ kpc \in [Others -> {"boot", "idle", "start_init", "start_go",
                             "api", "abort", "commit", "reboot"}]
  BY HttpAssumption DEF OneClient, OwnIInv, Others, HttpIInv, KernTyped, IInv, TypeOK
<1>1. ASSUME UNCHANGED <<vars, http_thread, task, s_state>> PROVE TaskInv'
  BY <1>0, <1>1 DEF task, vars, ram, boot, calls, TaskInv, CallInv, BeginInv, ChunkInv, CommitInv,
     StageInv, ResumeInv, SessionInv, At, Answered, Aligned, Staged
<1>2. ASSUME ~s_ota_core_inited, UNCHANGED <<http_thread, task>>, pc'[HTTP] = pc[HTTP] PROVE TaskInv'
  <2>1. http_thread' = "none" /\ stage' = "image" /\ seen' = 0 /\ pc'[HTTP] = "idle"
    BY <1>0, <1>2 DEF NotStarted, TaskInv, CallInv, StageInv, task
  <2> QED BY <2>1 DEF TaskInv, CallInv, BeginInv, ChunkInv, CommitInv, StageInv, ResumeInv,
             SessionInv, At
<1>3. CASE \E opt \in Opts : StartEnter(c, opt)
  <2>1. UNCHANGED <<s_ota_core_inited, http_thread, task, s_state>> /\ kpc[c] = "idle" /\ pc[c] = "idle"
    BY <1>3 DEF StartEnter, control, task
  <2>2. CASE ~s_ota_core_inited /\ InitCall(c, FALSE) /\ kpc' = [kpc EXCEPT ![c] = "start_init"]
    <3>1. pc' = [pc EXCEPT ![c] = "init_null"]
      BY <2>2 DEF InitCall, Proceed
    <3>2. StarterInv'
      BY <1>0, <2>1, <2>2, <3>1 DEF StarterInv
    <3> QED BY <1>0, <1>2, <2>1, <2>2, <3>1, <3>2
  <2>3. CASE kpc' = [kpc EXCEPT ![c] = "start_go"] /\ UNCHANGED vars
    <3>1. StarterInv'
      BY <1>0, <2>1, <2>3 DEF StarterInv, vars, calls
    <3> QED BY <1>1, <2>1, <2>3, <3>1
  <2> QED BY <1>3, <2>2, <2>3 DEF StartEnter
<1>4. CASE StartInited(c)
  <2>1. /\ kpc[c] = "start_init" /\ kpc' = [kpc EXCEPT ![c] = "start_go"]
        /\ pc' = [pc EXCEPT ![c] = "idle"] /\ UNCHANGED <<http_thread, task>>
    BY <1>4 DEF StartInited, Return, task
  <2>2. StarterInv'
    BY <1>0, <2>1 DEF StarterInv
  <2> QED BY <1>0, <1>2, <2>1, <2>2 DEF StarterInv
<1>5. CASE StartGo(c)
  <2>1. /\ kpc[c] = "start_go" /\ kpc' = [kpc EXCEPT ![c] = "idle"] /\ UNCHANGED vars
        /\ s_ota_core_inited' = s_ota_core_inited
    BY <1>5 DEF StartGo, control
  <2>2. StarterInv'
    BY <1>0, <2>1 DEF StarterInv, vars, calls
  <2>3. CASE UNCHANGED <<control, task>>
    BY <1>1, <2>1, <2>2, <2>3 DEF control
  <2>4. CASE CreateHttpTask
    <3>1. /\ http_thread = "none" /\ http_thread' = "live" /\ hpc' = "status"
          /\ UNCHANGED <<stage, seen>>
      BY <2>4 DEF CreateHttpTask
    <3>2. stage' = "image" /\ seen' = 0 /\ pc'[HTTP] = "idle"
      BY <1>0, <2>1, <3>1 DEF TaskInv, CallInv, StageInv, vars, calls
    <3>3. TaskInv'
      BY <3>1, <3>2 DEF TaskInv, CallInv, Inside, BeginInv, ChunkInv, CommitInv, StageInv, ResumeInv,
         SessionInv, At
    <3> QED BY <2>2, <3>3
  <2> QED BY <1>5, <2>3, <2>4 DEF StartGo
<1>6. CASE StopCmd(c)
  <2>1. UNCHANGED <<vars, http_thread, task, s_state, kpc, s_ota_core_inited>>
    BY <1>6 DEF StopCmd, kern, task
  <2>2. StarterInv'
    BY <1>0, <2>1 DEF StarterInv, vars, calls
  <2> QED BY <1>1, <2>1, <2>2
<1> QED BY <1>3, <1>4, <1>5, <1>6 DEF Starting

LEMMA OwnKeeps ==
    ASSUME OneClient, OwnIInv, [HttpNext]_allVars
    PROVE  OwnIInv'
<1>0. /\ HttpIInv' /\ NotStarted'
      /\ Starters \subseteq Caller \ {HTTP} /\ HTTP \in Caller /\ Others = Starters
  BY HttpNextIInv, NotStartedKeeps, HttpAssumption DEF OwnIInv, OneClient, Others
<1>1. SUFFICES ASSUME http_thread' # "corrupt" PROVE StarterInv' /\ TaskInv'
  BY <1>0 DEF OwnIInv
<1>2. CASE UNCHANGED allVars
  <2>1. UNCHANGED <<http_thread, s_ota_core_inited, s_state, kpc, pc, arg, ret, s_st, s_reboot_scheduled,
                    hpc, stage, range_from, ota_offset, seen, body_total>>
    BY <1>2 DEF allVars, httpVars, control, task, kern, vars, ram, boot, calls
  <2>2. StarterInv /\ TaskInv
    BY <1>1, <2>1 DEF OwnIInv
  <2>3. StarterInv'
    BY <2>1, <2>2 DEF StarterInv
  <2>4. TaskInv'
    BY <2>1, <2>2 DEF TaskInv, CallInv, BeginInv, ChunkInv, CommitInv, StageInv, ResumeInv,
       SessionInv, At, Answered, Aligned, Staged
  <2> QED BY <2>3, <2>4
<1>3. CASE HttpTask
  <2>1. /\ http_thread = "live" /\ UNCHANGED <<kpc, s_ota_core_inited>>
        /\ HttpIInv /\ StarterInv /\ TaskInv
    BY <1>3, TaskLive DEF kern, OwnIInv
  <2>2. StarterInv'
    BY <1>0, <1>3, <2>1, TaskPcOnly DEF StarterInv
  <2>3. s_lock = NONE \/ pc[HTTP] # "idle"
    BY <2>1, LockIsFree
  <2>4. TaskInv'
    BY <1>3, <2>1, <2>3, RequestKeeps, TaskCallsKeep, TaskReturnsKeep, TaskEndKeeps DEF HttpTask
  <2> QED BY <2>2, <2>4
<1>4. ASSUME NEW c \in Caller, InApi(c) PROVE StarterInv' /\ TaskInv'
  <2>1. /\ http_thread # "corrupt" /\ HttpIInv /\ StarterInv /\ TaskInv /\ NotStarted
        /\ UNCHANGED <<kpc, s_ota_core_inited, http_thread, task>>
    BY <1>4 DEF InApi, Defined, control, kern, OwnIInv
  <2>2. CASE c = HTTP
    <3>1. StarterInv'
      BY <1>0, <1>4, <2>1, <2>2, ApiPcOnly DEF StarterInv
    <3>2. TaskInv'
      BY <1>4, <2>1, <2>2, TaskApiKeeps DEF HttpIInv, ControlTyped
    <3> QED BY <3>1, <3>2
  <2>3. CASE c # HTTP
    <3>1. c \in Starters /\ pc[c] # "idle"
      BY <1>4, <2>3, ApiNotIdle, HttpAssumption DEF OneClient
    <3>2. kpc[c] = "start_init" /\ ~s_ota_core_inited /\ pc[c] \in {"init_null", "ret"}
      BY <2>1, <3>1 DEF StarterInv
    <3>3. pc'[c] = "ret"
      <4>1. pc \in [Caller -> PcValues]
        BY <2>1 DEF HttpIInv, IInv, TypeOK
      <4> QED BY <1>4, <3>2, <4>1 DEF InApi, LockedStep, InitBody, BeginBody, EraseSector, EraseEnd,
                 ChunkRefused, ChunkWrite, CommitRefused, CommitBody, AbortBody, Locked, Emit,
                 CommitReboot
    <3>4. StarterInv'
      BY <1>0, <1>4, <2>1, <3>2, <3>3, ApiPcOnly DEF StarterInv
    <3>5. pc'[HTTP] = pc[HTTP]
      BY <1>0, <1>4, <2>1, <2>3, ApiPcOnly
    <3>6. http_thread' = "none" /\ stage' = "image" /\ seen' = 0 /\ pc'[HTTP] = "idle"
      BY <2>1, <3>2, <3>5 DEF NotStarted, TaskInv, CallInv, StageInv, task
    <3>7. TaskInv'
      BY <3>6 DEF TaskInv, CallInv, BeginInv, ChunkInv, CommitInv, StageInv, ResumeInv, SessionInv, At
    <3> QED BY <3>4, <3>7
  <2> QED BY <2>2, <2>3
<1>5. ASSUME NEW c \in Others, Starting(c) \/ StopCmd(c) PROVE StarterInv' /\ TaskInv'
  <2>1. http_thread # "corrupt"
    BY <1>5 DEF Starting, StartEnter, StartInited, StartGo, StopCmd, Defined
  <2> QED BY <1>1, <1>5, <2>1, StarterKeeps
<1>6. ASSUME SvcOta PROVE FALSE
  BY <1>6 DEF SvcOta, SvcInit, DispatchCtrl, DispatchReturn, DispatchReboot, OneClient
<1>7. CASE SystemReset
  <2>1. /\ http_thread' = "none" /\ stage' = "image" /\ seen' = 0
        /\ pc' = [c \in Caller |-> "idle"]
        /\ kpc' = [c \in Others |-> IF c = BLE THEN "boot" ELSE "idle"]
    BY <1>7 DEF SystemReset, RebootTask, Reset
  <2>2. \A c \in Starters : kpc'[c] = "idle" /\ pc'[c] = "idle"
    BY <1>0, <2>1, HttpAssumption
  <2>3. pc'[HTTP] = "idle"
    BY <1>0, <2>1
  <2>4. TaskInv'
    BY <2>1, <2>3 DEF TaskInv, CallInv, BeginInv, ChunkInv, CommitInv, StageInv, ResumeInv, SessionInv, At
  <2> QED BY <2>2, <2>4 DEF StarterInv
<1>8. CASE Undefined
  BY <1>2, <1>8 DEF Undefined
<1> QED BY <1>2, <1>3, <1>4, <1>5, <1>6, <1>7, <1>8 DEF HttpNext

LEMMA OwnInit == ASSUME OneClient, HttpInit PROVE OwnIInv
<1>1. /\ http_thread = "none" /\ stage = "image" /\ seen = 0
      /\ pc = [c \in Caller |-> "idle"]
      /\ kpc = [c \in Others |-> IF c = BLE THEN "boot" ELSE "idle"]
  BY DEF HttpInit, Init
<1>2. Starters \subseteq Caller \ {HTTP, BLE} /\ HTTP \in Caller
  BY HttpAssumption
<1>3. StarterInv
  BY <1>1, <1>2 DEF StarterInv, Others
<1>4. NotStarted
  BY <1>1 DEF NotStarted
<1> QED BY <1>1, <1>2, <1>3, <1>4, NoTask, HttpInitIInv DEF OwnIInv

-----------------------------------------------------------------------------
\* Without svc_ota and with one starter, every piece of the body goes to the
\* offset the session is at, in a session nobody has closed or replaced.
THEOREM StreamIsAligned == ASSUME OneClient PROVE HttpSpec => []StreamAligned
<1>1. HttpInit => OwnIInv
  BY OwnInit
<1>2. OwnIInv /\ [HttpNext]_allVars => OwnIInv'
  BY OwnKeeps
<1>3. OwnIInv => StreamAligned
  BY DEF OwnIInv, TaskInv, SessionInv, Aligned, StreamAligned, At
<1> QED BY <1>1, <1>2, <1>3, PTL DEF HttpSpec

\* And a download that was not resumed and is done has staged a whole image.
THEOREM DoneIsStaged == ASSUME OneClient PROVE HttpSpec => []DoneMeansStaged
<1>1. HttpInit => OwnIInv
  BY OwnInit
<1>2. OwnIInv /\ [HttpNext]_allVars => OwnIInv'
  BY OwnKeeps
<1>3. OwnIInv => DoneMeansStaged
  BY DEF OwnIInv, TaskInv, SessionInv, Staged, DoneMeansStaged, At
<1> QED BY <1>1, <1>2, <1>3, PTL DEF HttpSpec
==============================================================================
