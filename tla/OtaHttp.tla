------------------------------- MODULE OtaHttp -------------------------------
(***************************************************************************)
(* HTTP pull-mode OTA, app/ota/app_ota_http.c, on top of AppOta: the       *)
(* download task, the threads that start and stop it (the shell commands,  *)
(* the "OTA:" trigger of tcp_rx_cb in app_main_zephyr.c) and, where it is  *)
(* built in, the BLE service svc_ota.c, which drives the same session.     *)
(*                                                                         *)
(* The server is arbitrary: it refuses, redirects, ignores Range, answers  *)
(* a wrong range, stalls, or sends the body in pieces of any size.         *)
(***************************************************************************)
EXTENDS AppOta

CONSTANTS
    HTTP,            \* the caller that is http_task
    BLE,             \* the caller that is the Bluetooth host; in Caller if svc_ota is built
    Starters,        \* the shell and the TCP client thread
    RxChunk,         \* APP_OTA_HTTP_RX_CHUNK
    HeaderMax,       \* APP_OTA_HTTP_SIGNED_HEADER_MAX, the size of s_signed_hdr
    MaxRedirects,    \* APP_OTA_HTTP_MAX_REDIRECTS
    U32,             \* 2^32: the arithmetic of body_total is modulo U32
    Opts             \* the header_url / auto_commit options downloads are started with

ASSUME HttpAssumption ==
    /\ HTTP \in Caller /\ BLE # HTTP
    /\ Starters \subseteq Caller \ {HTTP, BLE}
    /\ Caller \subseteq {HTTP, BLE} \cup Starters
    /\ RxChunk \in Nat \ {0} /\ MaxRedirects \in Nat /\ HeaderMax \in Nat
    /\ U32 \in Nat /\ U32 > SlotSize
    /\ Opts \subseteq [header: BOOLEAN, auto: BOOLEAN]

VARIABLES
    s_running,          \* s_running
    s_state,            \* s_state, app_ota_http_state_t
    s_has_header_url, s_auto_commit,
    s_ota_core_inited,  \* the static of app_ota_http_start
    http_thread,        \* the static k_thread http_task_data
    hpc,                \* where http_task is
    stage,              \* which of its two requests it is making
    hop,                \* redirects followed by this request
    range_from,         \* req.range_from, the resume point
    ota_offset,         \* img_sink.ota_offset
    seen, body_total,   \* locals of stream_fixed_body
    part,               \* what of the body of header.bin is read next
    buf_filled,         \* hdr_sink.buf_filled
    kpc,                \* where the other threads are in their handlers
    kopt,               \* the opts of an app_ota_http_start in progress
    s_last_pdu          \* svc_ota's copy of the status: its state field

control == <<s_running, s_state, s_has_header_url, s_auto_commit,
             s_ota_core_inited, http_thread>>
hdr     == <<part, buf_filled>>
task    == <<hpc, stage, hop, range_from, ota_offset, seen, body_total, hdr>>
kern    == <<kpc, kopt>>
httpVars == <<control, task, kern, s_last_pdu>>
allVars  == <<vars, httpVars>>

-----------------------------------------------------------------------------
HttpStates == {"IDLE", "RESOLVING", "CONNECTING", "REQUESTING", "DOWNLOADING",
               "HEADER_DL", "COMMITTING", "DONE", "FAILED"}

HttpPcs == {"off", "status", "resolve", "connect", "reply", "begin", "begin_ret",
            "abort", "abort_ret", "stream", "recv", "chunk_ret", "header", "hrecv",
            "commit", "commit_ret", "reboot", "fail", "fail_ret", "exit"}

\* The body of header.bin: of fixed length, or chunks, each a size line, data
\* and a CRLF, and after the chunk of size 0 the trailer lines.
Parts == {"fixed", "size", "data", "cr", "lf", "trailer", "end"}

Others == Caller \ {HTTP}
NoOpt == [header |-> FALSE, auto |-> FALSE]

HttpTypeOK ==
    /\ TypeOK
    /\ s_running \in BOOLEAN /\ s_has_header_url \in BOOLEAN
    /\ s_auto_commit \in BOOLEAN /\ s_ota_core_inited \in BOOLEAN
    /\ s_state \in HttpStates
    /\ http_thread \in {"none", "live", "corrupt"}
    /\ hpc \in HttpPcs
    /\ stage \in {"image", "header"}
    /\ hop \in 0 .. MaxRedirects
    /\ range_from \in 0 .. SlotSize
    /\ ota_offset \in Nat /\ seen \in Nat /\ body_total \in Nat
    /\ part \in Parts /\ buf_filled \in 0 .. HeaderMax
    /\ kpc \in [Others -> {"boot", "idle", "start_init", "start_go",
                           "api", "abort", "commit", "reboot"}]
    /\ kopt \in [Others -> [header: BOOLEAN, auto: BOOLEAN]]
    /\ s_last_pdu \in States

\* Zeroed statics; the Bluetooth host comes up and registers the service.
Reset ==
    /\ s_running' = FALSE /\ s_state' = "IDLE"
    /\ s_has_header_url' = FALSE /\ s_auto_commit' = FALSE
    /\ s_ota_core_inited' = FALSE /\ http_thread' = "none"
    /\ hpc' = "off" /\ stage' = "image"
    /\ hop' = 0 /\ range_from' = 0 /\ ota_offset' = 0 /\ seen' = 0 /\ body_total' = 0
    /\ part' = "end" /\ buf_filled' = 0
    /\ kpc' = [c \in Others |-> IF c = BLE THEN "boot" ELSE "idle"]
    /\ kopt' = [c \in Others |-> NoOpt]
    /\ s_last_pdu' = "IDLE"

HttpInit ==
    /\ Init
    /\ s_running = FALSE /\ s_state = "IDLE"
    /\ s_has_header_url = FALSE /\ s_auto_commit = FALSE
    /\ s_ota_core_inited = FALSE /\ http_thread = "none"
    /\ hpc = "off" /\ stage = "image"
    /\ hop = 0 /\ range_from = 0 /\ ota_offset = 0 /\ seen = 0 /\ body_total = 0
    /\ part = "end" /\ buf_filled = 0
    /\ kpc = [c \in Others |-> IF c = BLE THEN "boot" ELSE "idle"]
    /\ kopt = [c \in Others |-> NoOpt]
    /\ s_last_pdu = "IDLE"

\* What a kernel does whose live thread object was overwritten is undefined:
\* the model stops there and claims nothing about what follows.
Defined == http_thread # "corrupt"
Undefined == ~Defined /\ UNCHANGED allVars

-----------------------------------------------------------------------------
(***************************************************************************)
(* app_ota_http_start, called by thread c.  s_running is tested first and  *)
(* set last; between them the first caller runs app_ota_init(NULL, NULL).  *)
(***************************************************************************)
StartEnter(c, opt) ==
    /\ Defined /\ kpc[c] = "idle" /\ pc[c] = "idle"
    /\ ~s_running
    /\ kopt' = [kopt EXCEPT ![c] = opt]
    /\ \/ /\ ~s_ota_core_inited
          /\ InitCall(c, FALSE)
          /\ kpc' = [kpc EXCEPT ![c] = "start_init"]
       \/ /\ s_ota_core_inited
          /\ kpc' = [kpc EXCEPT ![c] = "start_go"]
          /\ UNCHANGED vars
    /\ UNCHANGED <<control, task, s_last_pdu>>

StartInited(c) ==
    /\ Defined /\ kpc[c] = "start_init"
    /\ Return(c)
    /\ s_ota_core_inited' = TRUE
    /\ kpc' = [kpc EXCEPT ![c] = "start_go"]
    /\ UNCHANGED <<s_running, s_state, s_has_header_url, s_auto_commit, http_thread,
                   task, kopt, s_last_pdu>>

\* k_thread_create on http_task_data: a thread that still lives is overwritten.
CreateHttpTask ==
    IF hpc = "off" /\ http_thread = "none"
    THEN /\ http_thread' = "live"
         /\ hpc' = "status"
         /\ UNCHANGED <<stage, hop, range_from, ota_offset, seen, body_total, hdr>>
    ELSE /\ http_thread' = "corrupt"
         /\ UNCHANGED task

\* A malformed URL ends the call; otherwise the options are stored, s_running
\* is set and the task is created.
StartGo(c) ==
    /\ Defined /\ kpc[c] = "start_go"
    /\ kpc' = [kpc EXCEPT ![c] = "idle"]
    /\ kopt' = [kopt EXCEPT ![c] = NoOpt]
    /\ \/ UNCHANGED <<control, task>>
       \/ /\ s_has_header_url' = kopt[c].header
          /\ s_auto_commit' = kopt[c].auto
          /\ s_running' = TRUE
          /\ s_state' = "RESOLVING"
          /\ CreateHttpTask
          /\ UNCHANGED s_ota_core_inited
    /\ UNCHANGED <<vars, s_last_pdu>>

\* app_ota_http_stop, called by the `ota stop' command.
StopCmd(c) ==
    /\ Defined /\ c \in Starters /\ kpc[c] = "idle"
    /\ s_running
    /\ s_running' = FALSE
    /\ UNCHANGED <<vars, s_state, s_has_header_url, s_auto_commit, s_ota_core_inited,
                   http_thread, task, kern, s_last_pdu>>

Starting(c) ==
    \/ \E opt \in Opts : StartEnter(c, opt)
    \/ StartInited(c)
    \/ StartGo(c)

-----------------------------------------------------------------------------
(***************************************************************************)
(* svc_ota: app_ota_svc_init, and dispatch_ctrl on the Bluetooth host.     *)
(* A handler that only makes one app_ota call waits for it in "api".       *)
(***************************************************************************)
BleGoes(l) == kpc' = [kpc EXCEPT ![BLE] = l]

SvcInit ==
    /\ Defined /\ BLE \in Caller
    /\ kpc[BLE] = "boot"
    /\ InitCall(BLE, TRUE)
    /\ s_last_pdu' = "IDLE"
    /\ BleGoes("api")
    /\ UNCHANGED <<control, task, kopt>>

DispatchCtrl ==
    /\ Defined /\ BLE \in Caller
    /\ kpc[BLE] = "idle"
    /\ \/ (\E n \in Sizes : BeginCall(BLE, n)) /\ BleGoes("api")
       \/ (\E off \in Offsets, len \in Lens : ChunkCall(BLE, off, len)) /\ BleGoes("api")
       \/ CommitCall(BLE) /\ BleGoes("commit")
       \/ AbortCall(BLE) /\ BleGoes("abort")
       \/ RebootCall(BLE) /\ BleGoes("idle")
    /\ UNCHANGED <<control, task, kopt, s_last_pdu>>

\* The app_ota call is back.  COMMIT goes on to request the reboot again, and
\* ABORT goes on to stop the download.
DispatchReturn ==
    /\ Defined /\ BLE \in Caller
    /\ kpc[BLE] \in {"api", "abort", "commit"}
    /\ Return(BLE)
    /\ BleGoes(IF kpc[BLE] = "commit" /\ ret[BLE] = "OK" THEN "reboot" ELSE "idle")
    /\ s_running' = (s_running /\ kpc[BLE] # "abort")
    /\ UNCHANGED <<s_state, s_has_header_url, s_auto_commit, s_ota_core_inited,
                   http_thread, task, kopt, s_last_pdu>>

DispatchReboot ==
    /\ Defined /\ BLE \in Caller
    /\ kpc[BLE] = "reboot"
    /\ RebootCall(BLE)
    /\ BleGoes("idle")
    /\ UNCHANGED <<control, task, kopt, s_last_pdu>>

SvcOta == SvcInit \/ DispatchCtrl \/ DispatchReturn \/ DispatchReboot

-----------------------------------------------------------------------------
(***************************************************************************)
(* http_task.                                                              *)
(***************************************************************************)
At(l) == http_thread = "live" /\ hpc = l
Goto(l) == hpc' = l

\* What a step of the task that only moves on leaves alone.
TaskKeeps == UNCHANGED <<s_running, s_has_header_url, s_auto_commit, s_ota_core_inited,
                         http_thread, kern, s_last_pdu>>
Locals == <<stage, hop, range_from, ota_offset, seen, body_total, hdr>>

\* app_ota_get_status waits for s_lock; a session that is mid-flight is resumed.
ReadStatus ==
    /\ At("status") /\ s_lock = NONE
    /\ range_from' = IF s_st.state = "WRITING" THEN s_st.bytes_received ELSE 0
    /\ ota_offset' = range_from'
    /\ Goto("resolve")
    /\ UNCHANGED <<vars, s_state, stage, hop, seen, body_total, hdr>> /\ TaskKeeps

\* The request up to the point where it is sent: parse_url and resolve_host,
\* then socket, connect and send; each can fail.
Resolve ==
    /\ At("resolve")
    /\ \/ s_state' = "RESOLVING" /\ Goto("fail")
       \/ s_state' = "CONNECTING" /\ Goto("connect")
    /\ UNCHANGED <<vars, Locals>> /\ TaskKeeps

Connect ==
    /\ At("connect")
    /\ \/ Goto("fail") /\ UNCHANGED s_state
       \/ s_state' = "REQUESTING" /\ Goto("reply")
    /\ UNCHANGED <<vars, Locals>> /\ TaskKeeps

\* No usable response: the peer stalls or closes, the headers do not parse or
\* do not fit, a redirect names no location, or the status, the encoding or a
\* missing length is not acceptable.
ReplyUnusable ==
    /\ At("reply")
    /\ Goto("fail")
    /\ UNCHANGED <<vars, s_state, Locals>> /\ TaskKeeps

\* Mutant: one redirect too many.
M_FollowsRedirect == hop <= MaxRedirects

\* A 3xx with a Location: http_request tries again up to MaxRedirects times.
FollowsRedirect == hop < MaxRedirects

ReplyRedirect ==
    /\ At("reply")
    /\ \/ FollowsRedirect /\ hop' = hop + 1 /\ Goto("resolve")
       \/ ~FollowsRedirect /\ Goto("fail") /\ UNCHANGED hop
    /\ UNCHANGED <<vars, s_state, stage, range_from, ota_offset, seen, body_total, hdr>>
    /\ TaskKeeps

\* image_pre_stream, 200 with Content-Length n: a fresh session, after an
\* abort if a resume was asked for.
ReplyFull(n) ==
    /\ At("reply") /\ stage = "image"
    /\ body_total' = n
    /\ Goto(IF range_from = 0 THEN "begin" ELSE "abort")
    /\ UNCHANGED <<vars, s_state, stage, hop, range_from, ota_offset, seen, hdr>>
    /\ TaskKeeps

\* Mutant: any range is taken for the one that was asked for.
M_RangeMatches(start) == range_from # 0

\* image_pre_stream, 206 with Content-Range start-end: the session is kept if
\* this is the range that was asked for.
RangeMatches(start) == range_from # 0 /\ start = range_from

ReplyPartial(start, end) ==
    /\ At("reply") /\ stage = "image"
    /\ \/ /\ RangeMatches(start)
          /\ ota_offset' = start
          /\ s_state' = "DOWNLOADING"
          /\ body_total' = (end + 1 - start) % U32
          /\ Goto(IF body_total' = 0 THEN "fail" ELSE "stream")
       \/ /\ ~RangeMatches(start)
          /\ Goto("fail")
          /\ UNCHANGED <<s_state, ota_offset, body_total>>
    /\ UNCHANGED <<vars, stage, hop, range_from, seen, hdr>> /\ TaskKeeps

PreAbort ==
    /\ At("abort")
    /\ AbortCall(HTTP)
    /\ Goto("abort_ret")
    /\ UNCHANGED <<s_state, Locals>> /\ TaskKeeps

PreAborted ==
    /\ At("abort_ret")
    /\ Return(HTTP)
    /\ Goto("begin")
    /\ UNCHANGED <<s_state, Locals>> /\ TaskKeeps

PreBegin ==
    /\ At("begin")
    /\ BeginCall(HTTP, body_total)
    /\ Goto("begin_ret")
    /\ UNCHANGED <<s_state, Locals>> /\ TaskKeeps

PreBegun ==
    /\ At("begin_ret")
    /\ Return(HTTP)
    /\ \/ /\ ret[HTTP] = "OK"
          /\ ota_offset' = 0
          /\ s_state' = "DOWNLOADING"
          /\ Goto("stream")
       \/ /\ ret[HTTP] # "OK"
          /\ Goto("fail")
          /\ UNCHANGED <<s_state, ota_offset>>
    /\ UNCHANGED <<stage, hop, range_from, seen, body_total, hdr>> /\ TaskKeeps

\* Mutant: the body is taken to end one unit early.
M_BodyComplete == seen + 1 >= body_total

\* The loop of stream_fixed_body: s_running is tested, then one recv blocks
\* for up to its timeout, then app_ota_chunk is called with what came, whatever
\* has happened to s_running and to the session in the meantime.  The counters
\* are moved here; a refused chunk ends the download, so they are never used
\* after one.
BodyComplete == seen >= body_total

StreamCheck ==
    /\ At("stream") /\ ~BodyComplete
    /\ Goto(IF s_running THEN "recv" ELSE "fail")
    /\ UNCHANGED <<vars, s_state, Locals>> /\ TaskKeeps

StreamRecv ==
    /\ At("recv")
    /\ \/ /\ \E got \in 1 .. RxChunk :
                /\ got <= body_total - seen
                /\ ChunkCall(HTTP, ota_offset, got)
                /\ seen' = seen + got
                /\ ota_offset' = ota_offset + got
          /\ Goto("chunk_ret")
       \/ /\ Goto("fail")               \* the recv times out, or the peer closes
          /\ UNCHANGED <<vars, seen, ota_offset>>
    /\ UNCHANGED <<s_state, stage, hop, range_from, body_total, hdr>> /\ TaskKeeps

StreamWrote ==
    /\ At("chunk_ret")
    /\ Return(HTTP)
    /\ Goto(IF ret[HTTP] = "OK" THEN "stream" ELSE "fail")
    /\ UNCHANGED <<s_state, Locals>> /\ TaskKeeps

\* Stage 3: commit, or leave the session for a manual commit.
Finish ==
    IF s_auto_commit
    THEN s_state' = "COMMITTING" /\ Goto("commit") /\ UNCHANGED s_running
    ELSE s_state' = "DONE" /\ s_running' = FALSE /\ Goto("exit")

StreamDone ==
    /\ At("stream") /\ BodyComplete
    /\ \/ /\ s_has_header_url
          /\ stage' = "header" /\ hop' = 0
          /\ s_state' = "HEADER_DL"
          /\ Goto("resolve")
          /\ UNCHANGED s_running
       \/ /\ ~s_has_header_url
          /\ Finish
          /\ UNCHANGED <<stage, hop>>
    /\ UNCHANGED <<vars, range_from, ota_offset, seen, body_total, hdr, s_has_header_url,
                   s_auto_commit, s_ota_core_inited, http_thread, kern, s_last_pdu>>

\* Stage 2, header.bin into s_signed_hdr: no pre-stream hook, and the body may
\* be of fixed length or chunked.
ReplyHeader ==
    /\ At("reply") /\ stage = "header"
    /\ s_state' = "HEADER_DL"
    /\ part' \in {"fixed", "size"}
    /\ Goto("header")
    /\ UNCHANGED <<vars, stage, hop, range_from, ota_offset, seen, body_total, buf_filled>>
    /\ TaskKeeps

\* Mutant: reading a line does not look at s_running, as the drain would not
\* if it were written for (;;).
M_HeaderCheck ==
    /\ At("header") /\ part # "end"
    /\ Goto(IF s_running \/ part \in {"size", "trailer"} THEN "hrecv" ELSE "fail")
    /\ UNCHANGED <<vars, s_state, Locals>> /\ TaskKeeps

\* Every loop over the body, those of bs_read_line and bs_read_exact included,
\* tests s_running before each recv.
HeaderCheck ==
    /\ At("header") /\ part # "end"
    /\ Goto(IF s_running THEN "hrecv" ELSE "fail")
    /\ UNCHANGED <<vars, s_state, Locals>> /\ TaskKeeps

\* What can follow once something of a part has been read.  A size line and
\* the trailer have no bound: bs_read_line drains a line of any length and the
\* trailer loop skips any number of lines, long ones too.
After == [fixed   |-> {"fixed", "end"},
          size    |-> {"size", "data", "trailer"},
          data    |-> {"data", "cr"},
          cr      |-> {"lf", "size"},
          lf      |-> {"size"},
          trailer |-> {"trailer", "end"},
          end     |-> {}]

\* One recv brings data for sink_write, or bytes of the framing.
HeaderRead ==
    /\ At("hrecv")
    /\ part' \in After[part]
    /\ \/ /\ part \in {"fixed", "data"}
          /\ \E got \in 1 .. RxChunk : /\ buf_filled + got <= HeaderMax
                                       /\ buf_filled' = buf_filled + got
       \/ part \notin {"fixed", "data"} /\ UNCHANGED buf_filled
    /\ Goto("header")
    /\ UNCHANGED <<vars, s_state, stage, hop, range_from, ota_offset, seen, body_total>>
    /\ TaskKeeps

\* The recv times out or the peer closes, the data does not fit s_signed_hdr,
\* a size line is too long or has no digit, or a chunk does not end in CRLF.
HeaderBroken ==
    /\ At("hrecv")
    /\ Goto("fail")
    /\ UNCHANGED <<vars, s_state, Locals>> /\ TaskKeeps

HeaderDone ==
    /\ At("header") /\ part = "end"
    /\ Finish
    /\ UNCHANGED <<vars, Locals, s_has_header_url, s_auto_commit, s_ota_core_inited,
                   http_thread, kern, s_last_pdu>>

Commit ==
    /\ At("commit")
    /\ CommitCall(HTTP)
    /\ Goto("commit_ret")
    /\ UNCHANGED <<s_state, Locals>> /\ TaskKeeps

Committed ==
    /\ At("commit_ret")
    /\ Return(HTTP)
    /\ \/ ret[HTTP] = "OK" /\ s_state' = "DONE" /\ s_running' = FALSE /\ Goto("reboot")
       \/ ret[HTTP] # "OK" /\ Goto("fail") /\ UNCHANGED <<s_state, s_running>>
    /\ UNCHANGED <<Locals, s_has_header_url, s_auto_commit, s_ota_core_inited,
                   http_thread, kern, s_last_pdu>>

RequestReboot ==
    /\ At("reboot")
    /\ RebootCall(HTTP)
    /\ Goto("exit")
    /\ UNCHANGED <<s_state, Locals>> /\ TaskKeeps

\* The fail label: the session is given up, whatever it was.
Fail ==
    /\ At("fail")
    /\ AbortCall(HTTP)
    /\ Goto("fail_ret")
    /\ UNCHANGED <<s_state, Locals>> /\ TaskKeeps

\* Mutant: s_running stays set.
M_Failed ==
    /\ At("fail_ret")
    /\ Return(HTTP)
    /\ s_state' = "FAILED"
    /\ Goto("exit")
    /\ UNCHANGED Locals /\ TaskKeeps

Failed ==
    /\ At("fail_ret")
    /\ Return(HTTP)
    /\ s_state' = "FAILED"
    /\ s_running' = FALSE
    /\ Goto("exit")
    /\ UNCHANGED <<Locals, s_has_header_url, s_auto_commit, s_ota_core_inited,
                   http_thread, kern, s_last_pdu>>

\* The thread function returns and the kernel ends the thread.
Exit ==
    /\ At("exit")
    /\ Goto("off")
    /\ http_thread' = "none"
    /\ stage' = "image"
    /\ hop' = 0 /\ range_from' = 0 /\ ota_offset' = 0 /\ seen' = 0 /\ body_total' = 0
    /\ part' = "end" /\ buf_filled' = 0
    /\ UNCHANGED <<vars, s_running, s_state, s_has_header_url, s_auto_commit,
                   s_ota_core_inited, kern, s_last_pdu>>

\* The server's answer.
Reply ==
    \/ ReplyUnusable
    \/ ReplyRedirect
    \/ \E n \in Sizes : ReplyFull(n)
    \/ \E start \in Offsets, end \in 0 .. U32 - 1 : ReplyPartial(start, end)
    \/ ReplyHeader

HttpTask ==
    \/ ReadStatus \/ Resolve \/ Connect \/ Reply
    \/ PreAbort \/ PreAborted \/ PreBegin \/ PreBegun
    \/ StreamCheck \/ StreamRecv \/ StreamWrote \/ StreamDone
    \/ HeaderCheck \/ HeaderRead \/ HeaderBroken \/ HeaderDone
    \/ Commit \/ Committed \/ RequestReboot \/ Fail \/ Failed \/ Exit

-----------------------------------------------------------------------------
\* The steps inside app_ota that a thread takes on behalf of its call; the
\* callback stores the status in s_last_pdu if one is registered.
InApi(c) ==
    /\ Defined
    /\ \/ LockedStep(c) /\ UNCHANGED s_last_pdu
       \/ Emit(c) /\ s_last_pdu' = IF s_cb THEN Delivered(c).state ELSE s_last_pdu
       \/ CommitReboot(c) /\ UNCHANGED s_last_pdu
    /\ UNCHANGED <<control, task, kern>>

SystemReset == Defined /\ RebootTask /\ Reset

HttpNext ==
    \/ SystemReset
    \/ HttpTask
    \/ SvcOta
    \/ \E c \in Caller : InApi(c)
    \/ \E c \in Others : Starting(c) \/ StopCmd(c)
    \/ Undefined

HttpSpec == HttpInit /\ [][HttpNext]_allVars

\* The download task always runs on: every recv, send and connect it blocks in
\* ends with data or with its timeout, and the calls it makes into app_ota end.
\* Nothing is assumed of the other threads.
HttpFairness ==
    /\ WF_allVars(HttpTask)
    /\ WF_allVars(InApi(HTTP))

HttpFairSpec == HttpSpec /\ HttpFairness

-----------------------------------------------------------------------------
(***************************************************************************)
(* Properties.                                                             *)
(***************************************************************************)

\* While the download task is the only client of app_ota, each recv goes to
\* the offset the session is at, resumed or not, and the session it streams
\* into is the one it opened: nobody has closed or replaced it.
StreamAligned ==
    At("stream") \/ At("recv") =>
        /\ s_st.state \in {"READY", "WRITING"}
        /\ ota_offset = s_st.bytes_received

\* A download that was not resumed and reaches its commit, or is DONE and left
\* for a manual commit, has staged a whole image of the announced size.
DoneMeansStaged ==
    /\ http_thread = "live" /\ hpc \in {"commit", "exit"} /\ range_from = 0
    /\ s_state \in {"COMMITTING", "DONE"} /\ ~s_reboot_scheduled
    => /\ s_st.state = "WRITING"
       /\ s_st.bytes_received = body_total
       /\ s_st.total_size = body_total

\* s_running never outlives the task: if it did, no download could be started
\* again until the next reset.
NoLockout == s_running => http_thread # "none"

\* The task is in a loop that only the server or s_running ends: it reads a
\* size line of any length, or trailer lines of any number.
ReadsLines == http_thread = "live" /\ hpc \in {"header", "hrecv"} /\ part \in {"size", "trailer"}

\* A download ends: redirect loops, stalls, a body in the smallest pieces and
\* refusals of app_ota all lead to the end of the task, and so does a stop.  The
\* one thing that keeps it for ever is a server that never ends a size line or
\* the trailer of header.bin, while nobody stops the download.
DownloadEnds == []<>(http_thread # "live") \/ <>[](ReadsLines /\ s_running)

\* Until a thread begins to start the first download, a client that reads
\* STATUS between two of its own requests reads the state the session is in:
\* every handler of svc_ota that changes the session has published it by the
\* time it returns.
StatusFreshBeforeHttp ==
    BLE \in Caller /\ ~s_ota_core_inited /\ (\A c \in Others : kpc[c] # "start_init") =>
        (kpc[BLE] = "idle" => s_last_pdu = s_st.state)

-----------------------------------------------------------------------------
(***************************************************************************)
(* What comments and documentation say and the code does not do.           *)
(***************************************************************************)

\* app_ota.c: an upgrade is requested "so MCUboot swaps it into slot0 on the
\* next boot".  So the image is still whole when the reset comes.
WholeAtReset ==
    [][s_inited /\ ~s_inited' /\ marked # 0 => programmed = FirstCells(marked)]_allVars

\* app_ota_http.h: app_ota_http_start returns "non-zero if a download is
\* already running".  So it never re-creates a task that is still alive.
StartOnlyWhenFree == http_thread # "corrupt"
=============================================================================
