------------------------------- MODULE AppOta -------------------------------
(***************************************************************************)
(* The OTA front-end, app/ota/app_ota.c: a state machine behind one mutex  *)
(* that erases the MCUboot upload slot, programs an image into it in       *)
(* order, asks MCUboot to swap it in, and reboots.                         *)
(*                                                                         *)
(* Any number of threads (the HTTP download task, the BLE host, a shell)   *)
(* call in.  A call is split where another thread can get in between: the  *)
(* checks made before k_mutex_lock, the section under the lock, the        *)
(* status callback made after k_mutex_unlock, and the reboot request made  *)
(* after the callback.  Only the erase of the slot, which takes seconds,   *)
(* is split while the lock is held, so that a reset can hit it half-way.   *)
(*                                                                         *)
(* The slot is a set of programmed cells (write blocks); what the bytes    *)
(* are is abstracted away.  `marked' is MCUboot's trailer: 0, or the size  *)
(* of the image MCUboot was asked to swap in.                              *)
(***************************************************************************)
EXTENDS Integers

CONSTANTS
    Caller,        \* threads that call the app_ota_* API
    SlotSize,      \* fa_size of slot1_partition, in cells
    MaxChunk,      \* UINT16_MAX, the largest length app_ota_chunk takes
    Sizes,         \* total_size arguments of app_ota_begin
    Offsets,       \* offset arguments of app_ota_chunk
    Lens,          \* len arguments of app_ota_chunk (0 also stands for NULL data)
    NONE           \* nobody holds s_lock

ASSUME SlotAssumption == SlotSize \in Nat \ {0}
ASSUME ArgAssumption ==
    /\ MaxChunk \in Nat
    /\ Sizes \subseteq Nat
    /\ Offsets \subseteq Nat
    /\ Lens \subseteq Nat
ASSUME NoneAssumption == NONE \notin Caller

VARIABLES
    s_inited,            \* s_inited
    s_lock,              \* the owner of k_mutex s_lock across a split section
    s_st,                \* s_st, app_ota_status_t
    s_cb,                \* s_cb # NULL
    s_img_ready,         \* s_img_ready
    s_upload_fa,         \* s_upload_fa # NULL
    programmed,          \* cells of the upload slot that are not erased
    marked,              \* MCUboot trailer of the slot: 0 or the size to swap in
    s_reboot_scheduled,  \* the latch of app_ota_reboot_after_ms
    reboot_thread,       \* the static k_thread of reboot_task
    pc,                  \* where each caller is inside a call
    arg,                 \* the arguments of the call in progress
    snap,                \* the snapshot emit_status_locked_unlock took
    ret                  \* the value the call returns

ram   == <<s_inited, s_st, s_cb, s_img_ready, s_upload_fa>>
flash == <<programmed, marked>>
boot  == <<s_reboot_scheduled, reboot_thread>>
calls == <<pc, arg, snap, ret>>
vars  == <<ram, s_lock, flash, boot, calls>>

-----------------------------------------------------------------------------
States == {"IDLE", "READY", "WRITING", "COMMITTED", "FAILED"}

Errs == {"OK", "PARAM", "INVALID_STATE", "INVALID_OFFSET", "WRITE_FAILED",
         "COMMIT_FAILED", "ABORTED"}

Cells == 0 .. SlotSize - 1

Status(state, err, bytes, total) ==
    [state |-> state, last_err |-> err,
     bytes_received |-> bytes, total_size |-> total]

StatusType == [state: States, last_err: Errs,
               bytes_received: 0 .. SlotSize, total_size: 0 .. SlotSize]

Idle == Status("IDLE", "OK", 0, 0)
NoArg == [off |-> 0, n |-> 0]

\* Where a caller can be: outside any call, waiting for s_lock, erasing with
\* s_lock held, past k_mutex_unlock, or back with a return value.
Waiting  == {"init", "init_null", "begin", "chunk", "commit", "abort"}
PcValues == {"idle", "erase", "emit", "emit_reboot", "reboot", "ret"} \cup Waiting

TypeOK ==
    /\ s_inited \in BOOLEAN
    /\ s_lock \in Caller \cup {NONE}
    /\ s_st \in StatusType
    /\ s_cb \in BOOLEAN
    /\ s_img_ready \in BOOLEAN
    /\ s_upload_fa \in BOOLEAN
    /\ programmed \in SUBSET Cells
    /\ marked \in 0 .. SlotSize
    /\ s_reboot_scheduled \in BOOLEAN
    /\ reboot_thread \in {"none", "sleeping", "corrupt"}
    /\ pc \in [Caller -> PcValues]
    /\ arg \in [Caller -> [off: Nat, n: Nat]]
    /\ snap \in [Caller -> StatusType]
    /\ ret \in [Caller -> Errs]

\* Power-on: RAM is zeroed, the slot holds whatever was left in it.
Init ==
    /\ s_inited = FALSE
    /\ s_lock = NONE
    /\ s_st = Idle
    /\ s_cb = FALSE
    /\ s_img_ready = FALSE
    /\ s_upload_fa = FALSE
    /\ programmed \in SUBSET Cells
    /\ marked = 0
    /\ s_reboot_scheduled = FALSE
    /\ reboot_thread = "none"
    /\ pc = [c \in Caller |-> "idle"]
    /\ arg = [c \in Caller |-> NoArg]
    /\ snap = [c \in Caller |-> Idle]
    /\ ret = [c \in Caller |-> "OK"]

-----------------------------------------------------------------------------
(***************************************************************************)
(* The pieces every call is made of.                                       *)
(***************************************************************************)

\* The call returns rc before it reaches the lock.
ReturnEarly(c, rc) ==
    /\ pc' = [pc EXCEPT ![c] = "ret"]
    /\ ret' = [ret EXCEPT ![c] = rc]
    /\ UNCHANGED <<ram, s_lock, flash, boot, arg, snap>>

\* The call passes its unlocked checks and goes on to wait for s_lock.
Proceed(c, where, a) ==
    /\ pc' = [pc EXCEPT ![c] = where]
    /\ arg' = [arg EXCEPT ![c] = a]
    /\ UNCHANGED <<s_lock, flash, boot, snap, ret>>

\* emit_status_locked_unlock up to k_mutex_unlock: the new status is stored
\* and snapshot, the lock is free again, the callback is still to be made.
\* The arguments are not needed any more.
StoreAndUnlock(c, st, rc, next) ==
    /\ s_st' = st
    /\ snap' = [snap EXCEPT ![c] = st]
    /\ ret' = [ret EXCEPT ![c] = rc]
    /\ pc' = [pc EXCEPT ![c] = next]
    /\ arg' = [arg EXCEPT ![c] = NoArg]
    /\ s_lock' = NONE

\* A locked section that only records why the call is refused.
Refuse(c, state, err) ==
    /\ StoreAndUnlock(c, [s_st EXCEPT !.state = state, !.last_err = err], err, "emit")
    /\ UNCHANGED <<s_inited, s_cb, s_img_ready, s_upload_fa, flash, boot>>

\* The section entered by k_mutex_lock at location `where' of the call.
Locked(c, where) == pc[c] = where /\ s_lock = NONE

-----------------------------------------------------------------------------
(***************************************************************************)
(* app_ota_init(cb): cb is svc_ota's callback or NULL.  It closes nothing  *)
(* and publishes nothing, whatever session was open.                       *)
(***************************************************************************)
InitCall(c, cb) ==
    /\ pc[c] = "idle"
    /\ s_inited' = TRUE
    /\ Proceed(c, IF cb THEN "init" ELSE "init_null", NoArg)
    /\ UNCHANGED <<s_st, s_cb, s_img_ready, s_upload_fa>>

InitBody(c, where) ==
    /\ Locked(c, where)
    /\ s_cb' = (where = "init")
    /\ s_st' = Idle
    /\ s_img_ready' = FALSE
    /\ s_upload_fa' = FALSE
    /\ pc' = [pc EXCEPT ![c] = "ret"]
    /\ ret' = [ret EXCEPT ![c] = "OK"]
    /\ UNCHANGED <<s_inited, s_lock, flash, boot, arg, snap>>

(***************************************************************************)
(* app_ota_begin(total_size), ota_prepare_storage.                         *)
(***************************************************************************)
BeginCall(c, total) ==
    /\ pc[c] = "idle"
    /\ \/ ~s_inited /\ ReturnEarly(c, "INVALID_STATE")
       \/ s_inited /\ total = 0 /\ ReturnEarly(c, "PARAM")
       \/ s_inited /\ total # 0 /\ Proceed(c, "begin", [off |-> 0, n |-> total])
                                /\ UNCHANGED ram

\* Mutant: the size check is off by one.
M_FitsSlot(n) == n <= SlotSize + 1

\* ota_prepare_storage compares the image with fa_size.
FitsSlot(n) == n <= SlotSize

\* The old session is dropped in every case; flash_area_open fails, the image
\* is larger than the slot, or the erase starts with s_lock held.
BeginBody(c) ==
    /\ Locked(c, "begin")
    /\ s_img_ready' = FALSE
    /\ UNCHANGED <<s_inited, s_cb, flash, boot>>
    /\ \/ /\ s_upload_fa' = FALSE
          /\ StoreAndUnlock(c, Status("FAILED", "WRITE_FAILED", 0, 0), "WRITE_FAILED", "emit")
       \/ /\ ~FitsSlot(arg[c].n)
          /\ s_upload_fa' = FALSE
          /\ StoreAndUnlock(c, Status("FAILED", "PARAM", 0, 0), "PARAM", "emit")
       \/ /\ FitsSlot(arg[c].n)
          /\ s_upload_fa' = TRUE
          /\ s_st' = Status(s_st.state, s_st.last_err, 0, 0)
          /\ s_lock' = c
          /\ pc' = [pc EXCEPT ![c] = "erase"]
          /\ UNCHANGED <<arg, snap, ret>>

\* flash_area_erase at work: one cell, or the trailer, is erased.
EraseSector(c) ==
    /\ pc[c] = "erase"
    /\ \/ \E x \in programmed : programmed' = programmed \ {x} /\ UNCHANGED marked
       \/ marked # 0 /\ marked' = 0 /\ UNCHANGED programmed
    /\ UNCHANGED <<ram, s_lock, boot, calls>>

\* flash_area_erase returns: the whole slot is erased and the session opens,
\* or the rest of it is left as it is and the session fails.
EraseEnd(c) ==
    /\ pc[c] = "erase"
    /\ UNCHANGED <<s_inited, s_cb, boot>>
    /\ \/ /\ programmed' = {}
          /\ marked' = 0
          /\ s_img_ready' = TRUE
          /\ StoreAndUnlock(c, Status("READY", "OK", 0, arg[c].n), "OK", "emit")
          /\ UNCHANGED s_upload_fa
       \/ /\ s_upload_fa' = FALSE
          /\ StoreAndUnlock(c, Status("FAILED", "WRITE_FAILED", 0, 0), "WRITE_FAILED", "emit")
          /\ UNCHANGED <<s_img_ready, flash>>

(***************************************************************************)
(* app_ota_chunk(offset, data, len).  s_img_ready is read without s_lock.  *)
(***************************************************************************)
ChunkCall(c, off, len) ==
    /\ pc[c] = "idle"
    /\ \/ ~s_inited /\ ReturnEarly(c, "INVALID_STATE")
       \/ s_inited /\ (len = 0 \/ len > MaxChunk) /\ ReturnEarly(c, "PARAM")
       \/ s_inited /\ len \in 1 .. MaxChunk /\ ~s_img_ready
                   /\ ReturnEarly(c, "INVALID_STATE")
       \/ s_inited /\ len \in 1 .. MaxChunk /\ s_img_ready
                   /\ Proceed(c, "chunk", [off |-> off, n |-> len])
                   /\ UNCHANGED ram

ChunkRefused(c) ==
    /\ Locked(c, "chunk")
    /\ \/ s_st.state \notin {"READY", "WRITING"} /\ Refuse(c, s_st.state, "INVALID_STATE")
       \/ s_st.state \in {"READY", "WRITING"} /\ arg[c].off # s_st.bytes_received
             /\ Refuse(c, s_st.state, "INVALID_OFFSET")
       \/ s_st.state \in {"READY", "WRITING"} /\ arg[c].off = s_st.bytes_received
             /\ s_st.total_size # 0 /\ arg[c].off + arg[c].n > s_st.total_size
             /\ Refuse(c, "FAILED", "PARAM")

\* Mutant: a chunk that leaves a hole is accepted.
M_ChunkAccepted(c) ==
    /\ s_st.state \in {"READY", "WRITING"}
    /\ arg[c].off >= s_st.bytes_received
    /\ s_st.total_size # 0 => arg[c].off + arg[c].n <= s_st.total_size

\* What the locked section of app_ota_chunk has established when it calls
\* flash_area_write.
ChunkAccepted(c) ==
    /\ s_st.state \in {"READY", "WRITING"}
    /\ arg[c].off = s_st.bytes_received
    /\ s_st.total_size # 0 => arg[c].off + arg[c].n <= s_st.total_size

\* flash_area_write programs the cells; when it fails some may be programmed.
ChunkWrite(c) ==
    LET target == arg[c].off .. arg[c].off + arg[c].n - 1
    IN  /\ Locked(c, "chunk")
        /\ ChunkAccepted(c)
        /\ UNCHANGED <<s_inited, s_cb, s_img_ready, s_upload_fa, marked, boot>>
        /\ \/ /\ programmed' = programmed \cup target
              /\ StoreAndUnlock(c, Status("WRITING", "OK", s_st.bytes_received + arg[c].n,
                                          s_st.total_size), "OK", "emit")
           \/ /\ \E some \in SUBSET target : programmed' = programmed \cup some
              /\ StoreAndUnlock(c, [s_st EXCEPT !.state = "FAILED", !.last_err = "WRITE_FAILED"],
                                "WRITE_FAILED", "emit")

(***************************************************************************)
(* app_ota_commit(header, header_len): the header is ignored.              *)
(***************************************************************************)
CommitCall(c) ==
    /\ pc[c] = "idle"
    /\ \/ ~(s_inited /\ s_img_ready) /\ ReturnEarly(c, "INVALID_STATE")
       \/ s_inited /\ s_img_ready /\ Proceed(c, "commit", NoArg) /\ UNCHANGED ram

CommitRefused(c) ==
    /\ Locked(c, "commit")
    /\ \/ s_st.state # "WRITING" /\ Refuse(c, s_st.state, "INVALID_STATE")
       \/ s_st.state = "WRITING" /\ s_st.total_size # 0
             /\ s_st.bytes_received # s_st.total_size
             /\ Refuse(c, s_st.state, "INVALID_OFFSET")

\* Mutants: an image that is still incomplete is committed; a failed session
\* can be committed again.
M_CommitAccepted == s_st.state = "WRITING"

M_CommitRetry ==
    /\ s_st.state \in {"WRITING", "FAILED"}
    /\ s_st.total_size # 0 /\ s_st.bytes_received = s_st.total_size

\* What the locked section of app_ota_commit has established when it calls
\* boot_request_upgrade.
CommitAccepted ==
    /\ s_st.state = "WRITING"
    /\ s_st.total_size = 0 \/ s_st.bytes_received = s_st.total_size

\* boot_request_upgrade writes the trailer.  It can fail before or after the
\* trailer says that an upgrade is pending.
CommitBody(c) ==
    /\ Locked(c, "commit")
    /\ CommitAccepted
    /\ UNCHANGED <<s_inited, s_cb, s_img_ready, s_upload_fa, programmed, boot>>
    /\ \/ /\ marked' = s_st.total_size
          /\ StoreAndUnlock(c, [s_st EXCEPT !.state = "COMMITTED", !.last_err = "OK"],
                            "OK", "emit_reboot")
       \/ /\ marked' \in {marked, s_st.total_size}
          /\ StoreAndUnlock(c, [s_st EXCEPT !.state = "FAILED", !.last_err = "COMMIT_FAILED"],
                            "COMMIT_FAILED", "emit")

(***************************************************************************)
(* app_ota_abort().  It neither clears the trailer nor cancels a reboot.   *)
(***************************************************************************)
AbortCall(c) ==
    /\ pc[c] = "idle"
    /\ \/ ~s_inited /\ ReturnEarly(c, "OK")
       \/ s_inited /\ Proceed(c, "abort", NoArg) /\ UNCHANGED ram

\* Mutants: abort erases the slot; abort publishes nothing.
M_AbortErases(c) ==
    /\ Locked(c, "abort")
    /\ s_upload_fa' = FALSE
    /\ s_img_ready' = FALSE
    /\ StoreAndUnlock(c, Status("IDLE", "ABORTED", 0, 0), "OK", "emit")
    /\ programmed' = {}
    /\ UNCHANGED <<s_inited, s_cb, marked, boot>>

M_AbortSilent(c) ==
    /\ Locked(c, "abort")
    /\ s_upload_fa' = FALSE
    /\ s_img_ready' = FALSE
    /\ StoreAndUnlock(c, Status("IDLE", "ABORTED", 0, 0), "OK", "ret")
    /\ UNCHANGED <<s_inited, s_cb, flash, boot>>

AbortBody(c) ==
    /\ Locked(c, "abort")
    /\ s_upload_fa' = FALSE
    /\ s_img_ready' = FALSE
    /\ StoreAndUnlock(c, Status("IDLE", "ABORTED", 0, 0), "OK", "emit")
    /\ UNCHANGED <<s_inited, s_cb, flash, boot>>

(***************************************************************************)
(* The end of emit_status_locked_unlock: the callback runs without the     *)
(* lock, on whatever s_cb is by then.  Delivered(c) is what it is given.   *)
(***************************************************************************)
Delivered(c) == snap[c]

Emit(c) ==
    /\ \/ pc[c] = "emit" /\ pc' = [pc EXCEPT ![c] = "ret"]
       \/ pc[c] = "emit_reboot" /\ pc' = [pc EXCEPT ![c] = "reboot"]
    /\ snap' = [snap EXCEPT ![c] = Idle]
    /\ UNCHANGED <<ram, s_lock, flash, boot, arg, ret>>

(***************************************************************************)
(* app_ota_reboot_after_ms: atomic_set on the latch, then k_thread_create  *)
(* of the static reboot thread.  Creating it again while it sleeps         *)
(* corrupts it.                                                            *)
(***************************************************************************)
\* Mutant: the latch is missing.
M_ScheduleReboot ==
    /\ s_reboot_scheduled' = TRUE
    /\ reboot_thread' = IF reboot_thread = "none" THEN "sleeping" ELSE "corrupt"

ScheduleReboot ==
    IF s_reboot_scheduled
    THEN UNCHANGED boot
    ELSE /\ s_reboot_scheduled' = TRUE
         /\ reboot_thread' = IF reboot_thread = "none" THEN "sleeping" ELSE "corrupt"

RebootCall(c) ==
    /\ pc[c] = "idle"
    /\ ScheduleReboot
    /\ UNCHANGED <<ram, s_lock, flash, calls>>

CommitReboot(c) ==
    /\ pc[c] = "reboot"
    /\ ScheduleReboot
    /\ pc' = [pc EXCEPT ![c] = "ret"]
    /\ UNCHANGED <<ram, s_lock, flash, arg, snap, ret>>

\* The caller takes the return value.
Return(c) ==
    /\ pc[c] = "ret"
    /\ pc' = [pc EXCEPT ![c] = "idle"]
    /\ ret' = [ret EXCEPT ![c] = "OK"]
    /\ UNCHANGED <<ram, s_lock, flash, boot, arg, snap>>

(***************************************************************************)
(* reboot_task wakes up: every thread and all RAM are gone.  MCUboot acts  *)
(* on the trailer, clears it, and leaves the slot with some contents.      *)
(***************************************************************************)
RebootTask ==
    /\ reboot_thread = "sleeping"
    /\ s_inited' = FALSE
    /\ s_lock' = NONE
    /\ s_st' = Idle
    /\ s_cb' = FALSE
    /\ s_img_ready' = FALSE
    /\ s_upload_fa' = FALSE
    /\ programmed' \in SUBSET Cells
    /\ marked' = 0
    /\ s_reboot_scheduled' = FALSE
    /\ reboot_thread' = "none"
    /\ pc' = [c \in Caller |-> "idle"]
    /\ arg' = [c \in Caller |-> NoArg]
    /\ snap' = [c \in Caller |-> Idle]
    /\ ret' = [c \in Caller |-> "OK"]

-----------------------------------------------------------------------------
\* A new call from a thread that is outside the API.
Call(c) ==
    \/ \E cb \in BOOLEAN : InitCall(c, cb)
    \/ \E total \in Sizes : BeginCall(c, total)
    \/ \E off \in Offsets, len \in Lens : ChunkCall(c, off, len)
    \/ CommitCall(c)
    \/ AbortCall(c)
    \/ RebootCall(c)

\* A section of a call in progress that runs under s_lock.
LockedStep(c) ==
    \/ \E where \in {"init", "init_null"} : InitBody(c, where)
    \/ BeginBody(c) \/ EraseSector(c) \/ EraseEnd(c)
    \/ ChunkRefused(c) \/ ChunkWrite(c)
    \/ CommitRefused(c) \/ CommitBody(c)
    \/ AbortBody(c)

\* The next step of a call in progress.
Step(c) == LockedStep(c) \/ Emit(c) \/ CommitReboot(c) \/ Return(c)

Next == RebootTask \/ \E c \in Caller : Call(c) \/ Step(c)

Spec == Init /\ [][Next]_vars

\* A thread inside the API runs on: the callback and the thread creation do
\* not block, and the sleep of reboot_task ends.  Nothing is assumed of a
\* thread that waits for s_lock or of one outside the API.
Fairness ==
    /\ WF_vars(RebootTask)
    /\ \A c \in Caller : WF_vars(Emit(c)) /\ WF_vars(CommitReboot(c))

FairSpec == Spec /\ Fairness

-----------------------------------------------------------------------------
(***************************************************************************)
(* Properties.                                                             *)
(***************************************************************************)

\* The cells of the first n cells of the slot.
FirstCells(n) == 0 .. n - 1

\* While a session is open, the slot holds exactly the bytes the status
\* reports: no hole, nothing beyond bytes_received, no upgrade mark, and a
\* flash area to write to.  Two callers interleave begin, chunk, abort and
\* init, and chunk read s_img_ready before it had the lock.
StagedPrefix ==
    s_lock = NONE /\ s_st.state \in {"READY", "WRITING"} =>
        /\ s_img_ready /\ s_upload_fa
        /\ programmed = FirstCells(s_st.bytes_received)
        /\ marked = 0
        /\ s_st.bytes_received <= s_st.total_size
        /\ s_st.total_size # 0
        /\ s_st.state = "READY" <=> s_st.bytes_received = 0

\* COMMITTED means that MCUboot was asked for an image that is whole and still
\* untouched in the slot, however many late chunks and commits arrived since.
CommittedComplete ==
    s_lock = NONE /\ s_st.state = "COMMITTED" =>
        /\ s_img_ready
        /\ s_st.total_size # 0
        /\ marked = s_st.total_size
        /\ s_st.bytes_received = s_st.total_size
        /\ programmed = FirstCells(s_st.total_size)

\* boot_request_upgrade is only made for a whole image, also when it then
\* reports failure; and from then on only the erase of a new begin, or the
\* reset itself, changes the slot MCUboot is going to read.
PendingImageStable ==
    [][/\ marked' \notin {0, marked} => programmed = FirstCells(marked')
       /\ marked # 0 /\ programmed' # programmed =>
              (\E c \in Caller : pc[c] = "erase") \/ ~s_inited']_vars

\* A committed image does get its reboot: whatever the other callers do after
\* COMMITTED (abort, begin, a second commit, a REBOOT request), the board
\* resets.  Without the latch the second request would destroy the sleeping
\* reboot thread.
CommitReboots == s_st.state = "COMMITTED" ~> ~s_inited

\* The slot as OtaSlot sees it: closed while begin holds the lock.
Phase ==
    CASE s_lock = NONE /\ s_st.state \in {"READY", "WRITING"} -> "open"
      [] s_lock = NONE /\ s_st.state = "COMMITTED" -> "sealed"
      [] OTHER -> "closed"

Slot == INSTANCE OtaSlot WITH
    Capacity <- SlotSize,
    phase <- Phase,
    image <- IF Phase = "closed" THEN {} ELSE programmed,
    want  <- IF Phase = "closed" THEN 0 ELSE s_st.total_size

\* app_ota implements the contract of its slot.
ImplementsSlot == Slot!SlotSpec

-----------------------------------------------------------------------------
(***************************************************************************)
(* The inductive invariant.                                                *)
(***************************************************************************)

\* s_lock is held exactly by the caller that erases, for which the session is
\* closed and the size was checked; arguments are what the unlocked checks
\* let through.
LockInv ==
    /\ \A c \in Caller : pc[c] = "erase" <=> s_lock = c
    /\ s_lock # NONE => ~s_img_ready /\ s_upload_fa
    /\ \A c \in Caller :
          /\ pc[c] = "erase" => arg[c].n \in 1 .. SlotSize
          /\ pc[c] = "begin" => arg[c].n # 0
          /\ pc[c] = "chunk" => arg[c].n # 0

\* The slot's contents are accounted for whenever the lock is free.  A
\* FAILED or IDLE session makes no claim, so nothing else is needed.
IInv == TypeOK /\ LockInv /\ StagedPrefix /\ CommittedComplete
=============================================================================
