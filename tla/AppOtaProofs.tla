---------------------------- MODULE AppOtaProofs ----------------------------
(***************************************************************************)
(* Proofs about AppOta for every set of callers, slot size and set of      *)
(* arguments: the inductive invariant IInv, the safety properties of       *)
(* AppOta that follow from it, and the refinement of OtaSlot.              *)
(***************************************************************************)
EXTENDS AppOta, TLAPS

\* The parts of TypeOK that concern a call in progress, and the rest of RAM
\* that makes no claim about the slot.
CallsTyped ==
    /\ pc \in [Caller -> PcValues]
    /\ arg \in [Caller -> [off: Nat, n: Nat]]
    /\ snap \in [Caller -> StatusType]
    /\ ret \in [Caller -> Errs]

OtherTyped ==
    /\ s_inited \in BOOLEAN
    /\ s_cb \in BOOLEAN
    /\ s_reboot_scheduled \in BOOLEAN
    /\ reboot_thread \in {"none", "sleeping", "corrupt"}

-----------------------------------------------------------------------------
\* The zeroed RAM of power-on satisfies the invariant, whatever is in the slot.
LEMMA InitIInv == Init => IInv
<1> SUFFICES ASSUME Init PROVE IInv
  OBVIOUS
<1> USE SlotAssumption, NoneAssumption DEF Init
<1>1. Idle \in StatusType
  BY DEF Idle, Status, StatusType, States, Errs
<1>2. CallsTyped
  BY <1>1 DEF CallsTyped, PcValues, NoArg, Errs
<1>3. TypeOK
  <2>1. OtherTyped
    BY DEF OtherTyped
  <2>2. s_lock \in Caller \cup {NONE} /\ marked \in 0 .. SlotSize
    OBVIOUS
  <2>3. s_img_ready \in BOOLEAN /\ s_upload_fa \in BOOLEAN
    OBVIOUS
  <2> QED
    BY <1>1, <1>2, <2>1, <2>2, <2>3 DEF TypeOK, CallsTyped, OtherTyped
<1>4. LockInv /\ StagedPrefix /\ CommittedComplete
  BY DEF LockInv, StagedPrefix, CommittedComplete, Idle, Status
<1> QED
  BY <1>3, <1>4 DEF IInv

\* A step that touches neither the session nor the slot nor the lock keeps the
\* invariant if it keeps the lock's bookkeeping: the unlocked checks at the
\* start of a call, the callback, the reboot request and the return.
LEMMA QuietStep ==
    ASSUME IInv, UNCHANGED <<s_st, s_lock, s_img_ready, s_upload_fa, flash>>,
           CallsTyped', OtherTyped', LockInv'
    PROVE  IInv'
BY DEF IInv, TypeOK, CallsTyped, OtherTyped, flash, StagedPrefix, CommittedComplete

\* What StoreAndUnlock writes has the right types.
LEMMA StoreTyped ==
    ASSUME TypeOK, NEW c \in Caller, NEW st \in StatusType, NEW rc \in Errs,
           NEW next \in PcValues, StoreAndUnlock(c, st, rc, next)
    PROVE  s_st' \in StatusType /\ s_lock' = NONE /\ CallsTyped'
BY DEF StoreAndUnlock, TypeOK, CallsTyped, NoArg

-----------------------------------------------------------------------------
\* An early return keeps the invariant.
LEMMA ReturnEarlyKeeps ==
    ASSUME IInv, NEW c \in Caller, NEW rc \in Errs, pc[c] = "idle", ReturnEarly(c, rc)
    PROVE  IInv'
<1> USE DEF IInv, TypeOK, ReturnEarly, ram, flash, boot
<1>1. CallsTyped' /\ OtherTyped'
  BY DEF CallsTyped, OtherTyped, PcValues
<1>2. LockInv'
  BY NoneAssumption DEF LockInv
<1> QED
  BY <1>1, <1>2, QuietStep

\* So does a call that goes on to wait for the lock, with arguments that
\* passed its checks.
LEMMA ProceedKeeps ==
    ASSUME IInv, NEW c \in Caller, NEW where \in Waiting, NEW a \in [off: Nat, n: Nat],
           where \in {"begin", "chunk"} => a.n # 0,
           pc[c] = "idle", Proceed(c, where, a), s_inited' \in BOOLEAN,
           UNCHANGED <<s_st, s_cb, s_img_ready, s_upload_fa>>
    PROVE  IInv'
<1> USE DEF IInv, TypeOK, Proceed, flash, boot
<1>1. CallsTyped' /\ OtherTyped'
  BY DEF CallsTyped, OtherTyped, PcValues
<1>2. LockInv'
  BY NoneAssumption DEF LockInv, Waiting
<1> QED
  BY <1>1, <1>2, QuietStep

\* app_ota_begin and app_ota_chunk before the lock, with any size, offset and length.
LEMMA BeginCallKeeps ==
    ASSUME IInv, NEW c \in Caller, NEW total \in Nat, BeginCall(c, total)
    PROVE  IInv'
<1>0. {"PARAM", "INVALID_STATE"} \subseteq Errs /\ "begin" \in Waiting
  BY DEF Errs, Waiting
<1>1. CASE \E rc \in {"PARAM", "INVALID_STATE"} : ReturnEarly(c, rc)
  BY <1>0, <1>1, ReturnEarlyKeeps DEF BeginCall
<1>2. CASE total # 0 /\ s_inited /\ Proceed(c, "begin", [off |-> 0, n |-> total]) /\ UNCHANGED ram
  <2>1. [off |-> 0, n |-> total] \in [off: Nat, n: Nat]
    OBVIOUS
  <2> QED
    BY <1>0, <1>2, <2>1, ProceedKeeps DEF BeginCall, ram, IInv, TypeOK
<1> QED
  BY <1>1, <1>2 DEF BeginCall

LEMMA ChunkCallKeeps ==
    ASSUME IInv, NEW c \in Caller, NEW off \in Nat, NEW len \in Nat, ChunkCall(c, off, len)
    PROVE  IInv'
<1>0. {"PARAM", "INVALID_STATE"} \subseteq Errs /\ "chunk" \in Waiting
  BY DEF Errs, Waiting
<1>1. CASE \E rc \in {"PARAM", "INVALID_STATE"} : ReturnEarly(c, rc)
  BY <1>0, <1>1, ReturnEarlyKeeps DEF ChunkCall
<1>2. CASE len \in 1 .. MaxChunk /\ s_inited /\ Proceed(c, "chunk", [off |-> off, n |-> len])
           /\ UNCHANGED ram
  <2>1. [off |-> off, n |-> len] \in [off: Nat, n: Nat] /\ len # 0
    BY <1>2
  <2> QED
    BY <1>0, <1>2, <2>1, ProceedKeeps DEF ChunkCall, ram, IInv, TypeOK
<1> QED
  BY <1>1, <1>2 DEF ChunkCall

\* The unlocked part of every call.
LEMMA CallKeeps ==
    ASSUME IInv, NEW c \in Caller, Call(c)
    PROVE  IInv'
<1>0. /\ NoArg \in [off: Nat, n: Nat]
      /\ {"OK", "PARAM", "INVALID_STATE"} \subseteq Errs
      /\ Waiting = {"init", "init_null", "begin", "chunk", "commit", "abort"}
  BY DEF NoArg, Errs, Waiting
<1>1. CASE \E cb \in BOOLEAN : InitCall(c, cb)
  <2>1. PICK cb \in BOOLEAN : InitCall(c, cb)
    BY <1>1
  <2>2. PICK where \in {"init", "init_null"} : Proceed(c, where, NoArg)
    BY <2>1 DEF InitCall
  <2> QED
    BY <1>0, <2>1, <2>2, ProceedKeeps DEF InitCall
<1>2. CASE \E total \in Sizes : BeginCall(c, total)
  BY <1>2, BeginCallKeeps, ArgAssumption
<1>3. CASE \E off \in Offsets, len \in Lens : ChunkCall(c, off, len)
  BY <1>3, ChunkCallKeeps, ArgAssumption
<1>4. CASE CommitCall(c)
  <2>1. CASE ReturnEarly(c, "INVALID_STATE")
    BY <1>0, <1>4, <2>1, ReturnEarlyKeeps DEF CommitCall
  <2>2. CASE Proceed(c, "commit", NoArg) /\ UNCHANGED ram
    BY <1>0, <1>4, <2>2, ProceedKeeps DEF CommitCall, ram, IInv, TypeOK
  <2> QED
    BY <1>4, <2>1, <2>2 DEF CommitCall
<1>5. CASE AbortCall(c)
  <2>1. CASE ReturnEarly(c, "OK")
    BY <1>0, <1>5, <2>1, ReturnEarlyKeeps DEF AbortCall
  <2>2. CASE Proceed(c, "abort", NoArg) /\ UNCHANGED ram
    BY <1>0, <1>5, <2>2, ProceedKeeps DEF AbortCall, ram, IInv, TypeOK
  <2> QED
    BY <1>5, <2>1, <2>2 DEF AbortCall
<1>6. CASE RebootCall(c)
  <2>1. CallsTyped' /\ OtherTyped' /\ LockInv'
    BY <1>6 DEF RebootCall, ScheduleReboot, IInv, TypeOK, CallsTyped, OtherTyped, LockInv,
                ram, flash, boot, calls
  <2> QED
    BY <1>6, <2>1, QuietStep DEF RebootCall, ram
<1> QED
  BY <1>1, <1>2, <1>3, <1>4, <1>5, <1>6 DEF Call

\* The callback, the reboot request of a commit and the return.
LEMMA EpilogueKeeps ==
    ASSUME IInv, NEW c \in Caller, Emit(c) \/ CommitReboot(c) \/ Return(c)
    PROVE  IInv'
<1> USE DEF IInv, TypeOK, Emit, CommitReboot, Return, ram, flash, boot
<1>1. Idle \in StatusType
  BY SlotAssumption DEF Idle, Status, StatusType, States, Errs
<1>2. CallsTyped'
  <2>1. pc' \in [Caller -> PcValues]
    BY DEF PcValues
  <2>2. arg' = arg /\ snap' \in [Caller -> StatusType] /\ ret' \in [Caller -> Errs]
    BY <1>1 DEF Errs
  <2> QED
    BY <2>1, <2>2 DEF CallsTyped
<1>3. OtherTyped'
  BY DEF OtherTyped, ScheduleReboot
<1>4. LockInv'
  BY NoneAssumption DEF LockInv
<1> QED
  BY <1>2, <1>3, <1>4, QuietStep

-----------------------------------------------------------------------------
(***************************************************************************)
(* The locked sections.                                                    *)
(***************************************************************************)

\* app_ota_init closes the session.
LEMMA InitBodyKeeps ==
    ASSUME IInv, NEW c \in Caller, NEW where \in {"init", "init_null"}, InitBody(c, where)
    PROVE  IInv'
<1> USE DEF IInv, TypeOK, InitBody, Locked, flash, boot
<1>1. s_st' \in StatusType
  BY SlotAssumption DEF Idle, Status, StatusType, States, Errs
<1>2. CallsTyped'
  BY DEF CallsTyped, PcValues, Errs
<1>3. TypeOK'
  BY <1>1, <1>2 DEF CallsTyped
<1>4. LockInv'
  BY NoneAssumption DEF LockInv
<1> QED
  BY <1>3, <1>4 DEF StagedPrefix, CommittedComplete, Idle, Status

\* app_ota_begin up to the erase: the session is closed in every case.
LEMMA BeginBodyKeeps ==
    ASSUME IInv, NEW c \in Caller, BeginBody(c)
    PROVE  IInv'
<1> USE SlotAssumption, NoneAssumption DEF IInv, TypeOK, flash, boot
<1> DEFINE Fail(rc) == /\ s_upload_fa' = FALSE
                       /\ StoreAndUnlock(c, Status("FAILED", rc, 0, 0), rc, "emit")
           Erase == /\ FitsSlot(arg[c].n)
                    /\ s_upload_fa' = TRUE
                    /\ s_st' = Status(s_st.state, s_st.last_err, 0, 0)
                    /\ s_lock' = c
                    /\ pc' = [pc EXCEPT ![c] = "erase"]
                    /\ UNCHANGED <<arg, snap, ret>>
<1>1. CASE Erase
  <2>1. s_st' \in StatusType
    BY <1>1 DEF StatusType, Status
  <2>2. pc' \in [Caller -> PcValues]
    BY <1>1 DEF PcValues
  <2>3. TypeOK'
    BY <1>1, <2>1, <2>2 DEF BeginBody
  <2>4. LockInv'
    BY <1>1 DEF BeginBody, Locked, LockInv, FitsSlot
  <2> QED
    BY <1>1, <2>3, <2>4 DEF StagedPrefix, CommittedComplete
<1>2. ASSUME NEW rc \in {"WRITE_FAILED", "PARAM"}, Fail(rc) PROVE IInv'
  <2>1. Status("FAILED", rc, 0, 0) \in StatusType /\ rc \in Errs /\ "emit" \in PcValues
    BY DEF StatusType, Status, States, Errs, PcValues
  <2>2. TypeOK'
    BY <1>2, <2>1, StoreTyped DEF BeginBody, CallsTyped
  <2>3. LockInv'
    BY <1>2 DEF BeginBody, Locked, LockInv, StoreAndUnlock
  <2> QED
    BY <1>2, <2>2, <2>3 DEF StoreAndUnlock, Status, StagedPrefix, CommittedComplete
<1> QED
  BY <1>1, <1>2 DEF BeginBody

\* While the erase runs the lock is held, so no claim is made about the slot.
LEMMA EraseSectorKeeps ==
    ASSUME IInv, NEW c \in Caller, EraseSector(c)
    PROVE  IInv'
<1> USE DEF IInv, TypeOK, EraseSector, ram, boot, calls
<1>1. programmed' \in SUBSET Cells /\ marked' \in 0 .. SlotSize
  BY SlotAssumption
<1>2. TypeOK' /\ LockInv'
  BY <1>1 DEF LockInv
<1>3. s_lock' # NONE
  BY NoneAssumption DEF LockInv
<1> QED
  BY <1>2, <1>3 DEF StagedPrefix, CommittedComplete

\* A finished erase opens a session on an empty slot; a failed one does not.
LEMMA EraseEndKeeps ==
    ASSUME IInv, NEW c \in Caller, EraseEnd(c)
    PROVE  IInv'
<1> USE SlotAssumption, NoneAssumption DEF IInv, TypeOK, EraseEnd, flash, boot
<1>1. CASE StoreAndUnlock(c, Status("READY", "OK", 0, arg[c].n), "OK", "emit")
           /\ programmed' = {} /\ marked' = 0 /\ s_img_ready' = TRUE /\ UNCHANGED s_upload_fa
  <2>1. Status("READY", "OK", 0, arg[c].n) \in StatusType /\ "OK" \in Errs /\ "emit" \in PcValues
    BY DEF LockInv, StatusType, Status, States, Errs, PcValues
  <2>2. TypeOK'
    BY <1>1, <2>1, StoreTyped DEF CallsTyped
  <2>3. LockInv'
    BY <1>1 DEF LockInv, StoreAndUnlock
  <2>4. StagedPrefix'
    BY <1>1 DEF LockInv, StagedPrefix, FirstCells, StoreAndUnlock, Status
  <2> QED
    BY <1>1, <2>2, <2>3, <2>4 DEF StoreAndUnlock, Status, CommittedComplete
<1>2. CASE StoreAndUnlock(c, Status("FAILED", "WRITE_FAILED", 0, 0), "WRITE_FAILED", "emit")
           /\ s_upload_fa' = FALSE /\ UNCHANGED <<s_img_ready, flash>>
  <2>1. Status("FAILED", "WRITE_FAILED", 0, 0) \in StatusType /\ "WRITE_FAILED" \in Errs
        /\ "emit" \in PcValues
    BY DEF StatusType, Status, States, Errs, PcValues
  <2>2. TypeOK'
    BY <1>2, <2>1, StoreTyped DEF CallsTyped
  <2>3. LockInv'
    BY <1>2 DEF LockInv, StoreAndUnlock
  <2> QED
    BY <1>2, <2>2, <2>3 DEF StoreAndUnlock, Status, StagedPrefix, CommittedComplete
<1> QED
  BY <1>1, <1>2

\* A refused chunk or commit only records why; an open session stays open and
\* a committed image stays committed, or the session fails.
LEMMA RefuseKeeps ==
    ASSUME IInv, NEW c \in Caller, s_lock = NONE, pc[c] # "erase",
           NEW state \in {s_st.state, "FAILED"}, NEW err \in Errs, Refuse(c, state, err)
    PROVE  IInv'
<1> USE DEF IInv, TypeOK, Refuse, flash, boot
<1> DEFINE st == [s_st EXCEPT !.state = state, !.last_err = err]
<1>1. st \in StatusType /\ "emit" \in PcValues
  BY DEF StatusType, States, PcValues
<1>2. TypeOK'
  BY <1>1, StoreTyped DEF CallsTyped
<1>3. LockInv'
  BY DEF LockInv, StoreAndUnlock
<1>4. /\ s_st'.state = state
      /\ s_st'.bytes_received = s_st.bytes_received
      /\ s_st'.total_size = s_st.total_size
  BY DEF StoreAndUnlock, StatusType
<1> QED
  BY <1>2, <1>3, <1>4 DEF StagedPrefix, CommittedComplete

LEMMA RefusalsKeep ==
    ASSUME IInv, NEW c \in Caller, ChunkRefused(c) \/ CommitRefused(c)
    PROVE  IInv'
<1>1. s_lock = NONE /\ pc[c] # "erase"
  BY DEF ChunkRefused, CommitRefused, Locked
<1>2. \E state \in {s_st.state, "FAILED"}, err \in {"INVALID_STATE", "INVALID_OFFSET", "PARAM"} :
         Refuse(c, state, err)
  BY DEF ChunkRefused, CommitRefused
<1>3. {"INVALID_STATE", "INVALID_OFFSET", "PARAM"} \subseteq Errs
  BY DEF Errs
<1> QED
  BY <1>1, <1>2, <1>3, RefuseKeeps

\* An accepted chunk lands right after the cells that are already programmed
\* and inside the image.  This is where StagedPrefix needs itself.
LEMMA ChunkWriteKeeps ==
    ASSUME IInv, NEW c \in Caller, ChunkWrite(c)
    PROVE  IInv'
<1> USE SlotAssumption, NoneAssumption DEF IInv, TypeOK, boot
<1> DEFINE o == arg[c].off
           k == arg[c].n
           total == s_st.total_size
           target == o .. o + k - 1
           Done == Status("WRITING", "OK", s_st.bytes_received + k, total)
           Broken == [s_st EXCEPT !.state = "FAILED", !.last_err = "WRITE_FAILED"]
<1>1. /\ o \in Nat /\ k \in Nat /\ total \in Nat /\ s_st.bytes_received \in Nat
      /\ o = s_st.bytes_received
      /\ k # 0
      /\ o + k <= total
      /\ total <= SlotSize
      /\ programmed = 0 .. o - 1
      /\ s_img_ready /\ s_upload_fa /\ marked = 0
  BY DEF ChunkWrite, Locked, ChunkAccepted, StatusType, StagedPrefix, LockInv, FirstCells
<1>2. UNCHANGED <<s_inited, s_cb, s_img_ready, s_upload_fa, marked, boot>>
      /\ pc[c] = "chunk" /\ s_lock = NONE
  BY DEF ChunkWrite, Locked
<1>3. CASE StoreAndUnlock(c, Done, "OK", "emit") /\ programmed' = programmed \cup target
  <2>1. Done \in StatusType /\ "OK" \in Errs /\ "emit" \in PcValues
    BY <1>1 DEF StatusType, Status, States, Errs, PcValues
  <2>2. programmed' = 0 .. (o + k) - 1
    BY <1>1, <1>3
  <2>3. programmed' \in SUBSET Cells
    BY <1>1, <2>2 DEF Cells
  <2>4. TypeOK'
    BY <1>2, <1>3, <2>1, <2>3, StoreTyped DEF CallsTyped
  <2>5. LockInv'
    BY <1>2, <1>3 DEF LockInv, StoreAndUnlock
  <2>6. StagedPrefix'
    BY <1>1, <1>2, <1>3, <2>2 DEF StagedPrefix, FirstCells, StoreAndUnlock, Status
  <2> QED
    BY <1>3, <2>4, <2>5, <2>6 DEF CommittedComplete, StoreAndUnlock, Status
<1>4. CASE StoreAndUnlock(c, Broken, "WRITE_FAILED", "emit")
           /\ \E some \in SUBSET target : programmed' = programmed \cup some
  <2>1. Broken \in StatusType /\ "WRITE_FAILED" \in Errs /\ "emit" \in PcValues
    BY DEF StatusType, States, Errs, PcValues
  <2>2. programmed' \in SUBSET Cells
    <3>1. target \subseteq Cells
      BY <1>1 DEF Cells
    <3> QED
      BY <1>4, <3>1
  <2>3. TypeOK'
    BY <1>2, <1>4, <2>1, <2>2, StoreTyped DEF CallsTyped
  <2>4. LockInv'
    BY <1>2, <1>4 DEF LockInv, StoreAndUnlock
  <2>5. s_st'.state = "FAILED"
    BY <1>4 DEF StoreAndUnlock, StatusType
  <2> QED
    BY <2>3, <2>4, <2>5 DEF StagedPrefix, CommittedComplete
<1> QED
  BY <1>3, <1>4 DEF ChunkWrite

\* boot_request_upgrade is made for a whole image.
LEMMA CommitBodyKeeps ==
    ASSUME IInv, NEW c \in Caller, CommitBody(c)
    PROVE  IInv'
<1> USE SlotAssumption, NoneAssumption DEF IInv, TypeOK, boot
<1> DEFINE Good == [s_st EXCEPT !.state = "COMMITTED", !.last_err = "OK"]
           Bad == [s_st EXCEPT !.state = "FAILED", !.last_err = "COMMIT_FAILED"]
<1>1. /\ s_img_ready
      /\ s_st.total_size # 0
      /\ s_st.bytes_received = s_st.total_size
      /\ programmed = FirstCells(s_st.total_size)
      /\ s_st.total_size \in 0 .. SlotSize
  BY DEF CommitBody, CommitAccepted, Locked, StagedPrefix, StatusType
<1>2. UNCHANGED <<s_inited, s_cb, s_img_ready, s_upload_fa, programmed, boot>>
      /\ pc[c] = "commit" /\ s_lock = NONE
  BY DEF CommitBody, Locked
<1>3. CASE marked' = s_st.total_size /\ StoreAndUnlock(c, Good, "OK", "emit_reboot")
  <2>1. Good \in StatusType /\ "OK" \in Errs /\ "emit_reboot" \in PcValues
    BY DEF StatusType, States, Errs, PcValues
  <2>2. TypeOK'
    BY <1>1, <1>2, <1>3, <2>1, StoreTyped DEF CallsTyped
  <2>3. LockInv'
    BY <1>2, <1>3 DEF LockInv, StoreAndUnlock
  <2>4. /\ s_st'.state = "COMMITTED"
        /\ s_st'.bytes_received = s_st.bytes_received
        /\ s_st'.total_size = s_st.total_size
    BY <1>3 DEF StoreAndUnlock, StatusType
  <2> QED
    BY <1>1, <1>2, <1>3, <2>2, <2>3, <2>4 DEF StagedPrefix, CommittedComplete
<1>4. CASE marked' \in {marked, s_st.total_size} /\ StoreAndUnlock(c, Bad, "COMMIT_FAILED", "emit")
  <2>1. Bad \in StatusType /\ "COMMIT_FAILED" \in Errs /\ "emit" \in PcValues
    BY DEF StatusType, States, Errs, PcValues
  <2>2. TypeOK'
    BY <1>1, <1>2, <1>4, <2>1, StoreTyped DEF CallsTyped
  <2>3. LockInv'
    BY <1>2, <1>4 DEF LockInv, StoreAndUnlock
  <2>4. s_st'.state = "FAILED"
    BY <1>4 DEF StoreAndUnlock, StatusType
  <2> QED
    BY <2>2, <2>3, <2>4 DEF StagedPrefix, CommittedComplete
<1> QED
  BY <1>3, <1>4 DEF CommitBody

\* app_ota_abort closes the session.
LEMMA AbortBodyKeeps ==
    ASSUME IInv, NEW c \in Caller, AbortBody(c)
    PROVE  IInv'
<1> USE SlotAssumption, NoneAssumption DEF IInv, TypeOK, AbortBody, flash, boot
<1>1. Status("IDLE", "ABORTED", 0, 0) \in StatusType /\ "OK" \in Errs /\ "emit" \in PcValues
  BY DEF StatusType, Status, States, Errs, PcValues
<1>2. TypeOK'
  BY <1>1, StoreTyped DEF CallsTyped
<1>3. LockInv'
  BY DEF LockInv, Locked, StoreAndUnlock
<1> QED
  BY <1>2, <1>3 DEF StoreAndUnlock, Status, StagedPrefix, CommittedComplete

\* A reset leads to a power-on state.
LEMMA RebootKeeps == ASSUME IInv, RebootTask PROVE IInv'
<1>1. Idle \in StatusType
  BY SlotAssumption DEF Idle, Status, StatusType, States, Errs
<1>2. CallsTyped'
  BY <1>1 DEF RebootTask, CallsTyped, PcValues, NoArg, Errs
<1>3. TypeOK'
  <2>1. OtherTyped'
    BY DEF RebootTask, OtherTyped
  <2>2. s_lock' \in Caller \cup {NONE} /\ marked' \in 0 .. SlotSize /\ programmed' \in SUBSET Cells
    BY SlotAssumption DEF RebootTask
  <2>3. s_img_ready' \in BOOLEAN /\ s_upload_fa' \in BOOLEAN /\ s_st' \in StatusType
    BY <1>1 DEF RebootTask
  <2> QED
    BY <1>2, <2>1, <2>2, <2>3 DEF TypeOK, CallsTyped, OtherTyped
<1>4. LockInv' /\ StagedPrefix' /\ CommittedComplete'
  BY NoneAssumption DEF RebootTask, LockInv, StagedPrefix, CommittedComplete, Idle, Status
<1> QED
  BY <1>3, <1>4 DEF IInv

-----------------------------------------------------------------------------
\* Every step of a call in progress, and a step that is not app_ota's.
LEMMA StepKeeps == ASSUME IInv, NEW c \in Caller, Step(c) PROVE IInv'
BY InitBodyKeeps, BeginBodyKeeps, EraseSectorKeeps, EraseEndKeeps, RefusalsKeep,
   ChunkWriteKeeps, CommitBodyKeeps, AbortBodyKeeps, EpilogueKeeps DEF Step, LockedStep

LEMMA StutterKeeps == ASSUME IInv, UNCHANGED vars PROVE IInv'
BY DEF vars, ram, flash, boot, calls, IInv, TypeOK, LockInv, StagedPrefix, CommittedComplete

\* IInv is an invariant of app_ota.c for every number of callers and every
\* slot size: what the locked sections establish survives every interleaving
\* with the unlocked parts of other calls and with a reset.
THEOREM IInvInvariant == Spec => []IInv
<1>1. IInv /\ [Next]_vars => IInv'
  BY RebootKeeps, CallKeeps, StepKeeps, StutterKeeps DEF Next
<1> QED
  BY InitIInv, <1>1, PTL DEF Spec

\* Every variable keeps its type.
THEOREM TypeCorrect == Spec => []TypeOK
BY IInvInvariant, PTL DEF IInv

\* An open session always matches the slot.
THEOREM StagedPrefixInvariant == Spec => []StagedPrefix
BY IInvInvariant, PTL DEF IInv

\* A committed image is whole and untouched.
THEOREM CommittedCompleteInvariant == Spec => []CommittedComplete
BY IInvInvariant, PTL DEF IInv

-----------------------------------------------------------------------------
\* boot_request_upgrade is only made for a whole image, and only the erase of
\* a new begin or the reset touches a slot that has an upgrade pending.
THEOREM PendingImageStableHolds == Spec => PendingImageStable
<1> DEFINE Stable == /\ marked' \notin {0, marked} => programmed = FirstCells(marked')
                     /\ marked # 0 /\ programmed' # programmed =>
                            (\E c \in Caller : pc[c] = "erase") \/ ~s_inited'
<1>1. IInv /\ [Next]_vars => [Stable]_vars
  <2> SUFFICES ASSUME IInv, Next PROVE Stable
    OBVIOUS
  <2>1. CASE RebootTask
    BY <2>1 DEF RebootTask
  <2>2. ASSUME NEW c \in Caller, Call(c) PROVE UNCHANGED flash
    BY <2>2 DEF Call, InitCall, BeginCall, ChunkCall, CommitCall, AbortCall, RebootCall,
                ReturnEarly, Proceed
  <2>3. ASSUME NEW c \in Caller, EraseSector(c) \/ EraseEnd(c) PROVE Stable
    BY <2>3 DEF EraseSector, EraseEnd, flash
  <2>4. ASSUME NEW c \in Caller, ChunkWrite(c) PROVE Stable
    <3>1. marked = 0 /\ marked' = marked
      BY <2>4 DEF ChunkWrite, ChunkAccepted, Locked, IInv, StagedPrefix
    <3> QED
      BY <3>1
  <2>5. ASSUME NEW c \in Caller, CommitBody(c) PROVE Stable
    <3>1. programmed = FirstCells(s_st.total_size) /\ marked' \in {marked, s_st.total_size}
      BY <2>5 DEF CommitBody, CommitAccepted, Locked, IInv, StagedPrefix
    <3>2. programmed' = programmed
      BY <2>5 DEF CommitBody
    <3> QED
      BY <3>1, <3>2
  <2>6. ASSUME NEW c \in Caller, Step(c),
               ~(EraseSector(c) \/ EraseEnd(c) \/ ChunkWrite(c) \/ CommitBody(c))
        PROVE UNCHANGED flash
    BY <2>6 DEF Step, LockedStep, InitBody, BeginBody, ChunkRefused, CommitRefused, Refuse, AbortBody,
                Emit, CommitReboot, Return
  <2> QED
    BY <2>1, <2>2, <2>3, <2>4, <2>5, <2>6 DEF Next, flash
<1> QED
  BY IInvInvariant, <1>1, PTL DEF Spec, PendingImageStable

-----------------------------------------------------------------------------
(***************************************************************************)
(* The reboot of a committed image: what has to hold in every state for    *)
(* CommitReboots, which needs fairness besides.                            *)
(***************************************************************************)

\* The latch is set exactly while the static reboot thread sleeps.
LatchInv == reboot_thread = IF s_reboot_scheduled THEN "sleeping" ELSE "none"

\* The reboot thread sleeps, or a caller that has committed is on its way to
\* create it.
RebootOwed ==
    \/ reboot_thread = "sleeping"
    \/ \E c \in Caller : pc[c] \in {"emit_reboot", "reboot"}

\* A committed image has its reboot coming.
CommitOwesReboot == s_st.state = "COMMITTED" => RebootOwed

\* Nothing but the reset itself settles it.
OnlyResetSettles == [][RebootOwed => RebootOwed' \/ RebootTask]_vars

\* Only a request and the reset touch the latch and the thread.
LEMMA BootStep == ASSUME [Next]_vars, ~RebootTask PROVE ScheduleReboot \/ UNCHANGED boot
<1>1. ASSUME NEW c \in Caller, Call(c) PROVE ScheduleReboot \/ UNCHANGED boot
  BY <1>1 DEF Call, InitCall, BeginCall, ChunkCall, CommitCall, AbortCall, RebootCall,
              ReturnEarly, Proceed
<1>2. ASSUME NEW c \in Caller, LockedStep(c) PROVE UNCHANGED boot
  BY <1>2 DEF LockedStep, InitBody, BeginBody, EraseSector, EraseEnd, ChunkRefused, ChunkWrite,
              CommitRefused, CommitBody, Refuse, AbortBody
<1>3. ASSUME NEW c \in Caller, Step(c) PROVE ScheduleReboot \/ UNCHANGED boot
  BY <1>2, <1>3 DEF Step, Emit, CommitReboot, Return
<1> QED
  BY <1>1, <1>3 DEF Next, vars

\* The latch lets exactly one request create the thread.
LEMMA LatchKept == ASSUME LatchInv, [Next]_vars PROVE LatchInv'
<1>1. CASE RebootTask
  BY <1>1 DEF RebootTask, LatchInv
<1>2. CASE ~RebootTask
  <2>1. ScheduleReboot \/ UNCHANGED boot
    BY <1>2, BootStep
  <2> QED
    BY <2>1 DEF ScheduleReboot, LatchInv, boot
<1> QED
  BY <1>1, <1>2

\* Whoever owes the reboot goes on owing it until the thread sleeps, and the
\* sleeping thread goes on sleeping.
LEMMA OwedKept ==
    ASSUME IInv, LatchInv, RebootOwed, [Next]_vars, ~RebootTask
    PROVE  RebootOwed'
<1>1. pc \in [Caller -> PcValues]
  BY DEF IInv, TypeOK
<1>2. CASE reboot_thread = "sleeping"
  <2>1. s_reboot_scheduled
    BY <1>2 DEF LatchInv
  <2>2. ScheduleReboot \/ UNCHANGED boot
    BY BootStep
  <2> QED
    BY <1>2, <2>1, <2>2 DEF ScheduleReboot, boot, RebootOwed
<1>3. ASSUME NEW d \in Caller, pc[d] \in {"emit_reboot", "reboot"} PROVE RebootOwed'
  <2>1. CASE UNCHANGED vars
    BY <1>3, <2>1 DEF vars, calls, boot, RebootOwed
  <2>2. ASSUME NEW c \in Caller, c # d, Call(c) \/ Step(c) PROVE pc'[d] = pc[d]
    <3>1. CASE Call(c)
      BY <1>1, <2>2, <3>1 DEF Call, InitCall, BeginCall, ChunkCall, CommitCall, AbortCall,
                RebootCall, ReturnEarly, Proceed, calls
    <3>2. CASE LockedStep(c)
      BY <1>1, <2>2, <3>2 DEF LockedStep, InitBody, BeginBody, EraseSector, EraseEnd, ChunkRefused,
                ChunkWrite, CommitRefused, CommitBody, Refuse, AbortBody, StoreAndUnlock, calls
    <3>3. CASE Emit(c) \/ CommitReboot(c) \/ Return(c)
      BY <1>1, <2>2, <3>3 DEF Emit, CommitReboot, Return
    <3> QED
      BY <2>2, <3>1, <3>2, <3>3 DEF Step
  <2>3. ~Call(d)
    BY <1>3 DEF Call, InitCall, BeginCall, ChunkCall, CommitCall, AbortCall, RebootCall
  <2>4. ~LockedStep(d) /\ ~Return(d)
    BY <1>3 DEF LockedStep, InitBody, BeginBody, EraseSector, EraseEnd, ChunkRefused,
                ChunkWrite, CommitRefused, CommitBody, AbortBody, Locked, Return
  <2>5. CASE Emit(d)
    <3>1. pc'[d] = "reboot"
      BY <1>1, <1>3, <2>5 DEF Emit
    <3> QED
      BY <3>1 DEF RebootOwed
  <2>6. CASE CommitReboot(d)
    <3>1. ScheduleReboot
      BY <2>6 DEF CommitReboot
    <3>2. reboot_thread' = "sleeping"
      BY <3>1 DEF ScheduleReboot, LatchInv, boot
    <3> QED
      BY <3>2 DEF RebootOwed
  <2>7. CASE pc'[d] = pc[d]
    BY <1>3, <2>7 DEF RebootOwed
  <2> QED
    BY <2>1, <2>2, <2>3, <2>4, <2>5, <2>6, <2>7 DEF Next, Step
<1> QED
  BY <1>2, <1>3 DEF RebootOwed

\* COMMITTED is only entered by the caller that then asks for the reboot.
LEMMA CommitOwes ==
    ASSUME IInv, LatchInv, CommitOwesReboot, [Next]_vars
    PROVE  CommitOwesReboot'
<1>1. CASE RebootTask
  BY <1>1 DEF RebootTask, Idle, Status, CommitOwesReboot
<1>2. CASE s_st.state = "COMMITTED" /\ ~RebootTask
  BY <1>2, OwedKept DEF CommitOwesReboot
<1>3. ASSUME NEW c \in Caller, CommitBody(c), s_st'.state = "COMMITTED" PROVE RebootOwed'
  <2>1. pc' = [pc EXCEPT ![c] = "emit_reboot"]
    BY <1>3 DEF CommitBody, StoreAndUnlock, IInv, TypeOK, StatusType
  <2>2. pc'[c] = "emit_reboot"
    BY <2>1 DEF IInv, TypeOK
  <2> QED
    BY <2>2 DEF RebootOwed
<1>4. ASSUME NEW c \in Caller, Call(c), s_st'.state = "COMMITTED" PROVE s_st.state = "COMMITTED"
  BY <1>4 DEF Call, InitCall, BeginCall, ChunkCall, CommitCall, AbortCall, RebootCall,
              ReturnEarly, Proceed, ram
<1>5. ASSUME NEW c \in Caller, Step(c), ~CommitBody(c), s_st'.state = "COMMITTED"
      PROVE  s_st.state = "COMMITTED"
  <2>1. s_st \in StatusType
    BY DEF IInv, TypeOK
  <2>2. CASE ChunkRefused(c) \/ CommitRefused(c)
    BY <1>5, <2>1, <2>2 DEF ChunkRefused, CommitRefused, Refuse, StoreAndUnlock, StatusType
  <2>3. CASE ChunkWrite(c)
    <3>1. \/ s_st' = Status("WRITING", "OK", s_st.bytes_received + arg[c].n, s_st.total_size)
          \/ s_st' = [s_st EXCEPT !.state = "FAILED", !.last_err = "WRITE_FAILED"]
      BY <2>3 DEF ChunkWrite, StoreAndUnlock
    <3>2. Status("WRITING", "OK", s_st.bytes_received + arg[c].n, s_st.total_size).state = "WRITING"
      BY DEF Status
    <3>3. [s_st EXCEPT !.state = "FAILED", !.last_err = "WRITE_FAILED"].state = "FAILED"
      BY <2>1 DEF StatusType
    <3> QED
      BY <1>5, <3>1, <3>2, <3>3
  <2>4. CASE BeginBody(c) \/ EraseSector(c) \/ EraseEnd(c)
    BY <1>5, <2>4 DEF BeginBody, EraseSector, EraseEnd, StoreAndUnlock, Status, ram
  <2>5. CASE AbortBody(c) \/ \E where \in {"init", "init_null"} : InitBody(c, where)
    BY <1>5, <2>5 DEF AbortBody, InitBody, StoreAndUnlock, Status, Idle
  <2>6. CASE Emit(c) \/ CommitReboot(c) \/ Return(c)
    BY <1>5, <2>6 DEF Emit, CommitReboot, Return, ram
  <2> QED
    BY <1>5, <2>2, <2>3, <2>4, <2>5, <2>6 DEF Step, LockedStep
<1>6. CASE UNCHANGED vars /\ s_st.state # "COMMITTED"
  BY <1>6 DEF vars, ram, CommitOwesReboot
<1> QED
  BY <1>1, <1>2, <1>3, <1>4, <1>5, <1>6 DEF Next, CommitOwesReboot

\* For any number of callers: the reboot thread is created at most once
\* between two resets, so that it is never overwritten while it sleeps.
THEOREM RebootThreadOnce == Spec => []LatchInv
<1>1. Init => LatchInv
  BY DEF Init, LatchInv
<1> QED
  BY <1>1, LatchKept, PTL DEF Spec

\* While the status is COMMITTED the reboot thread sleeps or the caller that
\* committed is about to create it, whatever the other callers do.
THEOREM CommittedOwesReboot == Spec => []CommitOwesReboot
<1>1. Init => CommitOwesReboot
  BY DEF Init, Idle, Status, CommitOwesReboot
<1> QED
  BY <1>1, IInvInvariant, RebootThreadOnce, CommitOwes, PTL DEF Spec

\* Once owed, the reboot cannot be lost: no abort, begin, init, second commit or
\* REBOOT request takes it back.
THEOREM RebootIsNotLost == Spec => OnlyResetSettles
<1>1. IInv /\ LatchInv /\ [Next]_vars => [RebootOwed => RebootOwed' \/ RebootTask]_vars
  BY OwedKept
<1> QED
  BY <1>1, IInvInvariant, RebootThreadOnce, PTL DEF Spec, OnlyResetSettles

-----------------------------------------------------------------------------
(***************************************************************************)
(* app_ota implements the contract of its slot.                            *)
(***************************************************************************)

\* Every step of app_ota.c is a step of OtaSlot or leaves the slot alone: the
\* image only ever grows in order from an erased slot, only a whole image is
\* sealed, and everything else closes the session.
THEOREM SlotRefinement == Spec => ImplementsSlot
<1>1. Init => Slot!SlotInit
  BY DEF Init, Idle, Status, Slot!SlotInit, Phase
<1>2. IInv /\ IInv' /\ [Next]_vars => [Slot!SlotNext]_(Slot!slotVars)
  <2> SUFFICES ASSUME IInv, IInv', [Next]_vars
               PROVE Slot!SlotNext \/ UNCHANGED Slot!slotVars
    OBVIOUS
  <2>0. ASSUME UNCHANGED <<s_lock, s_st, programmed>> PROVE UNCHANGED Slot!slotVars
    BY <2>0 DEF Slot!slotVars, Phase
  <2>1. ASSUME Phase' = "closed" PROVE Slot!Close \/ UNCHANGED Slot!slotVars
    BY <2>1 DEF Slot!Close, Slot!slotVars
  <2>2. CASE RebootTask
    BY <2>1, <2>2 DEF RebootTask, Idle, Status, Phase, Slot!SlotNext
  <2>3. ASSUME NEW c \in Caller, Call(c) PROVE UNCHANGED <<s_lock, s_st, programmed>>
    BY <2>3 DEF Call, InitCall, BeginCall, ChunkCall, CommitCall, AbortCall, RebootCall,
                ReturnEarly, Proceed, ram, flash, calls
  <2>4. ASSUME NEW c \in Caller, Step(c) PROVE Slot!SlotNext \/ UNCHANGED Slot!slotVars
    <3>1. CASE \E where \in {"init", "init_null"} : InitBody(c, where)
      BY <2>1, <3>1 DEF InitBody, Idle, Status, Phase, Slot!SlotNext
    <3>2. CASE BeginBody(c)
      <4>1. Phase' = "closed"
        BY <3>2, NoneAssumption DEF BeginBody, StoreAndUnlock, Status, Phase
      <4> QED
        BY <2>1, <4>1 DEF Slot!SlotNext
    <3>3. CASE EraseSector(c)
      <4>1. Phase' = "closed"
        BY <3>3, NoneAssumption DEF EraseSector, IInv, LockInv, Phase
      <4> QED
        BY <2>1, <4>1 DEF Slot!SlotNext
    <3>4. CASE EraseEnd(c)
      <4>1. CASE Phase' = "closed"
        BY <2>1, <4>1 DEF Slot!SlotNext
      <4>2. CASE Phase' # "closed"
        <5>1. /\ Phase' = "open" /\ programmed' = {} /\ s_st'.total_size \in 1 .. SlotSize
          BY <3>4, <4>2 DEF EraseEnd, StoreAndUnlock, Status, Phase, IInv, LockInv
        <5> QED
          BY <5>1 DEF Slot!SlotNext, Slot!Open
      <4> QED
        BY <4>1, <4>2
    <3>5. CASE ChunkRefused(c) \/ CommitRefused(c)
      <4>1. CASE Phase' = "closed"
        BY <2>1, <4>1 DEF Slot!SlotNext
      <4>2. CASE Phase' # "closed"
        <5>1. Phase' = Phase /\ s_st'.total_size = s_st.total_size /\ programmed' = programmed
          BY <3>5, <4>2 DEF ChunkRefused, CommitRefused, Refuse, Locked, StoreAndUnlock, flash,
                            Phase, IInv, TypeOK, StatusType
        <5> QED
          BY <5>1 DEF Slot!slotVars
      <4> QED
        BY <4>1, <4>2
    <3>6. CASE ChunkWrite(c)
      <4>1. CASE Phase' = "closed"
        BY <2>1, <4>1 DEF Slot!SlotNext
      <4>2. CASE Phase' # "closed"
        <5>1. s_st' = Status("WRITING", "OK", s_st.bytes_received + arg[c].n, s_st.total_size)
          BY <3>6, <4>2 DEF ChunkWrite, StoreAndUnlock, Phase, IInv, TypeOK, StatusType
        <5>2. Phase = "open" /\ Phase' = "open"
          <6>1. Phase = "open"
            BY <3>6 DEF ChunkWrite, ChunkAccepted, Locked, Phase
          <6>2. s_lock' = NONE /\ s_st'.state = "WRITING"
            BY <3>6, <5>1 DEF ChunkWrite, StoreAndUnlock, Status
          <6> QED
            BY <6>1, <6>2 DEF Phase
        <5>3. /\ s_st.bytes_received \in 0 .. SlotSize
              /\ arg[c].n \in Nat \ {0}
              /\ s_st'.bytes_received = s_st.bytes_received + arg[c].n
              /\ s_st'.total_size = s_st.total_size
              /\ s_st.total_size \in 0 .. SlotSize
              /\ s_st'.bytes_received <= s_st.total_size
              /\ programmed = 0 .. s_st.bytes_received - 1
              /\ programmed' = 0 .. s_st'.bytes_received - 1
          <6>1. s_lock = NONE /\ s_st.state \in {"READY", "WRITING"} /\ pc[c] = "chunk"
            BY <3>6 DEF ChunkWrite, ChunkAccepted, Locked
          <6>2. s_lock' = NONE /\ s_st'.state = "WRITING"
            BY <3>6, <5>1 DEF ChunkWrite, StoreAndUnlock, Status
          <6> QED
            BY <5>1, <6>1, <6>2 DEF IInv, TypeOK, StatusType, LockInv, StagedPrefix, FirstCells,
                                    Status
        <5>4. Slot!Append
          <6>1. arg[c].n \in 1 .. SlotSize
            BY <5>3, SlotAssumption
          <6> QED
            BY <5>2, <5>3, <6>1 DEF Slot!Append, Slot!Prefix
        <5> QED
          BY <5>4 DEF Slot!SlotNext
      <4> QED
        BY <4>1, <4>2
    <3>7. CASE CommitBody(c)
      <4>1. CASE Phase' = "closed"
        BY <2>1, <4>1 DEF Slot!SlotNext
      <4>2. CASE Phase' # "closed"
        <5>1. Phase = "open" /\ Phase' = "sealed"
          BY <3>7, <4>2 DEF CommitBody, CommitAccepted, Locked, StoreAndUnlock, Phase,
                            IInv, TypeOK, StatusType
        <5>2. /\ programmed' = programmed /\ programmed = FirstCells(s_st.total_size)
              /\ s_st'.total_size = s_st.total_size
          BY <3>7 DEF CommitBody, CommitAccepted, Locked, StoreAndUnlock, IInv, StagedPrefix,
                      TypeOK, StatusType
        <5> QED
          BY <5>1, <5>2 DEF Slot!SlotNext, Slot!Seal, Slot!Prefix, FirstCells
      <4> QED
        BY <4>1, <4>2
    <3>8. CASE AbortBody(c)
      BY <2>1, <3>8 DEF AbortBody, StoreAndUnlock, Status, Phase, Slot!SlotNext
    <3>9. CASE Emit(c) \/ CommitReboot(c) \/ Return(c)
      BY <2>0, <3>9 DEF Emit, CommitReboot, Return, ram, flash
    <3> QED
      BY <2>4, <3>1, <3>2, <3>3, <3>4, <3>5, <3>6, <3>7, <3>8, <3>9 DEF Step, LockedStep
  <2>5. CASE UNCHANGED vars
    BY <2>0, <2>5 DEF vars, ram, flash
  <2> QED
    BY <2>0, <2>2, <2>3, <2>4, <2>5 DEF Next
<1> QED
  BY <1>1, <1>2, IInvInvariant, PTL DEF Spec, ImplementsSlot, Slot!SlotSpec
=============================================================================
