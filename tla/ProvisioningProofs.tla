------------------------- MODULE ProvisioningProofs -------------------------
(***************************************************************************)
(* Proofs about Provisioning for every set of names, passwords, hosts and  *)
(* ports that clients may write.                                           *)
(***************************************************************************)
EXTENDS Provisioning, TLAPS

(***************************************************************************)
(* The inductive invariant.  Each work item is queued at most once, so the *)
(* queue has one of five values, and Follows says for each what the        *)
(* station will have been asked for once the queue is empty, before and    *)
(* after READY.  While a COMMIT or RESET is between the flash and the      *)
(* queue (bpc "saved", "erased"), only the flash is known.                 *)
(***************************************************************************)
Queues == {<<>>, <<"connect">>, <<"reset">>, <<"connect", "reset">>, <<"reset", "connect">>}

ProvTypes ==
    /\ stored \in ValidRecords \cup {NoRecord}
    /\ boot \in {"adv", "prov", "cfg", "up"}
    /\ s_staging \in Records
    /\ s_state \in {"IDLE", "COMMITTED", "INVALID", "IO_ERROR", "APPLIED"}
    /\ s_cb \in BOOLEAN /\ s_prov_applied \in BOOLEAN /\ s_started \in BOOLEAN
    /\ bpc \in {"idle", "saved", "failed", "erased"}
    /\ s_nvram_cfg \in ValidRecords \cup {Zeroed}
    /\ target \in ValidRecords \cup {NoRecord}
    /\ wq \in Queues
    /\ excused \in BOOLEAN

\* What the progress of bt_ready_cb implies.
BootInv ==
    /\ s_cb <=> boot # "adv"
    /\ boot = "adv" => wq = <<>>
    /\ s_started => boot = "up"
    /\ ~s_started => target = NoRecord

\* What a write in progress implies.
HostInv ==
    /\ bpc = "saved" => stored # NoRecord
    /\ bpc = "erased" /\ ~excused => stored = NoRecord
    /\ s_state = "COMMITTED" /\ bpc # "erased" => stored # NoRecord

\* A stored record will be the station's: no reset comes after the last connect,
\* and when the queue is empty the station, or READY, has the record.
WillConnect ==
    /\ wq \notin {<<"reset">>, <<"connect", "reset">>}
    /\ wq = <<>> => /\ s_started => target = stored
                    /\ ~s_started /\ boot \in {"cfg", "up"} => s_nvram_cfg = stored

\* With nothing stored the station will have nothing to join.
WillForget ==
    /\ s_started /\ wq \in {<<>>, <<"connect">>} => target = NoRecord
    /\ ~s_started => s_nvram_cfg = Zeroed

Follows ==
    ~excused /\ bpc \in {"idle", "failed"} =>
        IF stored = NoRecord THEN WillForget ELSE WillConnect

ProvIInv == ProvTypes /\ BootInv /\ HostInv /\ Follows

-----------------------------------------------------------------------------
\* The five queues are different.
LEMMA QueuesDiffer ==
    /\ <<>> # <<"connect">> /\ <<>> # <<"reset">>
    /\ <<>> # <<"connect", "reset">> /\ <<>> # <<"reset", "connect">>
    /\ <<"connect">> # <<"reset">>
    /\ <<"connect">> # <<"connect", "reset">> /\ <<"connect">> # <<"reset", "connect">>
    /\ <<"reset">> # <<"connect", "reset">> /\ <<"reset">> # <<"reset", "connect">>
    /\ <<"connect", "reset">> # <<"reset", "connect">>
OBVIOUS

\* What taking a work item leaves.
LEMMA TakesFacts ==
    ASSUME wq \in Queues
    PROVE  /\ Takes("connect") => \/ wq = <<"connect">> /\ wq' = <<>>
                                  \/ wq = <<"connect", "reset">> /\ wq' = <<"reset">>
           /\ Takes("reset") => \/ wq = <<"reset">> /\ wq' = <<>>
                                \/ wq = <<"reset", "connect">> /\ wq' = <<"connect">>
<1>1. CASE wq = <<>>
  BY <1>1 DEF Takes
<1>2. CASE wq = <<"connect">>
  BY <1>2 DEF Takes
<1>3. CASE wq = <<"reset">>
  BY <1>3 DEF Takes
<1>4. CASE wq = <<"connect", "reset">>
  BY <1>4 DEF Takes
<1>5. CASE wq = <<"reset", "connect">>
  BY <1>5 DEF Takes
<1> QED BY <1>1, <1>2, <1>3, <1>4, <1>5 DEF Queues

\* What submitting one leaves when the callback is registered.
LEMMA SubmitFacts ==
    ASSUME wq \in Queues, s_cb
    PROVE  /\ Submit("connect") => \/ wq = <<>> /\ wq' = <<"connect">>
                                   \/ wq = <<"reset">> /\ wq' = <<"reset", "connect">>
                                   \/ wq = <<"connect">> /\ wq' = <<"connect">>
                                   \/ wq = <<"connect", "reset">> /\ wq' = <<"connect", "reset">>
                                   \/ wq = <<"reset", "connect">> /\ wq' = <<"reset", "connect">>
           /\ Submit("reset") => \/ wq = <<>> /\ wq' = <<"reset">>
                                 \/ wq = <<"connect">> /\ wq' = <<"connect", "reset">>
                                 \/ wq = <<"reset">> /\ wq' = <<"reset">>
                                 \/ wq = <<"connect", "reset">> /\ wq' = <<"connect", "reset">>
                                 \/ wq = <<"reset", "connect">> /\ wq' = <<"reset", "connect">>
<1>1. CASE wq = <<>>
  BY <1>1 DEF Submit, Queued
<1>2. CASE wq = <<"connect">>
  BY <1>2 DEF Submit, Queued
<1>3. CASE wq = <<"reset">>
  BY <1>3 DEF Submit, Queued
<1>4. CASE wq = <<"connect", "reset">>
  <2>1. Queued("connect") /\ Queued("reset")
    BY <1>4 DEF Queued
  <2> QED BY <1>4, <2>1 DEF Submit
<1>5. CASE wq = <<"reset", "connect">>
  <2>1. Queued("connect") /\ Queued("reset")
    BY <1>5 DEF Queued
  <2> QED BY <1>5, <2>1 DEF Submit
<1> QED BY <1>1, <1>2, <1>3, <1>4, <1>5 DEF Queues

-----------------------------------------------------------------------------
\* A staged record that passes app_nvram_is_valid is one of the sane ones.
LEMMA ValidIsSane ==
    \A r \in Records : app_nvram_is_valid(r) => r \in ValidRecords
<1> SUFFICES ASSUME NEW r \in Records, app_nvram_is_valid(r) PROVE r \in ValidRecords
  OBVIOUS
<1>1. r.ssid # "" /\ r.host_ip # "" /\ r.security \in Allowed /\ r.port # 0
  BY DEF app_nvram_is_valid
<1>2. r.security = "OPEN" \/ r.password # ""
  BY DEF app_nvram_is_valid
<1>3. "" \notin Allowed
  BY DEF Allowed
<1>4. r \in [ssid: Ssids \ {""}, password: Passwords \cup {""},
             security: Securities \cap Allowed, host_ip: Hosts \ {""}, port: Ports \ {0}]
  <2>1. /\ r.ssid \in Ssids \cup {""} /\ r.password \in Passwords \cup {""}
        /\ r.security \in Securities \cup {""} /\ r.host_ip \in Hosts \cup {""}
        /\ r.port \in Ports \cup {0}
    BY DEF Records
  <2>2. r = [ssid |-> r.ssid, password |-> r.password, security |-> r.security,
             host_ip |-> r.host_ip, port |-> r.port]
    BY DEF Records
  <2> QED BY <1>1, <1>3, <2>1, <2>2
<1> QED BY <1>2, <1>4 DEF ValidRecords

\* And every sane record passes; the zeroed one does not.
LEMMA SaneIsValid ==
    /\ \A r \in ValidRecords : r \in Records /\ r # Zeroed /\ app_nvram_is_valid(r)
    /\ Zeroed \in Records /\ ~app_nvram_is_valid(Zeroed)
    /\ NoRecord \notin ValidRecords /\ NoRecord # Zeroed
<1>1. ASSUME NEW r \in ValidRecords PROVE r \in Records /\ r # Zeroed /\ app_nvram_is_valid(r)
  <2>1. r \in Records
    BY DEF ValidRecords, Records
  <2>2. r.ssid # "" /\ r.host_ip # "" /\ r.port # 0 /\ r.security \in Allowed
    BY DEF ValidRecords
  <2>3. r.security # "OPEN" => r.password # ""
    BY DEF ValidRecords
  <2>4. Zeroed.ssid = ""
    BY DEF Zeroed
  <2> QED BY <2>1, <2>2, <2>3, <2>4 DEF app_nvram_is_valid
<1>2. Zeroed \in Records
  BY DEF Zeroed, Records
<1>3. ~app_nvram_is_valid(Zeroed)
  BY DEF Zeroed, app_nvram_is_valid
<1> QED BY <1>1, <1>2, <1>3, ProvAssumption

\* A field write keeps the staged record a record.
LEMMA StagingTyped ==
    ASSUME NEW r \in Records, NEW f \in Fields, NEW v \in Writable[f]
    PROVE  [r EXCEPT ![f] = v] \in Records
<1>1. CASE f = "ssid"
  BY <1>1 DEF Writable, Records
<1>2. CASE f = "password"
  BY <1>2 DEF Writable, Records
<1>3. CASE f = "security"
  BY <1>3 DEF Writable, Records
<1>4. CASE f = "host_ip"
  BY <1>4 DEF Writable, Records
<1>5. CASE f = "port"
  BY <1>5 DEF Writable, Records
<1> QED BY <1>1, <1>2, <1>3, <1>4, <1>5 DEF Fields

-----------------------------------------------------------------------------

\* The steps of bt_ready_cb keep the invariant.
LEMMA BootKeeps == ProvIInv /\ (AppProvInit \/ LoadCfg \/ WifiUp) => ProvIInv'
<1> SUFFICES ASSUME ProvIInv, (AppProvInit \/ LoadCfg \/ WifiUp) PROVE ProvIInv'
  OBVIOUS
<1> USE DEF ProvIInv
<1>0. Load(Zeroed) = IF stored = NoRecord THEN Zeroed ELSE stored
  BY DEF Load
<1>1. ProvTypes'
  <2>1. stored \in ValidRecords \cup {NoRecord} /\ Zeroed \in Records
    BY SaneIsValid DEF ProvTypes
  <2>2. Load(Zeroed) \in Records /\ Load(Zeroed) \in ValidRecords \cup {Zeroed}
    BY <1>0, <2>1, SaneIsValid
  <2>3. s_staging' \in Records /\ s_nvram_cfg' \in ValidRecords \cup {Zeroed}
    BY <2>1, <2>2 DEF ProvTypes, AppProvInit, LoadCfg, WifiUp, svc
  <2>4. s_cb' \in BOOLEAN /\ excused' \in BOOLEAN
    BY DEF ProvTypes, AppProvInit, LoadCfg, WifiUp, svc
  <2> QED BY <2>3, <2>4 DEF ProvTypes, AppProvInit, LoadCfg, WifiUp, svc
<1>2. BootInv'
  BY <1>0, SaneIsValid, QueuesDiffer DEF ProvTypes, BootInv, AppProvInit, LoadCfg, WifiUp,
     svc, Queues
<1>3. HostInv'
  BY <1>0, SaneIsValid, QueuesDiffer DEF ProvTypes, BootInv, HostInv, AppProvInit,
     LoadCfg, WifiUp, svc, Queues
<1>4. Follows'
  BY <1>0, SaneIsValid, QueuesDiffer DEF ProvTypes, BootInv, HostInv, Follows,
     WillConnect, WillForget, AppProvInit, LoadCfg, WifiUp, svc, Queues
<1> QED BY <1>1, <1>2, <1>3, <1>4

\* So does a field write.
LEMMA WriteKeeps ==
    ProvIInv /\ (\E f \in Fields : \E v \in Writable[f] : WriteField(f, v)) => ProvIInv'
<1> SUFFICES ASSUME ProvIInv, \E f \in Fields : \E v \in Writable[f] : WriteField(f, v)
             PROVE  ProvIInv'
  OBVIOUS
<1> USE DEF ProvIInv
<1>1. ProvTypes'
  <2>1. PICK f \in Fields : \E v \in Writable[f] : WriteField(f, v)
    OBVIOUS
  <2>2. PICK v \in Writable[f] : WriteField(f, v)
    BY <2>1
  <2>3. s_staging' = [s_staging EXCEPT ![f] = v] /\ s_staging \in Records
    BY <2>2 DEF WriteField, ProvTypes
  <2>4. s_staging' \in Records
    BY <2>3, StagingTyped
  <2> QED BY <2>2, <2>4 DEF ProvTypes, WriteField, glue
<1>2. BootInv'
  BY StagingTyped DEF ProvTypes, BootInv, WriteField, glue
<1>3. HostInv'
  BY DEF BootInv, HostInv, WriteField, glue
<1>4. Follows'
  BY DEF BootInv, HostInv, Follows, WillConnect, WillForget, WriteField, glue
<1> QED BY <1>1, <1>2, <1>3, <1>4

\* A COMMIT before it is queued.
LEMMA CommitKeeps ==
    ProvIInv /\ (CommitInvalid \/ CommitSave \/ CommitFailed) => ProvIInv'
<1> SUFFICES ASSUME ProvIInv, (CommitInvalid \/ CommitSave \/ CommitFailed) PROVE ProvIInv'
  OBVIOUS
<1> USE DEF ProvIInv
<1>1. ProvTypes'
  BY SaneIsValid, ValidIsSane DEF ProvTypes, BootInv, CommitInvalid, CommitSave,
     CommitFailed, glue
<1>2. BootInv'
  BY SaneIsValid, ValidIsSane DEF ProvTypes, BootInv, CommitInvalid, CommitSave,
     CommitFailed, glue
<1>3. HostInv'
  BY SaneIsValid, ValidIsSane DEF ProvTypes, BootInv, HostInv, CommitInvalid, CommitSave,
     CommitFailed, glue
<1>4. Follows'
  BY SaneIsValid, ValidIsSane DEF ProvTypes, BootInv, HostInv, Follows, WillConnect,
     WillForget, CommitInvalid, CommitSave, CommitFailed, glue
<1> QED BY <1>1, <1>2, <1>3, <1>4

\* A COMMIT that is queued.
LEMMA CommitSavedKeeps == ProvIInv /\ CommitSaved => ProvIInv'
<1> SUFFICES ASSUME ProvIInv, CommitSaved PROVE ProvIInv'
  OBVIOUS
<1> USE DEF ProvIInv
<1>0. IF s_cb THEN \/ wq = <<>> /\ wq' = <<"connect">>
                   \/ wq = <<"reset">> /\ wq' = <<"reset", "connect">>
                   \/ wq # <<>> /\ wq # <<"reset">> /\ wq' = wq
      ELSE wq' = wq
  <2>1. CASE s_cb
    BY <2>1, SubmitFacts, QueuesDiffer DEF ProvTypes, CommitSaved
  <2>2. CASE ~s_cb
    BY <2>2 DEF CommitSaved, Submit
  <2> QED BY <2>1, <2>2
<1>1. ProvTypes'
  BY <1>0, SaneIsValid, QueuesDiffer DEF ProvTypes, BootInv, CommitSaved, Overtaken, Queues
<1>2. BootInv'
  BY <1>0, SaneIsValid, QueuesDiffer DEF ProvTypes, BootInv, CommitSaved, Overtaken, Queues
<1>3. HostInv'
  BY <1>0, SaneIsValid, QueuesDiffer DEF ProvTypes, BootInv, HostInv, CommitSaved,
     Overtaken, Queues
<1>4. Follows'
  BY <1>0, SaneIsValid, QueuesDiffer DEF ProvTypes, BootInv, HostInv, Follows,
     WillConnect, WillForget, CommitSaved, Overtaken, Queues
<1> QED BY <1>1, <1>2, <1>3, <1>4

\* A RESET that erases.
LEMMA ResetEraseKeeps == ProvIInv /\ ResetErase => ProvIInv'
<1> SUFFICES ASSUME ProvIInv, ResetErase PROVE ProvIInv'
  OBVIOUS
<1> USE DEF ProvIInv
<1>1. ProvTypes'
  BY SaneIsValid DEF ProvTypes, BootInv, ResetErase
<1>2. BootInv'
  BY SaneIsValid DEF ProvTypes, BootInv, ResetErase
<1>3. HostInv'
  BY SaneIsValid DEF ProvTypes, BootInv, HostInv, ResetErase
<1>4. Follows'
  BY SaneIsValid DEF ProvTypes, BootInv, HostInv, Follows, WillConnect, WillForget,
     ResetErase
<1> QED BY <1>1, <1>2, <1>3, <1>4

\* A RESET that is queued.
LEMMA ResetDoneKeeps == ProvIInv /\ ResetDone => ProvIInv'
<1> SUFFICES ASSUME ProvIInv, ResetDone PROVE ProvIInv'
  OBVIOUS
<1> USE DEF ProvIInv
<1>0. IF s_cb THEN \/ wq = <<>> /\ wq' = <<"reset">>
                   \/ wq = <<"connect">> /\ wq' = <<"connect", "reset">>
                   \/ wq # <<>> /\ wq # <<"connect">> /\ wq' = wq
      ELSE wq' = wq
  <2>1. CASE s_cb
    BY <2>1, SubmitFacts, QueuesDiffer DEF ProvTypes, ResetDone
  <2>2. CASE ~s_cb
    BY <2>2 DEF ResetDone, Submit
  <2> QED BY <2>1, <2>2
<1>1. ProvTypes'
  BY <1>0, SaneIsValid, QueuesDiffer DEF ProvTypes, BootInv, ResetDone, Remembered, Queues
<1>2. BootInv'
  BY <1>0, SaneIsValid, QueuesDiffer DEF ProvTypes, BootInv, ResetDone, Remembered, Queues
<1>3. HostInv'
  BY <1>0, SaneIsValid, QueuesDiffer DEF ProvTypes, BootInv, HostInv, ResetDone,
     Remembered, Queues
<1>4. Follows'
  BY <1>0, SaneIsValid, QueuesDiffer DEF ProvTypes, BootInv, HostInv, Follows,
     WillConnect, WillForget, ResetDone, Remembered, Queues
<1> QED BY <1>1, <1>2, <1>3, <1>4

\* The work item that connects.
LEMMA ConnectWorkKeeps == ProvIInv /\ ConnectWork => ProvIInv'
<1> SUFFICES ASSUME ProvIInv, ConnectWork PROVE ProvIInv'
  OBVIOUS
<1> USE DEF ProvIInv
<1>0. \/ wq = <<"connect">> /\ wq' = <<>>
      \/ wq = <<"connect", "reset">> /\ wq' = <<"reset">>
  BY TakesFacts DEF ProvTypes, ConnectWork
<1>1. ProvTypes'
  BY <1>0, SaneIsValid, QueuesDiffer DEF ProvTypes, BootInv, ConnectWork, Connect, svc,
     Queues
<1>2. BootInv'
  BY <1>0, SaneIsValid, QueuesDiffer DEF ProvTypes, BootInv, ConnectWork, Connect, svc,
     Queues
<1>3. HostInv'
  BY <1>0, SaneIsValid, QueuesDiffer DEF ProvTypes, BootInv, HostInv, ConnectWork,
     Connect, svc, Queues
<1>4. Follows'
  BY <1>0, SaneIsValid, QueuesDiffer DEF ProvTypes, BootInv, HostInv, Follows,
     WillConnect, WillForget, ConnectWork, Connect, svc, Queues
<1> QED BY <1>1, <1>2, <1>3, <1>4

\* The work item that disconnects.
LEMMA ResetWorkKeeps == ProvIInv /\ ResetWork => ProvIInv'
<1> SUFFICES ASSUME ProvIInv, ResetWork PROVE ProvIInv'
  OBVIOUS
<1> USE DEF ProvIInv
<1>0. \/ wq = <<"reset">> /\ wq' = <<>>
      \/ wq = <<"reset", "connect">> /\ wq' = <<"connect">>
  BY TakesFacts DEF ProvTypes, ResetWork
<1>1. ProvTypes'
  BY <1>0, SaneIsValid, QueuesDiffer DEF ProvTypes, BootInv, ResetWork, svc, Queues
<1>2. BootInv'
  BY <1>0, SaneIsValid, QueuesDiffer DEF ProvTypes, BootInv, ResetWork, svc, Queues
<1>3. HostInv'
  BY <1>0, SaneIsValid, QueuesDiffer DEF ProvTypes, BootInv, HostInv, ResetWork, svc, Queues
<1>4. Follows'
  BY <1>0, SaneIsValid, QueuesDiffer DEF ProvTypes, BootInv, HostInv, Follows,
     WillConnect, WillForget, ResetWork, svc, Queues
<1> QED BY <1>1, <1>2, <1>3, <1>4

\* The events of the station and the latch of the main loop.
LEMMA NetKeeps ==
    ProvIInv /\ (WifiReady \/ WifiDisconnected \/ LatchApplied) => ProvIInv'
<1> SUFFICES ASSUME ProvIInv, (WifiReady \/ WifiDisconnected \/ LatchApplied) PROVE ProvIInv'
  OBVIOUS
<1> USE DEF ProvIInv
<1>1. ProvTypes'
  BY SaneIsValid DEF ProvTypes, BootInv, WifiReady, WifiDisconnected, LatchApplied, svc,
     Queues
<1>2. BootInv'
  BY SaneIsValid DEF ProvTypes, BootInv, WifiReady, WifiDisconnected, LatchApplied, svc,
     Queues
<1>3. HostInv'
  BY SaneIsValid DEF ProvTypes, BootInv, HostInv, WifiReady, WifiDisconnected,
     LatchApplied, svc, Queues
<1>4. Follows'
  BY SaneIsValid DEF ProvTypes, BootInv, HostInv, Follows, WillConnect, WillForget,
     WifiReady, WifiDisconnected, LatchApplied, svc, Queues
<1> QED BY <1>1, <1>2, <1>3, <1>4

\* After a reset of the board only the flash is as it was.
LEMMA RebootKeeps == ProvIInv /\ Reboot => ProvIInv'
<1> SUFFICES ASSUME ProvIInv, Reboot PROVE ProvIInv'
  OBVIOUS
<1>1. /\ s_cb' \in BOOLEAN /\ s_prov_applied' \in BOOLEAN /\ s_started' \in BOOLEAN
      /\ excused' \in BOOLEAN /\ ~s_cb' /\ ~s_started'
  BY DEF Reboot
<1>2. ProvTypes'
  BY <1>1, SaneIsValid DEF ProvIInv, ProvTypes, Reboot, Queues
<1>3. BootInv' /\ HostInv'
  BY <1>1 DEF BootInv, HostInv, Reboot
<1>4. Follows'
  BY <1>1, QueuesDiffer DEF Follows, WillConnect, WillForget, Reboot
<1> QED BY <1>2, <1>3, <1>4 DEF ProvIInv

LEMMA ProvInitIInv == ProvInit => ProvIInv
<1> SUFFICES ASSUME ProvInit PROVE ProvIInv
  OBVIOUS
<1>1. /\ s_cb \in BOOLEAN /\ s_prov_applied \in BOOLEAN /\ s_started \in BOOLEAN
      /\ excused \in BOOLEAN /\ ~s_cb /\ ~s_started
  BY DEF ProvInit
<1>2. ProvTypes
  BY <1>1, SaneIsValid DEF ProvTypes, ProvInit, Queues
<1>3. BootInv /\ HostInv
  BY <1>1 DEF BootInv, HostInv, ProvInit
<1>4. Follows
  BY <1>1, QueuesDiffer DEF Follows, WillConnect, WillForget, ProvInit
<1> QED BY <1>2, <1>3, <1>4 DEF ProvIInv

LEMMA ProvNextIInv == ProvIInv /\ [ProvNext]_prov_vars => ProvIInv'
<1> SUFFICES ASSUME ProvIInv, [ProvNext]_prov_vars PROVE ProvIInv'
  OBVIOUS
<1>1. CASE UNCHANGED prov_vars
  BY <1>1 DEF prov_vars, flash, svc, glue, ProvIInv, ProvTypes, BootInv, HostInv, Follows,
     WillConnect, WillForget
<1>2. CASE ProvNext
  BY <1>2, BootKeeps, WriteKeeps, CommitKeeps, CommitSavedKeeps, ResetEraseKeeps,
     ResetDoneKeeps, ConnectWorkKeeps, ResetWorkKeeps, NetKeeps, RebootKeeps
     DEF ProvNext, BtHost
<1> QED BY <1>1, <1>2

-----------------------------------------------------------------------------
\* The invariant holds in every state the four threads and resets of the board
\* can reach, whatever clients write.
THEOREM ProvIInvInvariant == ProvSpec => []ProvIInv
BY ProvInitIInv, ProvNextIInv, PTL DEF ProvSpec

\* The variables keep their types, and prov_cb queues each work item at most once.
THEOREM ProvTyped == ProvSpec => []ProvTypeOK
<1>1. ProvIInv => ProvTypeOK
  <2> SUFFICES ASSUME ProvIInv PROVE ProvTypeOK
    OBVIOUS
  <2>1. stored \in Records \cup {NoRecord} /\ target \in Records \cup {NoRecord}
    BY SaneIsValid DEF ProvIInv, ProvTypes
  <2>2. s_nvram_cfg \in Records
    BY SaneIsValid DEF ProvIInv, ProvTypes
  <2>3. \A q \in Queues : q \in Seq({"connect", "reset"}) /\ Len(q) <= 2
    <3> DEFINE Short(q) == q \in Seq({"connect", "reset"}) /\ Len(q) <= 2
    <3>1. Short(<<>>)
      OBVIOUS
    <3>2. Short(<<"connect">>) /\ Short(<<"reset">>)
      OBVIOUS
    <3>3. Short(<<"connect", "reset">>) /\ Short(<<"reset", "connect">>)
      OBVIOUS
    <3> HIDE DEF Short
    <3>4. \A q \in Queues : Short(q)
      BY <3>1, <3>2, <3>3 DEF Queues
    <3> QED BY <3>4 DEF Short
  <2> QED BY <2>1, <2>2, <2>3 DEF ProvIInv, ProvTypes, ProvTypeOK
<1> QED BY <1>1, ProvIInvInvariant, PTL

\* Only records that app_nvram_is_valid accepts reach the flash, s_nvram_cfg and
\* the station, for every set of names, passwords, hosts and ports.
THEOREM RecordsAreValid == ProvSpec => []OnlyValidRecords
<1>1. ProvIInv => OnlyValidRecords
  BY DEF ProvIInv, ProvTypes, OnlyValidRecords
<1> QED BY <1>1, ProvIInvInvariant, PTL

\* COMMITTED, read between two writes, means that a record is in the flash.
THEOREM CommittedIsStored == ProvSpec => []CommittedStored
<1>1. ProvIInv => CommittedStored
  BY DEF ProvIInv, HostInv, CommittedStored
<1> QED BY <1>1, ProvIInvInvariant, PTL

\* With READY reported and nothing under way, the station was asked for what the
\* flash holds, in every order of commits, resets, start-up and READY but the
\* excused ones.
THEOREM StationIsAsked == ProvSpec => []StationFollowsFlash
<1>1. ProvIInv => StationFollowsFlash
  BY QueuesDiffer DEF ProvIInv, ProvTypes, Follows, WillConnect, WillForget,
     StationFollowsFlash
<1> QED BY <1>1, ProvIInvInvariant, PTL

=============================================================================
