----------------------------- MODULE Provisioning -----------------------------
(***************************************************************************)
(* Provisioning: the BLE service ble/gatt_servers/svc_prov.c, the record   *)
(* it keeps in flash (nvm/app_nvram.c, nvm/nvs_backend.c), and the glue of *)
(* app_main_zephyr.c that hands the record to the Wi-Fi station.           *)
(*                                                                         *)
(* Four threads meet here: the Bluetooth host handles one GATT write after *)
(* the other and blocks in the flash; bt_ready_cb brings the services up   *)
(* after advertising has started, so writes can arrive before them; the    *)
(* system work queue runs the deferred connect and reset (it may be the    *)
(* thread of bt_ready_cb too; nothing here relies on it); the net_mgmt     *)
(* thread reports READY.  A reset of the board can come at any time: only  *)
(* the flash survives.                                                     *)
(*                                                                         *)
(* Of the station only what it was last asked for is kept (WifiSta models  *)
(* the rest), of the TCP client nothing (TcpClient).                       *)
(***************************************************************************)
EXTENDS Naturals, Sequences

CONSTANTS
    Ssids, Passwords, Securities, Hosts, Ports,  \* what clients write
    NoRecord                                     \* -ENOENT; also: no request

Fields == {"ssid", "password", "security", "host_ip", "port"}

\* What a client can write to each characteristic.
Writable == [ssid |-> Ssids, password |-> Passwords, security |-> Securities,
             host_ip |-> Hosts, port |-> Ports]

\* k_allowed_security.  The empty string and port 0 are what memset leaves.
Allowed == {"OPEN", "WPA2", "WPA2_WPA3", "WPA3_SAE"}
Zeroed  == [ssid |-> "", password |-> "", security |-> "", host_ip |-> "", port |-> 0]

Records == [ssid: Ssids \cup {""}, password: Passwords \cup {""},
            security: Securities \cup {""}, host_ip: Hosts \cup {""}, port: Ports \cup {0}]

ASSUME ProvAssumption ==
    /\ Ssids \subseteq STRING /\ Passwords \subseteq STRING /\ Securities \subseteq STRING
    /\ Hosts \subseteq STRING /\ Ports \subseteq 0 .. 2^16 - 1
    /\ NoRecord \notin Records

VARIABLES
    stored,          \* the NVS entry APP_NVS_ID_WIFI_CRED
    boot,            \* how far bt_ready_cb is
    s_staging, s_state, s_cb,
    bpc,             \* where the Bluetooth host is in write_commit
    s_nvram_cfg, s_prov_applied,
    s_started,       \* app_wifi has reported READY
    target,          \* what the station was last asked to join
    wq,              \* work items of the glue queued on the system work queue
    excused          \* history: in this boot one of the cases Excuse names happened

flash == <<stored>>
svc   == <<s_staging, s_state, s_cb, bpc>>
glue  == <<boot, s_nvram_cfg, s_prov_applied, s_started, target, wq, excused>>
prov_vars  == <<flash, svc, glue>>

ProvTypeOK ==
    /\ stored \in Records \cup {NoRecord}
    /\ boot \in {"adv", "prov", "cfg", "up"}
    /\ s_staging \in Records
    /\ s_state \in {"IDLE", "COMMITTED", "INVALID", "IO_ERROR", "APPLIED"}
    /\ s_cb \in BOOLEAN /\ s_prov_applied \in BOOLEAN /\ s_started \in BOOLEAN
    /\ bpc \in {"idle", "saved", "failed", "erased"}
    /\ s_nvram_cfg \in Records
    /\ target \in Records \cup {NoRecord}
    /\ wq \in Seq({"connect", "reset"}) /\ Len(wq) <= 2
    /\ excused \in BOOLEAN

-----------------------------------------------------------------------------
\* Mutant: an open network may do without a host.
M_app_nvram_is_valid(r) ==
    /\ r.ssid # "" /\ r.security \in Allowed
    /\ r.security # "OPEN" => r.password # "" /\ r.host_ip # ""
    /\ r.port # 0

\* app_nvram_is_valid.
app_nvram_is_valid(r) ==
    /\ r.ssid # "" /\ r.host_ip # ""
    /\ r.security \in Allowed
    /\ r.security # "OPEN" => r.password # ""
    /\ r.port # 0

\* The records app_nvram.h calls sane, field by field.
ValidRecords ==
    {r \in [ssid: Ssids \ {""}, password: Passwords \cup {""}, security: Securities \cap Allowed,
            host_ip: Hosts \ {""}, port: Ports \ {0}] :
        r.security = "OPEN" \/ r.password # ""}

\* RAM after a reset, while bt_ready_cb starts advertising; the flash is empty
\* or holds what an earlier boot committed.
ProvInit ==
    /\ stored \in ValidRecords \cup {NoRecord}
    /\ boot = "adv"
    /\ s_staging = Zeroed /\ s_state = "IDLE" /\ s_cb = FALSE /\ bpc = "idle"
    /\ s_nvram_cfg = Zeroed /\ s_prov_applied = FALSE
    /\ s_started = FALSE /\ target = NoRecord /\ wq = <<>>
    /\ excused = FALSE

\* Power is lost, or an update reboots the board.  An NVS entry is written
\* as a whole or not at all.
Reboot ==
    /\ boot' = "adv"
    /\ s_staging' = Zeroed /\ s_state' = "IDLE" /\ s_cb' = FALSE /\ bpc' = "idle"
    /\ s_nvram_cfg' = Zeroed /\ s_prov_applied' = FALSE
    /\ s_started' = FALSE /\ target' = NoRecord /\ wq' = <<>>
    /\ excused' = FALSE
    /\ UNCHANGED stored

\* app_nvram_load into a buffer that held old: no entry, or an I/O error (a
\* mount that fails is one), leaves it as it was.  A record of another length,
\* which would be in the buffer before it is refused, cannot be in the flash:
\* app_nvram_save is its only writer and always writes the whole structure
\* (records of other firmware versions are outside the model).
Load(old) == IF stored = NoRecord THEN old ELSE stored

-----------------------------------------------------------------------------
(***************************************************************************)
(* bt_ready_cb, after bt_le_adv_start.                                     *)
(***************************************************************************)

\* app_prov_init.
AppProvInit ==
    /\ boot = "adv"
    /\ boot' = "prov"
    /\ s_cb' = TRUE /\ s_state' = "IDLE"
    /\ s_staging' \in {Load(Zeroed), Zeroed}
    /\ UNCHANGED <<stored, bpc, s_nvram_cfg, s_prov_applied, s_started, target, wq, excused>>

\* s_nvram_cfg is zeroed and loaded; it is then valid or as good as empty.
LoadCfg ==
    /\ boot = "prov"
    /\ boot' = "cfg"
    /\ \/ s_nvram_cfg' = Load(Zeroed) /\ UNCHANGED excused
       \/ s_nvram_cfg' = Zeroed /\ excused' = TRUE
    /\ UNCHANGED <<stored, svc, s_prov_applied, s_started, target, wq>>

\* app_wifi_init, and s_ble_ready.
WifiUp ==
    /\ boot = "cfg"
    /\ boot' = "up"
    /\ UNCHANGED <<stored, svc, s_nvram_cfg, s_prov_applied, s_started, target, wq, excused>>

-----------------------------------------------------------------------------
(***************************************************************************)
(* The Bluetooth host: field writes, COMMIT and RESET.                     *)
(***************************************************************************)

\* write_ssid .. write_port, with a length that is accepted.
WriteField(f, v) ==
    /\ bpc = "idle"
    /\ s_staging' = [s_staging EXCEPT ![f] = v]
    /\ UNCHANGED <<stored, s_state, s_cb, bpc, glue>>

Queued(w) == \E i \in 1 .. Len(wq) : wq[i] = w

\* Mutant: an item is queued once per submission.
M_Submit(w) == wq' = IF s_cb THEN Append(wq, w) ELSE wq

\* emit and prov_cb: k_work_submit, if the callback is registered.
Submit(w) == wq' = IF s_cb /\ ~Queued(w) THEN Append(wq, w) ELSE wq

CommitInvalid ==
    /\ bpc = "idle" /\ ~app_nvram_is_valid(s_staging)
    /\ s_state' = "INVALID"
    /\ UNCHANGED <<stored, s_staging, s_cb, bpc, glue>>

\* app_nvram_save blocks; it can fail without effect.
CommitSave ==
    /\ bpc = "idle" /\ app_nvram_is_valid(s_staging)
    /\ \/ stored' = s_staging /\ bpc' = "saved"
       \/ bpc' = "failed" /\ UNCHANGED stored
    /\ UNCHANGED <<s_staging, s_state, s_cb, glue>>

\* Excuse: this COMMIT is not queued again behind a RESET that will undo it.
Overtaken == wq = <<"connect", "reset">>

CommitSaved ==
    /\ bpc = "saved"
    /\ bpc' = "idle"
    /\ s_state' = "COMMITTED"
    /\ Submit("connect")
    /\ excused' = (excused \/ Overtaken)
    /\ UNCHANGED <<stored, s_staging, s_cb, boot, s_nvram_cfg, s_prov_applied, s_started,
                   target>>

CommitFailed ==
    /\ bpc = "failed"
    /\ bpc' = "idle"
    /\ s_state' = "IO_ERROR"
    /\ UNCHANGED <<stored, s_staging, s_cb, glue>>

\* app_nvram_reset; its result is ignored.
ResetErase ==
    /\ bpc = "idle"
    /\ bpc' = "erased"
    /\ stored' \in {stored, NoRecord}
    /\ excused' = (excused \/ stored' # NoRecord)
    /\ UNCHANGED <<s_staging, s_state, s_cb, boot, s_nvram_cfg, s_prov_applied, s_started,
                   target, wq>>

\* Excuse: READY is still to come and will use the s_nvram_cfg of before.
Remembered == ~s_started /\ s_nvram_cfg # Zeroed

\* Mutant: the state is left as it was.
M_ResetDone ==
    /\ bpc = "erased"
    /\ bpc' = "idle"
    /\ s_staging' = Zeroed
    /\ Submit("reset")
    /\ excused' = (excused \/ Remembered)
    /\ UNCHANGED <<stored, s_state, s_cb, boot, s_nvram_cfg, s_prov_applied, s_started, target>>

ResetDone ==
    /\ bpc = "erased"
    /\ bpc' = "idle"
    /\ s_staging' = Zeroed
    /\ s_state' = "IDLE"
    /\ Submit("reset")
    /\ excused' = (excused \/ Remembered)
    /\ UNCHANGED <<stored, s_cb, boot, s_nvram_cfg, s_prov_applied, s_started, target>>

BtHost ==
    \/ \E f \in Fields : \E v \in Writable[f] : WriteField(f, v)
    \/ CommitInvalid \/ CommitSave \/ CommitSaved \/ CommitFailed
    \/ ResetErase \/ ResetDone

-----------------------------------------------------------------------------
(***************************************************************************)
(* The work queue and the net_mgmt thread.                                 *)
(***************************************************************************)
Takes(w) == wq # <<>> /\ Head(wq) = w /\ wq' = Tail(wq)

\* app_wifi_connect refuses before READY.
Connect(r) == target' = IF s_started THEN r ELSE target

\* Mutant: the record is only loaded when the station can use it.
M_ConnectWork ==
    /\ Takes("connect")
    /\ \/ ~s_started /\ UNCHANGED <<s_nvram_cfg, target, excused>>
       \/ s_started /\ stored # NoRecord /\ s_nvram_cfg' = stored /\ target' = stored
             /\ UNCHANGED excused
    /\ UNCHANGED <<stored, svc, boot, s_prov_applied, s_started>>

\* prov_connect_work_fn: nothing is stored any more, the read fails, or the
\* record is loaded and passed on.
ConnectWork ==
    /\ Takes("connect")
    /\ \/ stored = NoRecord /\ UNCHANGED <<s_nvram_cfg, target, excused>>
       \/ excused' = TRUE /\ UNCHANGED <<s_nvram_cfg, target>>
       \/ /\ stored # NoRecord
          /\ s_nvram_cfg' = stored
          /\ Connect(stored)
          /\ UNCHANGED excused
    /\ UNCHANGED <<stored, svc, boot, s_prov_applied, s_started>>

\* prov_reset_work_fn: app_wifi_disconnect.  s_nvram_cfg is left as it is.
ResetWork ==
    /\ Takes("reset")
    /\ target' = NoRecord
    /\ s_prov_applied' = FALSE
    /\ UNCHANGED <<stored, svc, boot, s_nvram_cfg, s_started, excused>>

\* wifi_cb(READY), once, after app_wifi_init.
WifiReady ==
    /\ boot = "up" /\ ~s_started
    /\ s_started' = TRUE
    /\ target' = IF app_nvram_is_valid(s_nvram_cfg) THEN s_nvram_cfg ELSE target
    /\ UNCHANGED <<stored, svc, boot, s_nvram_cfg, s_prov_applied, wq, excused>>

\* wifi_cb(DISCONNECTED).
WifiDisconnected ==
    /\ s_started
    /\ s_prov_applied' = FALSE
    /\ UNCHANGED <<stored, svc, boot, s_nvram_cfg, s_started, target, wq, excused>>

\* The main loop finds the TCP client connected.
LatchApplied ==
    /\ s_started /\ ~s_prov_applied
    /\ s_prov_applied' = TRUE
    /\ s_state' = "APPLIED"
    /\ UNCHANGED <<stored, s_staging, s_cb, bpc, boot, s_nvram_cfg, s_started, target, wq,
                   excused>>

ProvNext ==
    \/ AppProvInit \/ LoadCfg \/ WifiUp
    \/ BtHost
    \/ ConnectWork \/ ResetWork
    \/ WifiReady \/ WifiDisconnected \/ LatchApplied
    \/ Reboot

ProvSpec == ProvInit /\ [][ProvNext]_prov_vars

-----------------------------------------------------------------------------
(***************************************************************************)
(* Properties.                                                             *)
(***************************************************************************)

\* The flash never holds a record the station could not use, whatever fields
\* were written, left from an earlier record, wiped by a reset or lost to the
\* late app_prov_init; and s_nvram_cfg and the station have no other source.
OnlyValidRecords ==
    /\ stored # NoRecord => stored \in ValidRecords
    /\ s_nvram_cfg # Zeroed => s_nvram_cfg \in ValidRecords
    /\ target # NoRecord => target \in ValidRecords

\* A client that reads COMMITTED, with no write in progress, can rely on a
\* record being stored.
CommittedStored == s_state = "COMMITTED" /\ bpc = "idle" => stored # NoRecord

\* When READY was reported and nothing is under way, the station was asked for
\* exactly what the flash holds: commits before, during and after start-up are
\* applied, in any order with READY, and resets take them back.  The cases in
\* which the code does not achieve this are the ones that set `excused': a
\* flash read or delete that fails, a RESET before READY, and a COMMIT that
\* arrives while COMMIT and RESET are still queued.
StationFollowsFlash ==
    s_started /\ wq = <<>> /\ bpc = "idle" /\ ~excused => target = stored
=============================================================================
