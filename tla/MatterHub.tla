----------------------------- MODULE MatterHub -----------------------------
(***************************************************************************)
(* The Matter hub stub: matter/matter_hub_core.c and matter_prefs.c, the   *)
(* commands of ble/gatt_servers/svc_matter.c, and the tick that the main   *)
(* loop of app_main_zephyr.c makes.                                        *)
(*                                                                         *)
(* Commands run on the Bluetooth host thread (cooperative: one step).  The *)
(* tick runs on the main thread and can be preempted between any two of    *)
(* its reads and stores.  Times are seconds of uptime; the loop takes as   *)
(* long as what it does takes, so that any number of them can pass.        *)
(* matter_hub_pack_status formats this state for a client and is left out. *)
(***************************************************************************)
EXTENDS Integers

CONSTANTS
    MaxFabrics,        \* MATTER_MAX_FABRIC_COUNT
    Durations,         \* durations a client asks for
    DefaultDuration,   \* APP_MATTER_DEFAULT_COMMISSION_SECONDS
    MaxUptime          \* bound: the model's clock stops here

ASSUME MatterAssumption ==
    /\ MaxFabrics \in Nat \ {0} /\ DefaultDuration \in Nat \ {0}
    /\ Durations \subseteq Nat /\ MaxUptime \in Nat

Prefs    == [state : {"IDLE", "READY", "COMMISSIONED"}, fabrics : 0 .. MaxFabrics]
BlankPrefs   == [state |-> "IDLE", fabrics |-> 0]
Default  == [state |-> "READY", fabrics |-> 0]
NoPrefs  == [state |-> "NONE", fabrics |-> 0]

VARIABLES
    s_prefs, s_window_active, s_window_end_uptime_s, s_cached_uptime_s,
    hub,          \* matter_hub_init has not run, has set s_inited, has failed
    s_ble_ready,  \* bt_ready_cb is through
    prefs_flash,  \* the record in NVS
    now,          \* k_uptime_get() / 1000
    mpc,          \* where the main loop is
    uptime_s,     \* the time it has read
    acked,        \* history: the preferences of the last command that succeeded
    replaced,     \* history: since then defaults were saved over an unreadable record
    unsaved,      \* history: RAM holds what a failed command left there
    raced,        \* history: the window was opened while a tick was closing one
    lost          \* history: a tick closed a window before its end

clock    == <<now, uptime_s, mpc>>
window   == <<s_window_active, s_window_end_uptime_s, s_cached_uptime_s, raced, lost>>
store    == <<s_prefs, prefs_flash, acked, replaced, unsaved>>
mat_vars == <<clock, window, store, hub, s_ble_ready>>

MatTypeOK ==
    /\ s_prefs \in Prefs /\ {prefs_flash, acked} \subseteq Prefs \cup {NoPrefs}
    /\ {s_window_active, s_ble_ready, replaced, unsaved, raced, lost} \subseteq BOOLEAN
    /\ hub \in {"new", "ready", "failed"}
    /\ {s_window_end_uptime_s, s_cached_uptime_s} \subseteq Nat
    /\ {now, uptime_s} \subseteq 0 .. MaxUptime
    /\ mpc \in {"loop", "cache", "active", "end", "close", "close_end"}

Booted ==
    /\ s_prefs = BlankPrefs /\ hub = "new" /\ s_ble_ready = FALSE
    /\ s_window_active = FALSE /\ s_window_end_uptime_s = 0 /\ s_cached_uptime_s = 0
    /\ now = 0 /\ uptime_s = 0 /\ mpc = "loop"
    /\ unsaved = FALSE /\ raced = FALSE /\ lost = FALSE

MatInit == Booted /\ prefs_flash = NoPrefs /\ acked = NoPrefs /\ replaced = FALSE

-----------------------------------------------------------------------------
(***************************************************************************)
(* bt_ready_cb.  matter_hub_init replaces a record that is missing or      *)
(* cannot be read by the defaults; if that fails, the hub stays off.  The  *)
(* main loop leaves the hub alone until all services are initialised.      *)
(***************************************************************************)
HubInit ==
    /\ hub = "new"
    /\ \/ /\ prefs_flash # NoPrefs
          /\ s_prefs' = prefs_flash /\ hub' = "ready"
          /\ unsaved' = FALSE
          /\ UNCHANGED <<prefs_flash, replaced>>
       \/ /\ s_prefs' = Default
          /\ \/ /\ prefs_flash' = Default /\ hub' = "ready"
                /\ replaced' = (replaced \/ prefs_flash # NoPrefs)
                /\ unsaved' = FALSE
             \/ hub' = "failed" /\ UNCHANGED <<prefs_flash, replaced, unsaved>>
    /\ s_window_end_uptime_s' = IF hub' = "ready" THEN 0 ELSE s_window_end_uptime_s
    /\ UNCHANGED <<s_window_active, s_cached_uptime_s, raced, lost, acked, clock, s_ble_ready>>

BtReady ==
    /\ hub # "new" /\ ~s_ble_ready
    /\ s_ble_ready' = TRUE
    /\ UNCHANGED <<clock, window, store, hub>>

-----------------------------------------------------------------------------
(***************************************************************************)
(* write_cmd.  The client is told whether the command succeeded.           *)
(***************************************************************************)
\* Places where a tick has found the window expired and is not through.
Closing == mpc \in {"close", "close_end"}

WindowOpen(d) ==
    /\ hub = "ready"
    /\ s_window_active' = TRUE
    /\ s_window_end_uptime_s' = s_cached_uptime_s + (IF d = 0 THEN DefaultDuration ELSE d)
    /\ raced' = Closing
    /\ UNCHANGED <<s_cached_uptime_s, lost, store, clock, hub, s_ble_ready>>

WindowClose ==
    /\ hub = "ready"
    /\ s_window_active' = FALSE /\ s_window_end_uptime_s' = 0
    /\ UNCHANGED <<s_cached_uptime_s, raced, lost, store, clock, hub, s_ble_ready>>

\* Mutant: persist_prefs before the preferences are changed.
M_Persist(p, ok) ==
    /\ prefs_flash' = IF ok THEN s_prefs ELSE prefs_flash
    /\ acked' = IF ok THEN p ELSE acked
    /\ replaced' = (replaced /\ ~ok)
    /\ unsaved' = ~ok

\* persist_prefs, and what the client is told.
Persist(p, ok) ==
    /\ prefs_flash' = IF ok THEN p ELSE prefs_flash
    /\ acked' = IF ok THEN p ELSE acked
    /\ replaced' = (replaced /\ ~ok)
    /\ unsaved' = ~ok

\* The preferences and the window change, then they are saved.
Stores(p) ==
    /\ s_prefs' = p
    /\ s_window_active' = FALSE /\ s_window_end_uptime_s' = 0
    /\ \E ok \in BOOLEAN : Persist(p, ok)
    /\ UNCHANGED <<s_cached_uptime_s, raced, lost, clock, hub, s_ble_ready>>

\* Also accepted before matter_hub_init, since advertising starts first.
FactoryReset == Stores(Default)

SimulateFabric ==
    /\ hub = "ready"
    /\ Stores([state   |-> "COMMISSIONED",
               fabrics |-> IF s_prefs.fabrics < MaxFabrics THEN s_prefs.fabrics + 1
                           ELSE s_prefs.fabrics])

MatCommand ==
    (\E d \in Durations : WindowOpen(d)) \/ WindowClose \/ FactoryReset \/ SimulateFabric

-----------------------------------------------------------------------------
(***************************************************************************)
(* The clock, and the main loop: matter_hub_on_tick, store by store.       *)
(***************************************************************************)
SecondPasses ==
    /\ now < MaxUptime
    /\ now' = now + 1
    /\ UNCHANGED <<uptime_s, mpc, window, store, hub, s_ble_ready>>

LoopGoes(l) == mpc' = l /\ UNCHANGED <<now, store, hub, s_ble_ready>>

ReadUptime ==
    /\ mpc = "loop" /\ s_ble_ready
    /\ uptime_s' = now
    /\ LoopGoes(IF hub = "ready" THEN "cache" ELSE "loop")
    /\ UNCHANGED window

TickCache ==
    /\ mpc = "cache"
    /\ s_cached_uptime_s' = uptime_s
    /\ LoopGoes("active")
    /\ UNCHANGED <<uptime_s, s_window_active, s_window_end_uptime_s, raced, lost>>

TickActive ==
    /\ mpc = "active"
    /\ LoopGoes(IF s_window_active THEN "end" ELSE "loop")
    /\ UNCHANGED <<uptime_s, window>>

\* Mutant: a window is closed one second late.
M_Expired == s_window_end_uptime_s # 0 /\ uptime_s > s_window_end_uptime_s

Expired == s_window_end_uptime_s # 0 /\ uptime_s >= s_window_end_uptime_s

TickEnd ==
    /\ mpc = "end"
    /\ LoopGoes(IF Expired THEN "close" ELSE "loop")
    /\ UNCHANGED <<uptime_s, window>>

TickClose ==
    /\ mpc = "close"
    /\ lost' = (lost \/ (s_window_active /\ ~raced /\ now < s_window_end_uptime_s))
    /\ s_window_active' = FALSE
    /\ LoopGoes("close_end")
    /\ UNCHANGED <<uptime_s, s_window_end_uptime_s, s_cached_uptime_s, raced>>

TickCloseEnd ==
    /\ mpc = "close_end"
    /\ s_window_end_uptime_s' = 0
    /\ LoopGoes("loop")
    /\ UNCHANGED <<uptime_s, s_window_active, s_cached_uptime_s, raced, lost>>

\* Power loss or reset: RAM is lost, the record stays.
MatReboot ==
    /\ s_prefs' = BlankPrefs /\ hub' = "new" /\ s_ble_ready' = FALSE
    /\ s_window_active' = FALSE /\ s_window_end_uptime_s' = 0 /\ s_cached_uptime_s' = 0
    /\ now' = 0 /\ uptime_s' = 0 /\ mpc' = "loop"
    /\ unsaved' = FALSE /\ raced' = FALSE /\ lost' = FALSE
    /\ UNCHANGED <<prefs_flash, acked, replaced>>

MatTick == ReadUptime \/ TickCache \/ TickActive \/ TickEnd \/ TickClose \/ TickCloseEnd

MatNext == HubInit \/ BtReady \/ MatCommand \/ SecondPasses \/ MatTick \/ MatReboot

MatSpec == MatInit /\ [][MatNext]_mat_vars

-----------------------------------------------------------------------------
(***************************************************************************)
(* Properties.                                                             *)
(***************************************************************************)

\* What a client was told is stored is stored, over any number of later failed
\* commands, power losses and restarts, until the next command that succeeds;
\* and a hub that runs works with it, except after a failed command, which has
\* changed RAM.  The one way to lose it is an initialisation that cannot read
\* the record and saves the defaults over it.  The record agrees with itself:
\* commissioned means that there is a fabric.
PrefsDurable ==
    /\ prefs_flash.state = "COMMISSIONED" <=> prefs_flash.fabrics > 0
    /\ acked # NoPrefs /\ ~replaced =>
          /\ prefs_flash = acked
          /\ hub = "ready" /\ ~unsaved => s_prefs = acked

\* However long the main loop takes, it closes no commissioning window before
\* its end, and after each tick no window is open that the tick found at its
\* end.  A window opened while a tick is closing the one before is excepted: see
\* WindowHasEnd.
WindowTimed ==
    /\ ~lost
    /\ s_window_active /\ ~raced /\ mpc \in {"loop", "cache"} =>
          s_cached_uptime_s < s_window_end_uptime_s

-----------------------------------------------------------------------------
(***************************************************************************)
(* What a comment says and the code does not do.                           *)
(***************************************************************************)

\* matter_hub_core.h: the tick is called for the "commissioning window timeout".
\* So an open window has an end for the tick to time out at, outside a tick that
\* is closing one.
WindowHasEnd == s_window_active /\ ~Closing => s_window_end_uptime_s # 0
=============================================================================
