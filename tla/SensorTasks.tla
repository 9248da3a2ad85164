----------------------------- MODULE SensorTasks -----------------------------
(***************************************************************************)
(* The sensor tasks and the bus they share: i2c_bus.c, sensors/lux_task.c  *)
(* with bh1750.c and bh1750_io_nxp_i2c.c, and the thermal task that        *)
(* Kconfig selects (amg8833_task.c with amg8833.c, or mlx90640_task.c with *)
(* the register traffic of mlx90640.c).                                    *)
(*                                                                         *)
(* A call of i2c_bus.c holds its mutex for one transfer: one step.  The    *)
(* watchdogs run on the system work queue between the transfers.           *)
(***************************************************************************)
EXTENDS Integers

LOW   == "0x23"        \* BH1750_ADDR_LOW
HIGH  == "0x5C"        \* BH1750_ADDR_HIGH
THERM == "thermal"     \* 0x69 or 0x33
Tasks == {"lux", "therm"}

VARIABLES
    therm_kind,        \* CONFIG_APP_THERMAL_AMG8833 or ..._MLX90640
    attached,          \* addresses that answer on the bus
    selected, wedged,  \* i2c_bus: s_selected; the engine needs a new latch
    pc,                \* per task: where its thread is
    task_running, s_probing, watchdog,
    found,             \* lux: addresses that answered the probe
    ready,             \* lux: addresses whose bh1750_t has its io hooks
    measuring,         \* addresses put into measuring mode
    sp,                \* mlx: sub-pages read for this image
    lux_s,             \* lux: the sample being taken
    s_last,            \* per channel: outcome in the last sample, "none" before it
    absent_traffic     \* a task used the bus after it had found no sensor at all

bus_vars  == <<therm_kind, attached>>
task_vars == <<task_running, s_probing, watchdog>>
dev_vars  == <<found, ready, measuring, sp, lux_s>>
sen_vars  == <<bus_vars, selected, wedged, pc, task_vars, dev_vars, s_last, absent_traffic>>

SenInit ==
    /\ therm_kind \in {"amg", "mlx"}
    /\ attached \in SUBSET {LOW, HIGH, THERM}
    /\ selected = FALSE /\ wedged = TRUE
    /\ pc = [t \in Tasks |-> "none"]
    /\ task_running = [t \in Tasks |-> FALSE]
    /\ s_probing = [t \in Tasks |-> FALSE]
    /\ watchdog = [t \in Tasks |-> FALSE]
    /\ found = {} /\ ready = {} /\ measuring = {} /\ sp = 0
    /\ lux_s = [a \in {LOW, HIGH} |-> "none"]
    /\ s_last = [a \in {LOW, HIGH, THERM} |-> "none"]
    /\ absent_traffic = FALSE

-----------------------------------------------------------------------------
(***************************************************************************)
(* i2c_bus.c.  An attached device answers, or not; one that is not there   *)
(* never does.  The first use latches the engine, and a failed transfer    *)
(* latches it again, except a failed probe.                                *)
(***************************************************************************)
Outcomes(addr) == IF addr \in attached THEN BOOLEAN ELSE {FALSE}

i2c_bus_transfer(ok) == selected' = TRUE /\ wedged' = FALSE

i2c_bus_probe(ok) == selected' = TRUE /\ wedged' = ((selected /\ wedged) \/ ~ok)

-----------------------------------------------------------------------------
(***************************************************************************)
(* Starting, stopping, and the watchdog (the mlx task has none).           *)
(***************************************************************************)
\* Nothing in the program starts a task again after it ended.
task_start(t) ==
    /\ ~task_running[t] /\ pc[t] = "none"
    /\ task_running' = [task_running EXCEPT ![t] = TRUE]
    /\ s_probing' = [s_probing EXCEPT ![t] = FALSE]
    /\ watchdog' = [watchdog EXCEPT ![t] = (t = "lux" \/ therm_kind = "amg")]
    /\ pc' = [pc EXCEPT ![t] = "sleep"]
    /\ UNCHANGED <<bus_vars, selected, wedged, dev_vars, s_last, absent_traffic>>

task_stop(t) ==
    /\ task_running[t]
    /\ task_running' = [task_running EXCEPT ![t] = FALSE]
    /\ UNCHANGED <<bus_vars, selected, wedged, pc, s_probing, watchdog, dev_vars, s_last,
                   absent_traffic>>

watchdog_fn(t) ==
    /\ watchdog[t]
    /\ watchdog' = [watchdog EXCEPT ![t] = FALSE]
    /\ task_running' = [task_running EXCEPT ![t] = @ /\ ~s_probing[t]]
    /\ UNCHANGED <<bus_vars, selected, wedged, pc, s_probing, dev_vars, s_last, absent_traffic>>

-----------------------------------------------------------------------------
(***************************************************************************)
(* lux_task: hw_init probes both addresses, then initialises both devices  *)
(* and sets the mode of the ones it believes found: found1 is the answer   *)
(* of HIGH but guards the device at LOW, and the other way round.          *)
(***************************************************************************)
Goto(t, l) == pc' = [pc EXCEPT ![t] = l]

\* hw_init is over: the task loops, also when it found nothing.
InitOver(t) ==
    /\ s_probing' = [s_probing EXCEPT ![t] = FALSE]
    /\ watchdog' = [watchdog EXCEPT ![t] = FALSE]
    /\ UNCHANGED task_running

LuxProbe(addr, from, to) ==
    /\ pc["lux"] = from
    /\ s_probing' = [s_probing EXCEPT !["lux"] = TRUE]
    /\ \E ok \in Outcomes(addr) :
          /\ i2c_bus_probe(ok)
          /\ found' = found \cup (IF ok THEN {addr} ELSE {})
    /\ Goto("lux", to)
    /\ UNCHANGED <<bus_vars, task_running, watchdog, ready, measuring, sp, lux_s, s_last, absent_traffic>>

\* The bus driver is not ready: hw_init ends before it probes.
LuxNoBus ==
    /\ pc["lux"] = "sleep"
    /\ InitOver("lux") /\ Goto("lux", "read1")
    /\ UNCHANGED <<bus_vars, selected, wedged, dev_vars, s_last, absent_traffic>>

\* Mutant: the devices get their io hooks before the probe was looked at.
M_LuxFound ==
    /\ pc["lux"] = "probed"
    /\ ready' = {LOW, HIGH}
    /\ IF found = {} THEN InitOver("lux") /\ Goto("lux", "read1")
       ELSE watchdog' = [watchdog EXCEPT !["lux"] = FALSE] /\ Goto("lux", "mode1")
            /\ UNCHANGED <<task_running, s_probing>>
    /\ UNCHANGED <<bus_vars, selected, wedged, found, measuring, sp, lux_s, s_last, absent_traffic>>

LuxFound ==
    /\ pc["lux"] = "probed"
    /\ IF found = {} THEN InitOver("lux") /\ Goto("lux", "read1") /\ UNCHANGED ready
       ELSE /\ watchdog' = [watchdog EXCEPT !["lux"] = FALSE]
            /\ ready' = {LOW, HIGH}
            /\ Goto("lux", "mode1")
            /\ UNCHANGED <<task_running, s_probing>>
    /\ UNCHANGED <<bus_vars, selected, wedged, found, measuring, sp, lux_s, s_last, absent_traffic>>

\* bh1750_set_mode: power on and opcode; a failure ends hw_init.
LuxMode(addr, guard, from, to) ==
    /\ pc["lux"] = from
    /\ \/ /\ guard \in found
          /\ \E ok \in Outcomes(addr) :
                /\ i2c_bus_transfer(ok)
                /\ measuring' = measuring \cup (IF ok THEN {addr} ELSE {})
                /\ IF ok /\ to # "read1" THEN UNCHANGED task_vars ELSE InitOver("lux")
                /\ Goto("lux", IF ok THEN to ELSE "read1")
       \/ /\ guard \notin found
          /\ IF to # "read1" THEN UNCHANGED task_vars ELSE InitOver("lux")
          /\ Goto("lux", to)
          /\ UNCHANGED <<selected, wedged, measuring>>
    /\ UNCHANGED <<bus_vars, found, ready, sp, lux_s, s_last, absent_traffic>>

\* bh1750_read_lux_x100: without io hooks it fails before it reaches the bus.
LuxRead(addr, from, to) ==
    /\ pc["lux"] = from
    /\ from = "read1" => task_running["lux"]
    /\ IF addr \in ready
       THEN \E ok \in Outcomes(addr) :
              /\ i2c_bus_transfer(ok)
              /\ lux_s' = [lux_s EXCEPT ![addr] = IF ok THEN "ok" ELSE "err"]
              /\ absent_traffic' = (absent_traffic \/ found = {})
       ELSE /\ lux_s' = [lux_s EXCEPT ![addr] = "err"]
            /\ UNCHANGED <<selected, wedged, absent_traffic>>
    /\ s_last' = IF from = "read2"
                 THEN [s_last EXCEPT ![LOW] = lux_s'[LOW], ![HIGH] = lux_s'[HIGH]]
                 ELSE s_last
    /\ Goto("lux", to)
    /\ UNCHANGED <<bus_vars, task_vars, found, ready, measuring, sp>>

LuxStops ==
    /\ pc["lux"] = "read1" /\ ~task_running["lux"]
    /\ Goto("lux", "ended")
    /\ UNCHANGED <<bus_vars, selected, wedged, task_vars, dev_vars, s_last, absent_traffic>>

LuxTask ==
    \/ LuxNoBus
    \/ LuxProbe(HIGH, "sleep", "inter") \/ LuxProbe(LOW, "inter", "probed")
    \/ LuxFound
    \/ LuxMode(LOW, HIGH, "mode1", "mode2") \/ LuxMode(HIGH, LOW, "mode2", "read1")
    \/ LuxRead(LOW, "read1", "read2") \/ LuxRead(HIGH, "read2", "read1") \/ LuxStops

-----------------------------------------------------------------------------
(***************************************************************************)
(* The thermal task: one that does not find or cannot set up its sensor    *)
(* ends.                                                                   *)
(***************************************************************************)
ThermEnds ==
    /\ task_running' = [task_running EXCEPT !["therm"] = FALSE]
    /\ Goto("therm", "ended")

ThermProbe ==
    /\ pc["therm"] = "sleep"
    /\ s_probing' = [s_probing EXCEPT !["therm"] = (therm_kind = "amg")]
    /\ \E ok \in Outcomes(THERM) :
          i2c_bus_probe(ok) /\ Goto("therm", IF ok THEN "init" ELSE "fail")
    /\ UNCHANGED <<bus_vars, task_running, watchdog, dev_vars, s_last, absent_traffic>>

SetUp(ok) ==
    /\ pc["therm"] = "init"
    /\ measuring' = measuring \cup (IF ok THEN {THERM} ELSE {})
    /\ Goto("therm", IF ok THEN "setup" ELSE "fail")
    /\ UNCHANGED <<bus_vars, task_vars, found, ready, sp, lux_s, s_last, absent_traffic>>

\* PCTL, RST, FPSC and INTC are written.
amg8833_init ==
    /\ therm_kind = "amg"
    /\ \E ok \in Outcomes(THERM) : SetUp(ok) /\ i2c_bus_transfer(ok)

\* A second probe, refresh rate, chess mode and the EEPROM.
mlx90640_init ==
    /\ therm_kind = "mlx"
    /\ \/ SetUp(FALSE) /\ i2c_bus_probe(FALSE)
       \/ \E ok \in Outcomes(THERM) : SetUp(ok) /\ i2c_bus_transfer(ok)

ThermReady ==
    /\ pc["therm"] \in {"setup", "fail"}
    /\ s_probing' = [s_probing EXCEPT !["therm"] = FALSE]
    /\ watchdog' = [watchdog EXCEPT !["therm"] = FALSE]
    /\ IF pc["therm"] = "fail" THEN ThermEnds ELSE Goto("therm", "read") /\ UNCHANGED task_running
    /\ UNCHANGED <<bus_vars, selected, wedged, dev_vars, s_last, absent_traffic>>

ThermReads(ok) ==
    /\ pc["therm"] = "read" /\ task_running["therm"]
    /\ i2c_bus_transfer(ok)
    /\ UNCHANGED <<bus_vars, pc, task_vars, found, ready, measuring, lux_s, absent_traffic>>

amg8833_read_frame ==
    /\ therm_kind = "amg"
    /\ \E ok \in Outcomes(THERM) :
          ThermReads(ok) /\ s_last' = [s_last EXCEPT ![THERM] = IF ok THEN "ok" ELSE "err"]
    /\ UNCHANGED sp

\* One sub-page, which may also time out or fail its verification; an image is
\* two of them.
mlx90640_get_frame ==
    /\ therm_kind = "mlx"
    /\ \E ok \in Outcomes(THERM) :
          /\ ThermReads(ok)
          /\ sp' = IF ok /\ sp = 0 THEN 1 ELSE 0
          /\ s_last' = [s_last EXCEPT ![THERM] =
                           IF sp' = 1 THEN @ ELSE IF ok THEN "ok" ELSE "err"]

ThermStopped ==
    /\ pc["therm"] = "read" /\ ~task_running["therm"]
    /\ Goto("therm", "ended")
    /\ sp' = 0
    /\ UNCHANGED <<bus_vars, selected, wedged, task_vars, found, ready, measuring, lux_s,
                   absent_traffic>>

AmgStops == therm_kind = "amg" /\ ThermStopped /\ UNCHANGED s_last

\* An image that was begun is still published, without an error, even when the
\* stop came before its first sub-page.
MlxStops ==
    /\ therm_kind = "mlx" /\ ThermStopped
    /\ \/ sp = 0 /\ UNCHANGED s_last
       \/ s_last' = [s_last EXCEPT ![THERM] = "ok"]

ThermTask ==
    \/ ThermProbe \/ amg8833_init \/ mlx90640_init \/ ThermReady
    \/ amg8833_read_frame \/ mlx90640_get_frame \/ AmgStops \/ MlxStops

\* A device is plugged in or pulled out.
Plug ==
    /\ \E a \in {LOW, HIGH, THERM} :
          attached' = IF a \in attached THEN attached \ {a} ELSE attached \cup {a}
    /\ UNCHANGED <<therm_kind, selected, wedged, pc, task_vars, dev_vars, s_last, absent_traffic>>

SenNext ==
    \/ \E t \in Tasks : task_start(t) \/ task_stop(t) \/ watchdog_fn(t)
    \/ LuxTask \/ ThermTask \/ Plug

SenSpec == SenInit /\ [][SenNext]_sen_vars

-----------------------------------------------------------------------------
\* A task that found no sensor never uses the bus again (its failing transfers
\* would stall the radio): the thermal task ends and reports that it does not
\* run, and the lux task goes on publishing errors without a transfer.
AbsentSensorQuiet ==
    /\ ~absent_traffic
    /\ pc["therm"] = "ended" => ~task_running["therm"]
    /\ s_last[THERM] = "ok" => THERM \in measuring
    /\ \A a \in {LOW, HIGH} : s_last[a] = "ok" => found # {}
=============================================================================
