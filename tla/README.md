# Verification of the ZCube hub firmware (FRDM-RW612)

TLA+ modules, TLC configurations and TLAPS proofs for the firmware in `src/app`,
a Zephyr application for the NXP RW612: a Bluetooth-provisioned Wi-Fi station
with a TCP link to a server, firmware update over HTTP or BLE, a Matter hub
front-end, infrared receive and transmit, LEDs, thermal and light sensors, a
radar and a rotary encoder. `PROJECT.json` lists components, runs, mutants, the
map from definitions to source lines, findings, hazards and theorems.

## 1. Inventory

| Component | State | Operations | What makes it hard | What makes it correct |
|---|---|---|---|---|
| OTA core, `ota/app_ota.c` | `s_st` (state, error, bytes, total), `s_img_ready`, `s_upload_fa`, `s_cb`, the flash slot, MCUboot's trailer, reboot latch and thread | init, begin, chunk, commit, abort, get_status, reboot_after_ms | called by several threads; checks made before the lock; the callback made after it; flash errors half-way; reset during an erase | the slot holds what the status says; only a whole image is handed to MCUboot; a commit is followed by a reset |
| HTTP download, `ota/app_ota_http.c` | `s_running`, `s_state`, options, the task's request, sink and body counters | start, stop, the task: request, redirect, resume, stream, commit, fail | blocking calls between test and use; stop and start against a live task; an arbitrary server | chunks go where the session is; every download ends, endless framing lines apart; a new one can always be started |
| BLE OTA service, `svc_ota.c` | `s_last_pdu` | CTRL opcodes, STATUS | same session as the download | STATUS is the session's state |
| Wi-Fi station, `wifi/app_wifi.c` | `s_started`, `s_connected`, `s_retry_idx`, two delayable and one plain work item | init, connect, disconnect, event handlers, retry, timeout | two threads; timer against driver event; late events | every request ends; a reset is final; bands are tried in order |
| TCP client, `tcp/app_tcp_client.c` | `s_sock`, `s_running`, `s_connected`, backoff | start, stop, send, the task | stop against connect, publish and receive; descriptors are shared | no leak; send only to the server; stop stops |
| Application glue, `app_main_zephyr.c` | `s_nvram_cfg`, work items, status snapshot | wifi_cb, prov_cb, tcp_rx_cb, start-up, main loop | callbacks on four threads share the record | the record in use is the one last committed |
| TCP server, `tcp/app_tcp_server.c` | listening and client socket, `s_running`, thread | start, stop, send, accept loop | stop against accept, publish and receive; shared descriptors | closes what it opened and nothing else; a stopped server ends |
| Provisioning, `svc_prov.c`, and NVRAM, `nvm/` | staged record, stored record | field writes, commit, reset, load, save | deferral to the work queue; a write torn by a reset | what is loaded was committed |
| Matter hub, `matter/`, `svc_matter.c` | commissioning window, prefs in RAM and flash | init, open, close, fabric, factory reset, tick | the tick is preempted between its reads and stores and skips seconds; a save or a load fails; power loss | a window closes at its end and not before; what a client was told is stored stays stored |
| IR receive, `ir/ir_rx_nxp_gpio_ctimer.c` | two symbol buffers, phase, gap work | start, stop, edge interrupt, gap work | interrupt against work queue | a frame holds only what was captured for it |
| IR codec, `ir_decode.c`, `ir_codec_samsung_ac.c`, `ir_rx_frame_cb` | collected sections | encode, decode, assemble | overlapping tolerances, nibble-split checksum, damaged receptions | what is sent is decoded; sections stay with their section 0 |
| IR transmit, `ir_aircon.c`, `ir_tx_zephyr.c`, `svc_ir.c` | cached state, static symbol buffers, two mutexes, two semaphores | commands of two threads, transmit thread | timeout with the frame still on the wire; buffers shared | success means emitted; cached power follows |
| LEDs, `leds/`, `svc_led.c` | pattern, colour, brightness, counter, pixels | commands, tick | command between ticks | the strip shows the reported status |
| Sensors and I2C, `sensors/`, `i2c_bus.c` | task flags, probe results, last samples, bus latch | start, stop, probe, poll, watchdog | absent or failing devices; stop and watchdog against a probe | a task without a sensor stays off the bus |
| Radar, `radar/` | two buffers lent to the UART driver | start, stop, driver events | error, restart and stop interleave | a buffer is lent once |
| Rotary encoder, `rotary_enc/` | quadrature state, counts | interrupt, poll, main loop | edges faster than the interrupt | count follows the shaft |
| Audio, status and control services, BLE central | last report | callbacks | | |

Calls and messages between them: `prov_cb` (Bluetooth host) submits
`prov_connect_work` and `prov_reset_work` to the system work queue, which call
`app_wifi_connect` and `app_wifi_disconnect`/`app_tcp_client_stop`; `app_wifi`
reports to `wifi_cb` (net_mgmt thread or work queue), which starts and stops the
TCP client; data from the server reaches `tcp_rx_cb` on the client's thread,
which can call `app_ota_http_start`; the download and the BLE service call
`app_ota`, whose callback feeds the STATUS characteristic.

## 2. Modules

| Module | Models | Used by |
|---|---|---|
| `OtaSlot` | abstract contract of the upload slot: closed, open with a prefix, sealed | `AppOta` (INSTANCE) |
| `AppOta` | `app_ota.c` | `MCAppOta`, `OtaHttp`, `AppOtaProofs` |
| `AppOtaProofs` | theorems about `AppOta` | `OtaHttpProofs` |
| `OtaHttp` | `app_ota_http.c`, `svc_ota.c`, composed with `AppOta` | `MCOtaHttp` |
| `OtaHttpProofs` | theorems about `OtaHttp`, on top of `AppOtaProofs` | |
| `WifiSta` | `app_wifi.c` with the glue that drives it | `MCWifiSta` |
| `WifiStaProofs` | theorems about `WifiSta` | |
| `TcpClient` | `app_tcp_client.c` and its socket table | `MCParts`, `TcpClientProofs` |
| `TcpClientProofs` | theorems about `TcpClient` | |
| `Provisioning` | `svc_prov.c`, `app_nvram.c`, `nvs_backend.c` and the glue | `MCParts`, `ProvisioningProofs` |
| `ProvisioningProofs` | theorems about `Provisioning` | |
| `TcpServer` | `app_tcp_server.c` and its socket table | `MCServices`, `TcpServerProofs` |
| `TcpServerProofs` | theorems about `TcpServer` | |
| `IrSend` | `ir_aircon.c`, `ir_tx_zephyr.c`, `svc_ir.c` | `MCServices`, `IrSendProofs` |
| `IrSendProofs` | theorems about `IrSend` | |
| `IrReceive` | `ir_rx_nxp_gpio_ctimer.c` | `MCParts` |
| `IrDecode` | `ir_codec_samsung_ac.c`, `ir_decode.c`, `ir_rx_frame_cb` of the glue | `MCParts` |
| `MatterHub` | `matter_hub_core.c`, `matter_prefs.c`, `svc_matter.c`, the main loop's tick | `MCParts` |
| `LedTask` | `led_task_zephyr.c`, `led_strip_zephyr.c`, `svc_led.c` | `MCParts` |
| `SensorTasks` | `i2c_bus.c`, the lux and thermal tasks, their drivers' transfers | `MCParts` |
| `Rotary` | `rotary_enc.c`, the main loop's button | `MCParts` |
| `Radar` | `app_radar_zephyr.c` | `MCParts` |
| `DeviceProofs` | theorems about the seven device modules above (`IrReceive` to `Radar`), the codec last | |

**AppOta.** Each caller has a location `pc[c]`. A call is split where another
thread can get in: unlocked checks (`...Call`), the section under `s_lock`
(`...Body`, `ChunkWrite`, `...Refused`), the callback after the unlock (`Emit`),
the reboot request after the callback (`CommitReboot`). `emit_status_locked_unlock`
is `StoreAndUnlock` followed by `Emit`. Sections under the lock are one step,
because nobody else can see their middle; the erase is the exception, since a
reset can (`EraseSector`, `EraseEnd`). Bytes are abstracted to a set of
programmed cells, the trailer to `marked`, the size of the image MCUboot was
asked for. Flash errors are nondeterministic: an open fails, an erase stops
half-way, a write programs some of its cells, a boot request fails before or
after writing the trailer. `RebootTask` resets all RAM; MCUboot then consumes
the trailer and leaves some contents in the slot.

**OtaHttp.** Extends `AppOta`: the download task is one of the callers, its own
location is `hpc`; the other threads are the starters (shell, TCP client thread)
and the Bluetooth host. Every call into `app_ota` is made with the actions of
`AppOta`, a step at a time. URL and header parsing are abstracted to outcomes:
an unusable answer, a redirect, 200 with a length, 206 with a range. The body of
header.bin is read part by part (`part`): of fixed length, or in chunks of size
line, data and CRLF, and a trailer. The data is bounded by `s_signed_hdr`
(`HeaderMax`); a size line and the trailer are not bounded at all, and the only
thing their loops look at between two recvs is `s_running`. The 32-bit subtraction for the length of a range keeps its wrap (`% U32`).
Re-creating a thread that is alive makes `http_thread` "corrupt"; the model
stops there, since anything could follow.

**WifiSta.** The net_mgmt thread handles the events of `evq` in order, the work
queue the items of `wq` in order. Both threads are cooperative (the Zephyr
defaults, not changed by `prj.conf`), so a handler runs until it makes a request
to the driver, and is split there (`wpc`, `mpc`). `Submit`, `Without` and the
expiry actions are Zephyr's work API as used here; driver and access point are
external: they refuse, answer late or never, lose the link. `goal` and `tried`
are history variables for the properties.

**TcpClient.** `fdtab` says who opened each descriptor. The task is split at
each blocking call and at each lock; `app_tcp_client_stop` at its lock.
Restarting a client whose task is still alive falsifies `Defined`; the model
stops there, since anything could follow (see the deviations below).

**Provisioning.** The Bluetooth host handles one GATT write at a time; a COMMIT
or RESET is split around its flash operation (`bpc`), because the work queue and
READY can come in between. `boot` is how far `bt_ready_cb` is: advertising
starts before `app_prov_init`, so every GATT write is also possible before it.
`stored` is the NVS entry and survives `Reboot`; a save, a load or a delete can
fail. A load that finds a record of another length cannot happen: only
`app_nvram_save` writes the entry, always the whole structure; records of other
firmware versions are outside the model. Of the station only `target`, what it was last asked to join, is kept.
`excused` is a history variable: the cases in which the code does not make the
station follow the flash, spelled out at `StationFollowsFlash`.

**TcpServer.** The server's task is split like the client's, at accept, recv and
each lock; `ls` and `cs` are its local descriptors, which outlive the published
ones after a stop. `accept` and `recv` may return at any time with an error.

**IrSend.** Two threads call `ir_aircon`: the main loop and the Bluetooth host,
which is cooperative; the transmit thread lies between them in priority and
busy-waits while it emits. `pc` walks a call through its locks: encode into the
static symbols, copy into `s_buf`, wait for `s_done` or the timeout. A frame is
its identity, not its pulses; emission is split in two, so that a buffer
overwritten half-way shows. `unit` is the power of the air conditioner at the
other end, `clean` and `sent` are history variables.

**IrReceive.** A duration is replaced by the epoch (capture period) it was
measured in, so the contents of a buffer say when they were written.

**IrDecode.** The codec in full: bytes, bits, marks and spaces in microseconds,
checked on frames that a reference receiver distorts as far as the decoder's
tolerance allows (`Captured`). The collection of sections over several damaged
receptions is an action of its own (`FrameCb`): like the code it compares the
bytes of sections 0, so that frames which share one are taken for the same
button. `anchor` and `reported` are history variables: with which section 0 each
section came, and what was reported.

**MatterHub.** A command is one step (cooperative thread). The main loop is
preemptible: the tick is a step for each of its reads and stores. The clock is
free, so any number of seconds can pass between two ticks or within one. The
tick does not run before `s_ble_ready`. `acked` is what the client was last told
is stored; `replaced`, `unsaved`, `raced` and `lost` are history variables too.

**LedTask.** Colours are computed as in the code: brightness scaling, breathing
envelope, hue, strobe, for both strips. `wire` is what the LEDs were last sent,
`override` a history variable with the colours set by hand.

**SensorTasks.** Each transfer is a step, with the bus mutex held; the outcome
is free for an attached device and failure for an absent one, and `Plug` attaches
and detaches. `task_running` are the `s_running` flags of the tasks. Both thermal
tasks are modelled, as Kconfig selects one.

**Rotary, Radar.** Interrupt and driver events as actions. The encoder's
initialisation is split at each call that can fail and between the callbacks of
its two pins; `enc_state` is its `s_state`. The UART driver is external: it asks
for a buffer, fills, returns, disables.

**MCParts** composes the TCP client, provisioning and the seven device modules,
**MCServices** the TCP server and infrared sending, whose runs also check
progress. The parts of each share no state, so each behaviour picks one of them at
the start (`focus`), which gives the sum of their state spaces instead of the
product and loses no case. Codec and assembly are two focuses of `IrDecode`.

## 3. Runs

| Run | Shows | Bounds |
|---|---|---|
| `ota_core` | `TypeOK`, `StagedPrefix`, `CommittedComplete`, `PendingImageStable`, refinement of `OtaSlot`, `CommitReboots` under fairness | 2 callers, slot of 2 cells, sizes and chunks one beyond what is accepted |
| `http_download` | `HttpTypeOK`, `StreamAligned`, `DoneMeansStaged`, `NoLockout`, `DownloadEnds` | download and shell, slot of 2, pieces of 1 and 2, 1 redirect, a header buffer of 2, all options, 2^32 scaled to 4 |
| `http_with_ble` | `StatusFreshBeforeHttp` | download and Bluetooth host, slot of 1 |
| `wifi_station` | `WifiTypeOK`, `ResetQuiesces`, `AttemptEnds` under fairness | both bands, 2 waiting events |
| `services`, server | `NoServerFdLeak`, `OthersKept`, `SendServed`, `StopEndsTask` under fairness | 3 descriptors, 2 stoppers, 1 other socket user; unbounded in time |
| `services`, infrared | `IrTypeOK`, `FrameSent`, `PowerFollows`, `SendReturns` under fairness | all commands, 2 temperatures, arguments below, inside and above each range |
| `parts`, client | `TcpTypeOK`, `NoFdLeak`, `SendCurrent` | 2 stoppers, 1 other socket user, 2 descriptors |
| `parts`, prov | `ProvTypeOK`, `OnlyValidRecords`, `CommittedStored`, `StationFollowsFlash` | one or two values of each field, unusable ones among them; unbounded in time |
| `parts`, capture | `FrameFresh` | 2 symbols per buffer, epochs modulo 3 |
| `parts`, codec | `DecodesWhatWasSent`, `ChecksumGuards` | 464 frames of one to three sections, NEC and LG, each with short and long marks and spaces; every single-bit error of a section; every temperature a byte can hold |
| `parts`, assembly | `SectionsAgree` | the frames `on_21`, `off_21` and `on_14` of `ir_aircon.c`; every set of damaged sections |
| `parts`, matter | `PrefsDurable`, `WindowTimed` | 2 fabrics, 4 s of uptime, windows of 1 and 2 s |
| `parts`, leds | `StripShowsStatus` | 2 LEDs of both kinds, periods that divide 6 ticks |
| `parts`, sensors | `AbsentSensorQuiet` | both thermal sensors, every set of attached devices |
| `parts`, rotary | `CountTracksShaft` | 3 quarter steps either way, 2 presses |
| `parts`, radar | `BuffersLentOnce` | the code's two buffers; unbounded in time |

Two callers are enough for every pairwise race of `app_ota`, and the proofs
remove the bound. A slot of two cells distinguishes empty, partial and whole
images, chunks that fit, overlap, leave a hole and overrun. Two waiting events
let a late result queue behind a disconnect event; the third adds none of the
code's cases, since each handler looks at one event. Three descriptors let the
other user take each number the server frees while the task still has it. Two
symbols and three epochs tell the frame being read from the one before and the
one being captured, and fill a buffer. Four seconds let a window end, another
open and end. The LED periods are scaled so that all of them divide 6 ticks; a
behaviour then passes each phase of each pattern. All runs check for deadlock. In
`parts` a decoded frame is final and the clock of the hub and the counters of the
encoder stop at their bounds; there, and only there, the model may rest (`Rests`).

Each `v_...` run takes a sentence of a comment or document as its property and
is violated; the findings below quote the sentence.

* `WholeAtReset`: `app_ota_begin` erases the slot of a committed image while
  the reboot is pending. MCUboot will refuse the image (it checks the
  signature), so the update is lost, not the device.
* `StartOnlyWhenFree`: stop then start re-creates the static download thread
  while it is alive.
* `BandsAllTried`: timeout and failure event both advance the band.
* `WindowHasEnd`: the tick closes a commissioning window with two stores. A window
  opened between them is active with end 0, and no tick ever closes it.
* `PixelHonoured`: `led_task.h:64-66` promises that a single LED set by hand keeps
  its colour while the pattern is SOLID or OFF; the tick overwrites it there too.
* `OneButton`: the frame assembly takes equal sections 0 for the same button, but
  `on_21` and `on_14`, frames for two temperatures, share theirs
  (`ir_aircon.c:28`, `:40`). When section 1 of the first is damaged and the second
  follows, a frame is reported that no button sends, although each of its sections
  came with an intact section 0. `SectionsAgree` is what does hold.

Other deviations met while modelling, which have no run of their own. Where a
property excludes one, its comment names it.

* OTA: a server that never ends a size line, or the trailer, of header.bin keeps
  the download task until an `ota stop` (`app_ota_http.c:328`, `:448`). An `ota stop` after the last chunk is not noticed, the image is
  committed (`app_ota_http.c:832`). Two starters can both run `app_ota_init`
  (`app_ota_http.c:871`). The first download removes the BLE service's
  callback, after which STATUS is stale.
* Wi-Fi: the connect timer is armed after the request returns and can
  disconnect a station that has joined meanwhile (`app_wifi.c:134`); a DHCP
  event handled after a disconnect reports CONNECTED; the fallback timer reports
  READY without the interface.
* TCP client: a stop between connect and publish is lost; stop and task can
  close the same descriptor number twice, the second time another user's; stop
  and start re-create the live thread (also the server's).
* TCP server: a stop between accept and publish leaves that client served until
  it leaves; after a stop `recv` can be called with a number another user has
  opened since.
* Provisioning: a RESET before READY erases the flash but not `s_nvram_cfg`,
  with which READY then joins the network. `s_nvram_cfg` is copied on one thread
  while another loads it.
* IR transmit: a raw Samsung frame is encoded without `s_mtx`, over the symbols
  of a call that holds it; raw symbols may take longer than the three-second
  timeout, against `ir_aircon.h:70` ("Blocks until the IR frame leaves the
  wire"); the carrier of RAW_SYMBOLS stays set for later frames; TEMP UP and
  DOWN send learned frames, not the cached state (`ir_aircon.h:13`).
* IR receive: the last entry of a frame that overflowed has a measured space,
  against `ir_rx.h:62`. A NEC frame whose second and third bytes are inverse is
  reported as LG. Sections of two buttons are also mixed when the section 0 of the
  second was damaged (a TODO in the code).
* Matter: a window opened between the tick's test and its first store is closed
  with the one before; one opened before the first tick is timed from a zero
  clock; an initialisation that cannot read the record saves the defaults over
  it (`matter_hub_core.c:94-96`).
* LEDs: the APA102 is sent the brightness twice, in the channels
  and in the five-bit field.
* Sensors: a failed probe does not latch the bus again; when only the second
  light sensor is found, or only the first, readings of one that was never
  configured can be reported without error, against `lux_task.h:31`; an MLX90640 image
  interrupted by a stop is published without error; the write of its STATUS
  register is verified by reading back a register that the sensor changes.
* Rotary: two presses within a second skip an action; a turn during
  `rotary_enc_init` is lost.
* Radar: an error between `uart_rx_enable` and `s_running = true` is not
  followed by a restart; a second start while running resets `s_buf_idx`.
* Control service: `svc_ctrl.c:82` says that the application may overwrite the
  response; the code sends OK after the callback, so it cannot.

### Fairness

* `AppOta`: a thread past its locked section runs on, and `reboot_task` wakes.
  Neither blocks. Nothing is assumed of threads that wait for the lock.
* `OtaHttp`: the download task runs on. Its socket has a send and a receive
  timeout, the connect ends, and `app_ota` calls end. Nothing of other threads,
  and nothing of the server: that it ends its size lines and its trailer is not
  assumed, and `DownloadEnds` names the behaviours in which it does not.
* `WifiSta`: both threads run on and an armed timeout expires. Nothing is
  assumed of the driver. `AttemptEnds` is about a user who at some point stops
  issuing commands: each command starts the attempt over.
* `TcpServer` (in `services`, when it is the focus; likewise `IrSend`): the task is scheduled and a thread in stop gets the lock. `accept`
  and `recv` return for sure only when a stop has closed their descriptor;
  nothing is assumed of the peers.
* `IrSend`: weak fairness for the Bluetooth host, which nothing preempts; strong
  fairness for the main loop and the transmit thread, which run whenever the
  host leaves the processor often enough. Timeouts need not expire: each wait
  ends without them.

## 4. Proofs

Every safety property of a passing run is a theorem for every value of the
constants: any number of callers, stoppers and socket users, any slot, table,
buffer or strip size, any arguments, any infrared frame.
The bounds that exist only for TLC (`Epochs`, `MaxUptime`, `MaxPosition`,
`MaxPresses`, `MaxEvents`) are constants of the theorems too, so they hold for
every such bound. A theorem rests on the assumption of its module and on nothing
else, unless the text below names more; each assumption is evaluated by TLC in
the run that extends that module.

| Module | Assumption | Theorems |
|---|---|---|
| `AppOtaProofs` | `SlotAssumption` (the slot is not empty), `ArgAssumption` (arguments are naturals), `NoneAssumption` | `TypeCorrect`, `StagedPrefixInvariant`, `CommittedCompleteInvariant`, `PendingImageStableHolds`, `SlotRefinement`, `RebootThreadOnce`, `CommittedOwesReboot`, `RebootIsNotLost` |
| `OtaHttpProofs` | those, `HttpAssumption` (the threads are distinct, a receive buffer is not empty, 2^32 exceeds the slot) | `HttpTypeCorrect`, `NoLockoutInvariant`, `SharedSessionSafe`, `StatusIsFresh`, `DownloadAdvances`; with `OneClient` also `StreamIsAligned`, `DoneIsStaged` |
| `WifiStaProofs` | `WifiAssumption` (there is a band) | `WifiTypeCorrect`, `ResetIsQuiet`, `AttemptIsCarried` |
| `TcpClientProofs` | `TcpAssumption` (a finite table, ordered backoff bounds) | `TcpTypeCorrect`, `NoFdLeakInvariant`, `SendCurrentInvariant` |
| `TcpServerProofs` | `SrvAssumption` (a finite table) | `ServerLeaksNothing`, `OthersAreKept`, `SendIsServed`, `StopEndsAccept` |
| `ProvisioningProofs` | `ProvAssumption` (a port has 16 bits, "no record" is not one) | `ProvTyped`, `RecordsAreValid`, `CommittedIsStored`, `StationIsAsked` |
| `IrSendProofs` | `IrAssumption` (the code's ranges are not empty, the carrier's is above zero) | `IrTypes`, `FramesAreSent`, `PowerIsFollowed`, `SendersNeverDeadlock` |
| `DeviceProofs` | `RxAssumption`, `MatterAssumption`, `LedAssumption`, `RotaryAssumption`, `SamplesAssumption` (frames have the form their protocol prescribes) | `FramesAreFresh`, `AssemblyAgrees`, `ChecksumsGuard`, `DecodesAnyTiming`, `DecodesWhatIsSent`, `PrefsAreDurable`, `WindowsAreTimed`, `StripIsShown`, `AbsentSensorsAreQuiet`, `RotaryCounts`, `RadarBuffers` |

Each proof has the same shape: an inductive invariant, one lemma for each action
or group of actions that it is preserved, and theorems that combine them. The
invariants, and what the properties lack without them:

* **AppOta**, `IInv == TypeOK /\ LockInv /\ StagedPrefix /\ CommittedComplete`.
  The two slot invariants speak of the times when the lock is free; `LockInv`
  says what holds while it is not: the erasing caller is the owner, the session
  is closed, and its size was checked. Without it the end of the erase could
  open a session larger than the slot. One lemma for each locked section, one
  for all unlocked checks (`CallKeeps`), one for what happens after the unlock
  (`EpilogueKeeps`), which only touches per-caller state. `SlotRefinement` maps
  each step to a step of `OtaSlot` or a stutter.
* **OtaHttp** reuses these lemmas: every step of the composition is a step of
  `AppOta` with other arguments, or leaves it alone (`TaskCore`), so `IInv`
  survives (`SharedSessionSafe`). `HttpIInv` adds the types and `RunningInv`.
  `FreshIInv` says that before the first download only the Bluetooth host is
  inside `app_ota`, with its copy equal to the state or a snapshot on its way.
  `OwnIInv` says, for each location of the task, where it is inside `app_ota`,
  what the call returned and how its counters relate to the session.
  `StreamAligned` and `DoneMeansStaged` are claims about the task as the only
  client, which `OneClient` states: no `svc_ota` (the default build) and one
  thread that starts downloads. With two starters they are not theorems, since
  the second may still be inside `app_ota_init` when the first one's task streams.
* **WifiSta**. `s_retry_idx` has no bound of its own in the code: it is
  incremented by failure events, by refused requests and by timeouts, and only a
  request tests it. `IndexInv` bounds the index plus everything that can still
  increment it: failures waiting in the queue, an attempt the driver may still
  fail, a failure about to be counted, and a timeout that may still run. A
  failure event cancels the timeout, which is why a pending timeout adds one
  only while the event queue has room (`MayTimeOut`). `TimerInv` and `NoDup` (no
  item is queued twice) make a taken timeout the only one; `QuietInv` makes
  `ResetQuiesces` inductive: after a reset the table is exhausted, before the
  first connect there is no driver activity at all.
* **TcpClient**, `TcpIInv == TcpTypeOK /\ TaskInv`; **TcpServer**, `SrvIInv`:
  for each location of the task, what it holds and what it has published.
  A stop may close and withdraw a published descriptor at any moment, so a
  location only says what a descriptor is while it is published. `OthersKept`
  needs both: what the server closes, it opened.
* **Provisioning**, `ProvIInv`. Each work item is queued at most once, so the
  queue has one of five values; `Follows` says for each what the station will
  have been asked for when it is empty, before and after READY.
* **IrSend**, `IrIInv`: what holding each mutex means (`Busy`, `Owner`), that the
  symbols are still the caller's (`Encoded`), and how far the transmit thread is
  with a caller's frame (`Phase`).
* **Devices**, each from its own specification (they share no state): the
  driver's buffers follow from its state (`RadIInv`); the count is the shaft's at
  the last interrupt (`RotIInv`); the buffer being filled holds the current epoch
  only (`RxIInv`); every section that came with a section 0 is beside that one
  (`AsmInv`); the flash holds what was acknowledged, and where the tick is says
  how the window's end relates to the time it has read (`MatIInv`); a task that reads has found its
  sensor (`SenIInv`); the status follows the task (`LedIInv`). For the strip the
  step is arithmetic: scaling is monotone (`Scaled`), the envelope never
  brightens (`Dimmed`), a hue has a full and an empty channel (`PureHue`).

* **The codec** has no invariant to speak of (`DecIInv`: the result is
  `ir_decode` of the capture); its theorems are about the operators.
  - *Checksum.* A byte is the sum of its bits and determines them (`SumOfBits`,
    `BitsOfSum`), so inverting one bit changes the count of bits
    (`FlipChangesCount`). The checksum is split over nibbles of two bytes whose
    other nibbles are counted: a wrong bit changes either the count or the stored
    checksum, never both (`FlipDetected`).
  - *Decoding.* `Heard` says that each mark and each space but the last is off by
    its own error of up to a quarter, which is more than the runs try: they
    distort all marks alike and all spaces alike. A Samsung frame so heard is a
    `SacFrame`, a NEC or LG frame a `SpaceFrame`; from these shapes the readers
    return what was sent. The tolerances overlap, so a NEC header may pass for
    LG's: `NecIsNotLg` shows that the frame is then refused unless its second and
    third byte are inverse, the case that `Returns` leaves out.
  - *The loop over sections* is a recursive function, for which the prover needs
    a solution of the recursion before it may be unfolded. `BytesDecoded` exhibits
    one on a frame that was heard and unfolds it for the at most three sections
    that `ir_decode` has room for; no induction is needed.

* **What liveness rests on.** Each liveness property of the runs is an invariant
  or a measure, plus fairness. The first half is proved, for every instance:
  - `CommitReboots`: `LatchInv` (`RebootThreadOnce`) keeps the static reboot
    thread from being re-created. A COMMITTED session has its reboot owed
    (`CommittedOwesReboot`): the thread sleeps, or the committing caller has yet
    to create it. No other call, `app_ota_begin` included, cancels what is owed
    (`RebootIsNotLost`).
  - `DownloadEnds`: `<<Leg, Left>>` are naturals. `Leg` falls with every redirect
    and every phase of the task, `Left` with every step and every received byte
    inside one, so the measure falls with each step of the task and nothing else
    changes it (`DownloadAdvances`), with one exception: a recv that ends neither
    the size line nor the trailer of header.bin it is in, which the task makes
    only while `s_running` is set. The proof holds for a server that sends more or
    less than it announced.
  - `AttemptEnds`: the driver may lose its events, so a pending connect must have
    something that happens without it: a retry or timeout in the queue, an armed
    timer, or the work queue inside the attempt (`AttemptIsCarried`).
  - `StopEndsTask`: `accept` returns only if its socket is closed. A task in
    `accept` on a published socket belongs to a running server or to one whose
    stop has yet to close it (`AcceptWatched`); hence `StopEndsAccept`.
  - `SendReturns`: a caller that waits for `s_done` has it, or the transmit thread
    is triggered or emitting (`Answered`); a held `s_mtx` belongs to a caller that
    is past it (`HeldInside`). So, with the threads' priorities, someone can run
    (`SendersNeverDeadlock`). "Can run" is spelled out as the guards of the steps,
    since the prover does not reason about ENABLED.

Only model-checked: the second half, that under the fairness of section 3 these
facts lead to the end of the reboot, download, attempt, server task or call. The
prover has no rules for fairness.

## 5. Not modelled

* Bytes, signatures, URL and header syntax: abstracted to outcomes.
* MCUboot beyond the trailer: external.
* Bit timing of the LED and IR outputs, register layouts, and the MLX90640's
  floating-point calibration (about 400 lines of `mlx90640.c`): arithmetic on
  reals, out of TLC's reach. Of the sensor drivers the transfers are modelled.
* Files outside the build (`CMakeLists.txt:105-110`): `ir_tx_nxp_ctimer.c`,
  `sk6812.c`, `sk6812_io_nxp_spi.c`, `multitask_init.c`, `ble_central.c`.
* `ir_rx_deinit` and `ir_rx_inject_frame`, which nothing calls.
* Audio (a register sequence and a stub), the status and control services (a
  last value and a stub callback), the shell, OpenThread's start, and
  `matter_hub_pack_status`, which formats the hub's state for a client.
* The 32-bit counters of the rotary encoder and of the uptime do not wrap in the
  models; at the rates of the code that takes years.

## 6. Plan

Every component of the build that has control of its own is modelled, and every
safety property of the passing runs is proved. Possible extensions:

1. A common abstract descriptor table that both TCP modules refine.
2. `AppMain`: composition of Wi-Fi, TCP client and provisioning in one module,
   with the start-up order of the services. It would cover the DHCP event that is
   handled after a disconnect, which crosses two components.
