# Live Stocking: TLA+ models, checks and proofs

This directory holds the formal model of Live Stocking: TLA+ modules translated
from the source, the TLC configurations that check them on small instances, and
proofs that TLAPS checks for every value of the constants. Line numbers are
those of the commit the project stands beside; `PROJECT.json` maps every
definition to its lines.

    tlc -workers 2 -config MCMqttL2Relay.cfg MCMqttL2Relay    # one run
    tlapm MqttL2RelayProofs.tla                               # the proofs

Contents: 1 the system; 2 relay; 3 OTA updates; 4 the Function; 5 the nRF54 node;
6 the ESP32 board; 7 app, portal and installer; 8 the runs `boards` and
`nrf_node`; 9 proofs; 10 bounds and fairness; 11 observations and findings;
12 what is not modelled, and the plan.

## 1. The system

Animals carry **nRF54 nodes** with sensors, which broadcast their readings over
HaLow (802.11ah). **HT-HC33 (ESP32-S3)** boards form a BATMAN mesh over HaLow.
Some have Wi-Fi and an MQTT session (gateways); the others (leaves) reach the
broker through a gateway, over the **layer-2 relay**. The broker hands every
publish to Appwrite, which calls the **telemetry Function**; a web portal and an
Android app show the tables, and the app provisions devices over BLE.

| Component | State it keeps | Operations | Model |
| --- | --- | --- | --- |
| MQTT layer-2 relay (`firmware/src/mqtt_l2_relay.cpp`) | 4 reassembly slots, a delivery queue of 4, 16 peers | cut and send, receive and reassemble, deliver; advertise, look up and forward | `MqttL2Relay`, `RelayService`, `RelayPeers` |
| OTA updates of the ESP32 (`firmware/src/main.cpp` 315-554, 1474-1541, 1639-1762) | the result in NVS, `ota_queue` of 1, the boot image | accept a command, download, record, restart, recover, report | `OtaUpdate` |
| Telemetry Function (`function/src/main.js`) | time series; tables of latest telemetry, alarms, OTA updates, downlinks | ingest a batch; remove the row of a deleted device | `FunctionIngest` |
| nRF54 life cycle (`firmware/nrf54/src/main.c`, `edgez_config.c`, `livestocking_config.c`) | two NVS records, the profile in memory and its generation, radio, pending reboot | provisioning, settings, radio start and restart, reboot gate, button | `NrfNode` |
| nRF54 Bluetooth services (`edgez_ble.c`) | the request stream, one pending answer, a document being uploaded, advertising | writes, notifications, chunks, status, lost links | `NrfBle` |
| nRF54 sensors (`edgez_gps.c`, `edgez_imu.c`, `edgez_battery.c`) | UART ring and line, last fix, sample, cached voltage, the divider | sample, parse, age, power, build the beacon | `NrfSensors`, `NrfGps` |
| ESP32 telemetry pipeline (`main.cpp` 726-822, 1369-1472) | queues of 8 beacons and 8 readings, neighbour table | receive a beacon, report, publish, list neighbours | `EspTelemetry`, `EspTopology` |
| ESP32 provisioning and start-up (`main.cpp` 1205-1368, 1474-1762) | three NVS records, event bits, BLE manager, MQTT client | mqtt-config, Wi-Fi provisioning, restart, button, start of mesh and MQTT | `EspStartup` |
| Sensor script engine (`sensor_script.cpp`) | program in NVS and memory, command queue of 4, ports and rails, one global buffer | install, delete, run, hardware access, output | `SensorScript`, `ScriptOutput` |
| Android app (`app/App.tsx`) | session, rows, snapshots on the phone, the provisioning dialog | start, sign-in and -out, refresh, save; find, connect and configure a device | `AppSession`, `AppProvision` |
| Web portal (`site/app/page.tsx`) | session, rows, selected farm, device, range | refresh, history, select, delete | `Portal` |
| Installer (`infra/*.mjs`) | the Appwrite project's resources | install, reconcile, clean | `Installer` |
| Morse driver, nanopb, generated protobuf | - | vendored and generated | section 12 |

### How the parts interact

* nRF54 node -> ESP32: beacons, unacknowledged. ESP32 leaf -> gateway: relay
  frames with the gateway's HaLow address inside, QoS 0. Gateway -> leaf:
  commands of the broker (`commands/proxy/...`), cut into frames in the same way.
* Gateway -> broker -> Function: one call per publish; calls run concurrently and
  share only the tables, which have unique indexes and no transactions.
* Function -> app and portal: rows. App and portal -> broker -> ESP32: OTA
  commands, scripts and downlinks, over MQTT sessions that are clean, so that a
  command sent while the device is away is lost.
* App -> nRF54 over BLE: a provisioning document (MQTT record and profile), or
  EdgeZ settings packets; app -> ESP32 over BLE: Wi-Fi and MQTT credentials.
* Inside the ESP32 tasks share queues, NVS, event bits, the hardware under a mutex
  and the relay's peer table without one; inside the nRF54 the Bluetooth thread,
  the main loop, a connect thread, work queues and the UART's interrupt share the
  profile under `config_lock` and nearly everything else without a lock.
* Inside app and portal handlers, timers and effects interleave at every `await`.

### What is hard

* *Loss, repetition and reordering.* Mesh fragments, QoS 1 commands delivered
  twice, reports that leave a device only if the session lasts, answers of HTTP
  requests that are lost after the request had its effect, bytes of a UART.
* *Interleaving.* The MQTT client's task and `ota_task` read, publish and erase
  one NVS record; calls of the Function interleave at every `await`; the nRF54's
  connect thread works on a snapshot of a profile that may change meanwhile; a
  request of the app outlives the user who caused it.
* *Crash and restart.* An update ends in a restart; provisioning writes two or
  three NVS records one after the other; queues and outboxes do not survive.
* *Partial failure.* NVS writes, allocations and requests fail in the middle of a
  handler, which leaves what was written.
* *Limits.* Slots without a timeout, queues without waiting, full rings, unique
  indexes.

`PROJECT.json` lists each such place as a hazard with its line and the properties
that would notice it going wrong.

### What makes each component correct

* Relay: what is delivered is whole, unmixed and for this station; stale slots
  never keep new messages out; a slot given up is the oldest; a command goes to
  the leaf it is for as long as the leaves fit into the table.
* OTA: nobody is told of a success that did not happen; a record says "pending"
  only as long as an update that will replace it is under way; results survive until they are
  reported, and are reported in the end.
* Function: a batch is stored entirely or not at all; the history is complete;
  the current tables agree with it and with each other; updates do not stay
  pending for good.
* nRF54: acknowledged means stored, but for a long press; no failure leaves a node that nobody can
  reach; the radio ends up with the profile that is stored; it is never started
  twice; a beacon holds nothing stale; a GPS sentence is missed only if it was
  damaged; BLE requests are handled in order, a document only when complete.
* ESP32: an accepted document is stored and used; a board that runs can be
  reached; an outage costs no queued reading; the board is heard whatever its
  scripts do; scripts leave no port open, and a blob holds only its run's bytes.
* App and portal: data is shown to the user whose session fetched it; a device is
  configured with the credential that is its own; history, spinner and dialogs
  are those of the device they name.
* Installer: it can be interrupted, repeated and run beside the solution plan.

## 2. The relay: `RelayService`, `MqttL2Relay`, `RelayPeers`

`RelayService` is what the relay promises: whatever a station's callback is given
was sent to that station, whole; a message may arrive never, once or repeatedly.
`MqttL2Relay` is the relay, and implements it (`ImplementsService`, with
`sent <- SentContents`).

| Model | Code |
| --- | --- |
| `Publish`, `ForwardCommand`, `SendMessage` | `mqtt_l2_relay_publish`, `mqtt_l2_relay_forward_command`, `send_message`: the loop stops at the first frame the radio refuses |
| `Fragment`, `ChunkOf`, `Offsets` | the header and cut of each frame; the topic travels in the first fragment of a command |
| `network`, `TakeFrame` | the mesh: a frame nobody takes is lost, one taken twice is repeated, the order is free |
| `Receive` = `ForThisStation`, `FindAssembly`, `Found`, `Accepts`, `Appended`, `Reassemble` | `mqtt_l2_relay_receive` and `find_assembly`: own slot, free slot, oldest slot; in-order fragments only; the queue is tried without waiting; `heap_caps_malloc` may fail for the payload and for the delivery |
| `Deliver`, `Rejected` | `delivery_task`, which drops payloads of the kind byte alone |

A byte of the model is a run of bytes of the code, named after its message and
position, so that damage and mixing are visible. `esp_random()` ids are taken as
distinct per sender (`FreshId`). In this module `Publish` takes any gateway and
`ForwardCommand` any station, which covers whatever the peer table says.

**Run `relay`**: two gateways and a leaf, ids `i1`, `i2`, three messages of one or
two model bytes with `FragmentBytes = 2`, one repeated frame, two slots, queue of
one, allocations that may fail; about 370 000 states: `DeliveredWhole`,
`OnlyOldestGivesWay`, `FirstFragmentKept`, `ImplementsService`. Three messages are
what it takes for two slots to be full of stale assemblies when a third arrives;
commands of two bytes need two fragments because of their topic. Not explored:
messages of three or more fragments (the proofs of all four properties cover them).

`RelayPeers` is the gateway's peer table (147-176, 273-348). The file declares a
lock for it that nobody takes: `Advertise`, `WriteSerial`, `WriteMac` (the receive
callback: the entry is found, then its serial and then its address are written)
interleave with `LookUp`, `ScanEntry`, `CopyMac` (the MQTT task). A serial or an
address read while it is written may be any mix, which no leaf has (`Torn`,
`TornMac`). `CommandFindsItsLeaf` holds as long as there are no more leaves than
slots; with more, an entry may change its leaf between the match and the copy, and
the command reaches another leaf, whose topic check drops it.

## 3. OTA updates: `OtaUpdate`

One step is one access to the shared NVS record, queue or outbox. `wifiUpstream` says
whether the board has Wi-Fi, and so an MQTT session of its own. A HaLow-only leaf is
brought its commands by the relay (`HearsCommands`: `receive_relayed_mqtt_command` on
the relay's delivery task, which then stands where the MQTT client's task does); it
has no network to download from and no session to report in.

| Model | Code |
| --- | --- |
| `TakeCommand`, `CheckPending`, `SavePending`, `Enqueue`, `Accept` | `MQTT_EVENT_DATA` and `handle_ota_command`, on the MQTT client's task |
| `Connect`, `Disconnect`, `PublishSavedOnConnect`, `ClearOnConnect` | `MQTT_EVENT_CONNECTED` / `DISCONNECTED`, `publish_saved_ota_result`, `clear_ota_result` (`ClearResult`, which also `Enqueue` and `ClearFailure` use, and which leaves the record silently when NVS fails) |
| `TakeUpdate`, `Announce`, `Download`, `SaveResult`, `PublishFailure`, `ClearFailure`, `Restart`, `NvsAbort` | `ota_task`; a failed save of the result aborts (`ESP_ERROR_CHECK`) |
| `Reboot`, `Recovered` | any restart: memory is lost, `recover_interrupted_ota` turns a pending record into a failure |
| `Request`, `Acknowledge`, `Crash` | users, the broker, power loss (external) |

* `ota_open` (2 requests that may overlap, one repeated command, one lost session,
  one crash, failing NVS writes and erasures): `SucceededWasInstalled`,
  `PendingIsUnderWay`. A full queue that cannot take its record back leaves one that
  is of no update, but the update that fills the queue will replace it, or a restart.
  A save that fails although NVS has the record by then leaves one that only a
  restart ends; the history variable `unsaved` names those requests.
* `ota_serial` (3 requests, each asked for after the answer to the one before, one
  lost session): `FailedNotInstalled`, `ResultKeptUntilReported` and the liveness
  property `RecordedAnswered`. The last needs two assumptions, which the
  constants make explicit: the MQTT client has memory for its reports
  (`PublishOutcomes = {TRUE}`) and 1.5 s deliver the outbox of a live session
  (`DelayDrains`).
* `ota_overlap` (**violation**, finding): with two requests in a row and no fault an
  installed update is never reported. The success recorded before the restart
  is overwritten by the second request's `pending`, because `ota_is_pending` looks
  only for a pending record; the restart then turns that one into a failure.

## 4. The Function: `FunctionIngest`

One step is one awaited request of a call; `calls[c].at` is the request it is
about to make. `Call`, `LookupPublisher`, `Lookup`, `Store`, `Locate`,
`Update`/`Create`/`UpdateAgain` (`upsertLatestTelemetry`), `ListAlarms`/`WriteAlarm`
(`evaluateGeofences`), `ListUpdate`/`WriteUpdate` (`syncOtaUpdate`),
`ListPending`/`CompleteUpdate` (`reconcileOtaUpdate`), `ListDownlink`/`WriteDownlink`
(`syncDownlink`), `RemoveLatest` (the delete event). `Fault` ends a call at any
request (an error, or its 15 s are over): what was written stays. Payloads are
well-formed: decoding and validation are pure and left out. The time-series
store overwrites a point with the same device and timestamp, and the timestamp
is the millisecond of the call plus the position in the batch.

* `function_concurrent` (3 calls, 2 open at a time, 1 fault, 1 deletion, mixed
  batches): `AllOrNothing`, `HistoryComplete`, `RowInHistory`, `LostOnlyToFaults`:
  what holds in whatever order the requests come. All four are proved too.
* `function_serial` (3 calls one after the other, with OTA reports, downlinks,
  geofences, 1 fault): `TablesAgree` (= `AlarmCurrent /\ SameFix`) and
  `UpdatesSettle` (= `SucceededWasSeen /\ ReconcileCompletes`). Two calls in flight
  really break `TablesAgree` for as long as the device does not publish again. Both are
  proved of calls that follow one another (`MaxOpen = 1`).
* `function_latest` (**violation**, finding): two calls of one device leave the
  older reading in the row of latest telemetry.
* `function_deleted` (**violation**, finding): a call in flight creates the row of a
  deleted device again, and nothing removes it.

`Store` takes the time of day and writes the points in one step. Two calls that
take the same millisecond overwrite each other's points; `HistoryComplete` and
`RowInHistory` exclude those calls (`SharesInstant`) and nothing else. A batch may name
one device more than once; each entry is looked up by itself, so that a firmware
version changed meanwhile gives the entries different ones. `ReconcileCompletes` is
about a device's last entry.

## 5. The nRF54 node

### `NrfNode`: provisioning, reboot, radio

| Model | Code |
| --- | --- |
| `BeginUpload`, `EndUpload`, `SaveMqtt`, `SaveProfile`, `Ack` | `write_mqtt_config`, `livestock_config_apply_json`, `edgez_config_apply_provisioning`: two NVS records, one after the other, each read back |
| `SetSettings`, `InitConfig`, `GraceOver` | `edgez_config_handle_packet`: `DeviceSettings` SET and `HaLowInitConfig`, with its 5 s grace |
| `Persisted`, `NotPersisted` | `save_persisted_profile_locked` under `config_lock`; memory and generation change before NVS does; gateways' profiles are not persisted, a SET deletes the record |
| `Connected`, `Disconnected`, `RestartAdvertising`, `ShortPress` | BLE callbacks, the advertising work, `poll_button` |
| `LongPress`, `SysReboot` | `poll_button`: `reset_nvs_storage` erases the partition beneath the mounted NVS, and `sys_reboot` follows; the other threads run on in between and may save, acknowledge, connect. An erasure that fails may have taken either record, and the main loop goes on |
| `Boot`, `Survives` | every boot; a record written after an erasure may be found or not |
| `BootStart`, `StartRadio`, `StopRadio`, `RestartRadio` | `main`, `maybe_refresh_edgez_halow_beacon` on the main loop |
| `Snapshot`, `Enable`, `Record`, `Ready` (by the main loop and by the connect thread) | `connect_morse_sdk_sta`, `wifi_connect_thread`: the generation recorded is the one at the end, not that of the snapshot |
| `RebootWork`, `Recheck`, `Crash`, `BeaconFails`, `BeaconSent` | the reboot gate, which waits for the app to disconnect; faults; the beacon failure limit (20 in the code) |

`AlwaysReachable`, `RadioIsStored`, `AckedIsStored`, `EnabledWhenOff` are safety;
`RebootFollows` and `RadioFollows` say that a saved profile ends with the reboot into
it, and that the radio ends up with it. A long press is the one thing that may take
from NVS what the app is told is there (`rx.spoiled`: the storage was erased since the
first record was written), and `AckedIsStored` says that only then a record is missing
at the acknowledgement, and that even then none is of another document. A node whose
storage is erased is about to reboot; one whose erasure failed is not covered by
`AlwaysReachable` until it boots. `nrf_committed` (**violation**, finding): a
profile whose NVS write fails is started all the same, and is lost with the next
reset.

### `NrfBle`: the Bluetooth services

What `NrfNode` does with a document in one step is here done chunk by chunk, and
requests are frames of a stream that writes cut anywhere.

| Model | Code |
| --- | --- |
| `EnableBle`, `StackReady`, `RestartWork`, `Advertises` | `edgez_ble_start`, `bt_ready_cb`, `start_advertising`, `restart_advertising_work_handler` |
| `ClientConnects`, `ConnectingFails`, `ClientDisconnects`, `ClientSubscribes` | `connected`, `disconnected`, the CCC callback; `Forgets` is what they reset |
| `WriteControl`, `LookAtFrame`, `Garbled`, `Incomplete`, `PacketHandled`, `NotifyReply` | `write_control`, `process_rx_frames`, the packet handler (which may wait for the flash), `response_notify_work_handler` and its retries |
| `ClientUploads`, `ClientContinues`, `Starts`, `Takes`, `DocumentApplied` | `write_mqtt_config` and its length and confirmation |
| `PacketHandledTooLate` | a link lost while a packet handler waits: `rx_length` wraps and the node faults |

`ClientIsServed`: requests are handled in order and once, and left out only after a
frame that is too long; every write finds room; answers go to the link they are of;
a document is applied only complete and in order, also after uploads that were
given up; a status read is one of the reader's own link; the node can be found
while provisioning is enabled.

### `NrfSensors`: IMU, GPS, battery, and the beacon that carries them

The main loop (`InitImu`, `InitGps`, `StopGps`, `ParseFix`, and the builder's steps),
the work queue (`TakeSample`, `FailSample`) and the connect thread, which builds the
IE before the first start. `edgez_config_build_vendor_ies` is several steps
(`StartBuild`, `EnterLocation`, `SwitchOn`, `Measure`, `SwitchOff`, `EnterSample`,
`StoreIe`), because `edgez_battery_read_mv` waits with the divider on and holds no
lock. `BeaconIsRight`: no beacon is built with a fix of before GPS was turned off, a
sample of before the IMU was given up, or a voltage measured with the divider off.
Nothing keeps the two builders apart but `configured`
(`edgez_applied_generation # 0`): the thread builds only before it is set, the main
loop only after. A beacon on the air may be older than what it was built from.

### `NrfGps`: the stream of the GPS receiver

`edgez_gps.c` from the UART to the position. A sentence is a few units and its line
feed. `SendUnit` is the receiver; `ReceptionReady`, `ReceptionStops` and
`ReceptionDisabled` are the events of `gps_uart_callback`, in interrupts at any
moment; `StopStream`, `InitStream`, `PollUnit` and `ParseSentence` are
`edgez_gps_stop`, `edgez_gps_init`, a byte in `edgez_gps_poll`, and `parse_sentence`
with `publish_fix`. Units are lost while reception is off, when the ring has no room,
and with the errors that stop the UART; a line that outgrows `line_buf` is given up
in its middle. `FixIsReceived` has three parts. `PositionIsNew`: a position is of a
sentence sent since GPS was last turned on. `NothingElseMissed`: once the poll is
past it, every such sentence was parsed, unless a unit of it or the line feed
before it was lost, however lines were spliced before. `Receives`: GPS that is on
receives, is about to, or could not be started again. Two assumptions: a checksum
fits only whole sentences (it is an XOR, which may collide), and the second before a
new start (`EDGEZ_GPS_POST_BEACON_SETTLE_MS`) is enough for the UART to have stopped
(guard `uart = "off"`).

## 6. The ESP32 board

### `EspStartup`: provisioning and start-up

| Model | Code |
| --- | --- |
| `SendDocument`, `SaveMqtt`, `RefuseMesh`, `SaveMesh`, `SavePlace`, `Accept` | `mqtt_config_handler` and `configure_mesh`: three NVS records, each of which may fail, then the answer |
| `SendWifi`, `RejectWifi`, `StopProvisioning`, `EndProvisioning` | the provisioning manager's events in `event_handler`, `finish_provisioning_task` (which waits 750 ms), the end of BLE |
| `Boot`, `StartNormally`, `StartProvisioning`, `Abort`, `Restart`, `Crash`, `Erase` | `app_main`, `restart_task`, `ESP_ERROR_CHECK`, power loss, the reset button |
| `CallStartMqtt`, `CreateClient`, `StartClient` | `start_mqtt`, called by the event loop and by the HaLow connect task: the test of `mqtt_client` and its assignment are two steps |
| `HalowReady`, `HalowFails`, `GotAddress`, `LoseWifi` | the radio (external), IP events |

`AcknowledgedIsStored`: a document answered ok is in all three records.
`NeverDeaf`: a board that runs is provisionable, in its mesh or about to restart; it
needs that the handler returns within the 750 ms (`HandlerInTime`; with `FALSE` it
is violated). `SecondClientNeedsOverlap`: two MQTT clients exist only after two
calls of `start_mqtt` at the same time. `AcceptedIsUsed` (liveness): an accepted
document whose Wi-Fi is known ends with the board in its mesh and its MQTT client
running. `startup_waits` (**violation**, finding): after a reset between the document
and the Wi-Fi credentials a gateway starts without waiting for Wi-Fi.

### `EspTelemetry` and `EspTopology`

`EspTelemetry`: `beacon_queue`, `telemetry_queue`, the three producers (decoder,
gateway task, scripts), the hardware mutex, `telemetry_publish_task`, and a session
that is lost and comes back at any step. `OutageLosesOne`: what was taken from the
queue was published, except one reading for each lost session or refused publish.
`BoardHeard` (liveness): every report of the board is made and leaves it or meets a
full queue, also if a script never gives the hardware back, on a gateway and on a
leaf. `EspTopology`: `remember_topology_peer` and `append_topology`, whose lock makes
each one step. `NeighboursListed`: a report lists the routes and only nodes heard
lately, and all of these if they fit; a node heard often keeps no slot from others.

### `SensorScript` and `ScriptOutput`

`SensorScript`: the MQTT task's `SendCommand` puts commands in a queue of fixed
size; `script_task` takes them (`TakeCommand`, `InstallScript`, `DeleteScript`,
`TimerFires`), runs the program under the hardware mutex (`TakeHardware`, `OpenPort`,
`ClosePort`, `EndRun`), and the gateway task reads the battery between (`ReadBattery`).
A reset may come at any step, also between the NVS write and the answer.
`PinsExclusive`: I2C and UART are never open at a time, and outside a run all ports
are closed and rails off, which is why `delete_script` may close them without the
mutex. `ToldIsTrue`: what the user was last told of the script is so in memory and
NVS, across resets and failing writes.

`ScriptOutput`: one global buffer serves every run; `InitBuffer`, `AppendBytes`,
`WriteAt` (with its zero filling), then `NextChunk`, `PublishChunk`, and a chunk that
finds no memory is skipped. Every byte that is written has a value of its own, and
fresh memory may hold anything. `BlobIsOfItsRun`: each chunk that goes out is that
piece of what the run it names wrote, and between resets a run number is of one run.

## 7. App, portal, installer

`AppSession` (`app/App.tsx`): a step runs from one answer to the next `await`. Start
from the snapshot (`StartFromCache`, `StartIdentified`, ...), the timer's refresh
(shared by its callers, `SameRefresh`), sign-in, saves that write the snapshot, and
sign-out with and without network (a pending deletion of the session is kept and
done before the next sign-in). Answers are lost, sessions end and the app restarts
at any step. `UsersApart`: rows and snapshots are those of the user who sees them, and
a user who signed out is back only by signing in and leaves no snapshot, unless a
sign-out overtook `account.get()` of the start or a save, ended in another's session,
or was interrupted and its snapshot shown in another's (`overtaken`).

`AppProvision`: the dialog `OpenDialog`, `ScanDevices`, `ChooseDevice`, `PressConnect`
(for an H7608 preceded by the credential), `ChooseWifi`/`ChooseOther`,
`PressProvision`, with `CreateRecord`, `IssueCredential` (`prepareDeviceCredential`),
`PatchRecord`, `Configure`; cancelling and going back; the timer's refresh, other
phones, lost links and answers. `SetupIsRight`: a device is configured with the last
credential issued for it, the mesh of the farm its record is in, and an upstream it
has; it is left disconnected; a Wi-Fi scan that is waited for is answered.

`Portal`: `Load` and `LoadAnswered` (`refresh`, of the timer, a sign-in or a removal),
the effects of farm, selection and history in the order React runs them
(`AfterEffects`, `Render`), `SelectFarm`, `SelectDevice`, `SelectRange`, `AskDelete`,
`RemoveDevice`, `SignIn`, `SignOut`. `PortalShowsSelected`: the history shown and the
spinner are those of the selected device and range; the selected device is one of
the farm; rows are the operator's (unless a refresh or a deletion was in flight when
another signed out, `late`); the delete dialog names the device it was opened for unless a
refresh or the farm selector moved the selection (`DialogDrifts`).

`Installer`: the requests of `install-appwrite.mjs` in their order (`Plan`), each kept,
created or reconciled (`ensure`, `upsert`), the cleaner (`Removals`), and the solution
plan, which creates the same resources meanwhile. Any request, answer or the
installer itself may be lost. `InstallRepeatable`: a run that ends well leaves
everything, and as wanted what it reconciles; of the columns that is only
`farms.halowChannel` (`channel` in the model; `column` stands for all others, which
are kept as they are found); a failure keeps the store; a run fails
only for a cause that lets it be run again; a cleaning leaves only the methods.

## 8. The runs `boards` and `nrf_node`

Both modules (`MCBoards`, `MCNrfNode`) run one *group* of tasks at a time: the initial
state chooses `group`, the other groups stay where they start. Groups share no
variables, so that checking them together would multiply the states and show
nothing more; where one group's code uses another's, the model of the first has
the effect as a choice of its own (a script's program in `EspTelemetry`, a document
that is applied in `NrfBle`).

* `nrf_node`: node, sensors, Bluetooth and GPS; 1 268 762 states, about two minutes and a half.
  Properties: those of section 5.
* `boards`: start-up, telemetry, topology, scripts, output, peers, session, dialog,
  portal and installer; 1 042 275 states. Properties: those of sections 6, 7 and
  `RelayPeers`, and `BoardsTypeOK`, the type invariants of all ten.
* `startup_waits`, `nrf_committed`: the violations of sections 5 and 6.

## 9. The proofs

The theorems hold for every value of the constants. All the invariants of the runs are
proved, and all their action properties; liveness is not. The assumptions are the
`ASSUME`s of the modules (`RelayAssumption`, `OtaAssumption`, `NodeAssumption`,
`BleAssumption`, `SensorsAssumption`, `GpsAssumption`, `StartupAssumption`,
`TelemetryAssumption`, `TopologyAssumption`, `ScriptAssumption`, `OutputAssumption`,
`PeersAssumption`, `AppAssumption`, `ProvisionAssumption`, `PortalAssumption`,
`InstallerAssumption`, `IngestAssumption`: disjoint and finite sets, natural bounds,
positive sizes), which TLC evaluates in every run that extends their module. Some
theorems say of what they hold, each with a hypothesis that its run has too:

* `NoFaults` (no repeated command, no reset, no failing NVS write):
  `FailedNotInstalledHolds`, because an update that is tried again may fail then; and,
  with `OneAtATime` besides, `ResultKeptUntilReportedHolds`, because overlapping requests
  overwrite a stored result (`ota_overlap`).
* `MaxOpen = 1` (calls of the Function follow one another): `UpdatesSettleHolds`,
  `TablesAgreeHolds`, because a call that overtakes another leaves the tables with some
  rows of each.
* `HandlerInTime`: `NeverDeafHolds`, `BoardsNeverDeaf`.

Each component has one inductive invariant, proved with one step per action; those of
the Function and of OTA are extended several times, a fact at a time.

| Module | Theorems |
| --- | --- |
| `MqttL2RelayProofs` | `TypeCorrect`, `DeliveredWholeHolds`, `OneSlotPerMessageHolds`, `OnlyOldestGivesWayHolds`, `FirstFragmentKeptHolds`, `ServiceImplemented` |
| `OtaUpdateProofs` | `TypeCorrect`, `SucceededWasInstalledHolds`, `PendingIsUnderWayHolds`, `PendingIsItsOwn`, `FailedNotInstalledHolds`, `ResultKeptUntilReportedHolds` |
| `NrfNodeProofs` | `TypeCorrect`, `AlwaysReachableHolds`, `RadioIsStoredHolds`, `AckedIsStoredHolds`, `EnabledWhenOffHolds`, `NodeRunsGroups`, `NodeStaysSafe` |
| `NrfSensorsProofs` | `SensorsTypeCorrect`, `BeaconIsRightHolds`, `GpsTypeCorrect`, `FixIsReceivedHolds`, `ClientIsServedHolds` |
| `EspBoardProofs` | `StartupTypeCorrect`, `AcknowledgedIsStoredHolds`, `NeverDeafHolds`, `SecondClientNeedsOverlapHolds`; `TelemetryTypeCorrect`, `OutageLosesOneHolds`, `TopologyTypeCorrect`, `NeighboursListedHolds`, `PeersTypeCorrect`, `CommandFindsItsLeafHolds`; `ScriptTypeCorrect`, `PinsExclusiveHolds`, `ToldIsTrueHolds`, `OutputTypeCorrect`, `BlobIsOfItsRunHolds` |
| `AppPortalProofs` | `AppTypesHold`, `UsersStayApart`, `PortalTypesHold`, `PortalAlwaysShowsSelected`, `DialogTypesHold`, `SetupStaysRight`, `InstallTypesHold`, `InstallStaysRepeatable` |
| `BoardsProofs` | `BoardsRunGroups`, `BoardsTypesHold`, `BoardsStaySafe`, `BoardsNeverDeaf` |
| `FunctionIngestProofs` | `TypeCorrect`, `AllOrNothingHolds`, `HistoryCompleteHolds`, `RowInHistoryHolds`, `LostOnlyToFaultsHolds`, `UpdatesSettleHolds`, `TablesAgreeHolds` |

**Relay.** `DeliveredWhole` says nothing of the frames and slots deliveries are made
from. `Integrity` adds what is needed: sender and id name one message (`UniqueIds`),
each frame on the air is a fragment of a message that was sent (`FramesGenuine`), each
slot in use holds a *prefix* of one, with its topic from the first byte on
(`SlotsGenuine`), and queues and callbacks hold only whole ones (`QueuesGenuine`,
`HandedGenuine`). The step that matters is `ReceiveKeeps`: a fragment accepted at
`received = offset` extends a prefix to a longer prefix of the same message, since slot
and fragment agree on source and id (`FoundRebuilds`, `AppendedPrefix`). That the oldest
slot exists and is the oldest is `OldestSlotIsOldest`. For `FirstFragmentKept` a slot
has to hold the first fragment whole if it holds anything (`Rebuilds`): a second copy of
the fragment is refused because the slot has bytes, and those must be its own.
`ServiceImplemented` maps every step to a step of `RelayService` or a stutter: what
`Deliver` takes from the queue was sent to that station. `OneSlotPerMessage` (no station
reassembles one message in two slots) is only proved, not listed in a run.

**OTA.** `Inv` adds to the properties where the tasks are: `SavesWhatIsInstalled`
(before a success is recorded its image is installed) and `PendingAdvances`, which
`PendingIsItsOwn` states: as long as NVS works (`~NvsMayFail`) a pending record is of
the update that `handle_ota_command` is about to queue, that waits in `ota_queue`, or
that `ota_task` has and whose result it has not recorded. Where NVS may fail, erasures
included, the record may be of a request that the full queue refused, and
`PendingIsUnderWayHolds` says what is left: some update is under way, and its result
will replace the record (`PendingStaysUnderWay`: `ota_task` goes idle only by way of a
result it recorded, or by a restart), unless NVS kept the record of a save that failed.
`RebootKeeps` is the case of `recover_interrupted_ota`.
`FailedNotInstalledHolds` extends `Inv` to `OnceInv` and assumes `NoFaults` (no repeated
command, no reset, no failing NVS write; publishes and sessions may be lost and
requests may overlap): a request waits in one place only (`OnePlace`), and one that was
tried does not wait again and is installed or failed, not both (`TriedOnce`). The
restart after an installation turns a request that still waits in the queue into a
failure, which was not tried.
`ResultKeptUntilReportedHolds` is about users who wait for the answer before they ask
again, and extends `OnceInv` to `AskedInv`. Who asks next was told of all others, so
that one request at most is under way, and every other one is answered
(`OthersAnswered`, `OneAtWork`). It is never refused as busy, neither for a pending
record nor for a full queue (`NobodyBusy`). A result is told only after it is recorded
(`NotToldYet`), and while one is recorded no request is on its way to the next result
(`NoResultAhead`); so what `handle_ota_command` overwrites was told long before
(`OldResultTold`), and what either task erases after publishing is what it published
(`ClearsWhatIsTold`): between the two steps no other result can take its place.

**Node.** `Counted`: a change of the profile was counted, which bounds the generation.
`Provisioning`: a node that is connected to is open to provisioning or about to
reboot, and a document on its way is already in the first record when the second
is written, or that record was erased by a long press since and the document is
marked spoiled; with it a failed NVS write cannot strand the node. `OneStarts`: the
connect thread makes only the first start (`edgez_applied_generation = 0`), the main
loop only later ones, and neither is between snapshot and enable unless the radio
is off. `AsBooted`: while NVS works and no reboot is due, memory, NVS and radio have
the profile of the boot. A boot establishes all of it, whatever NVS holds
(`BootKeeps`).

**Sensors.** `NothingOld` (what is cached is of the present run of its sensor), `Turns`
(only one thread builds, by `configured`), `BuiltRight` (an IE is right as far as it
is built, and the divider is on exactly between its two steps).

**GPS.** `GpsInv` orders the stream: units in ring and buffer are in the order they
were sent (`InOrder`), none is older than the start (`NoneOlder`), and every unit
sent since is lost, waiting or *gone* - sent, with all that waits later
(`Accounted`). The heart is `LineIsPrefix`: for an undamaged sentence of which the
first `k` units are gone and the next is not, and whose predecessor's line feed is
gone, the line is exactly those `k` units. It holds whatever was spliced or given up
before, because a line feed empties the line; and a line of an undamaged sentence
never grows too long, because `SentenceUnits <= LineUnits`. `LinesParsed` follows: an
undamaged sentence whose line feed is gone was parsed. Steps of interrupts change
only for lost units whether they are gone (`LineKept`).

**Bluetooth.** The stream that is *ahead* is the buffer and what the client has yet to
write, `Ahead`; how writes cut it does not matter. `StreamInv`: frames in it are whole and
in order (`Ordered`), it begins with a frame unless one that is too long came before
(`InStep`), every request was handled, is ahead or was lost to one that is too long
(`NoneLost`), and what was handled came before what is ahead (`DoneBefore`).
`process_rx_frames` leaves a tail of the stream, which keeps all four. `BufferRight`
bounds the buffer between callbacks by less than the longest frame, so that every
write finds room; `Forgotten` and `AnswersRight` bind requests and answers to their
link. `UploadInv`: what was received of an upload that goes on is its beginning (`Piece`).

**Start-up.** `HandlerSaved` and `AnswerSaved` tell which records hold the handler's
document at each of its steps. `Reachable` and `WaysToEnd` follow a board that
closes BLE to its restart, and use `HandlerInTime`. `OneCall`: without overlap at
most one caller is in `start_mqtt`, and the client it created is the running one.

**Telemetry.** `LossInv`: `InHandRight` says at which steps the publisher holds a
reading, `Owed` that the balance of taken, published and lost readings is settled at
each. `TableInv` of the topology: `AgesRight`, `OneSlotEach`, `OthersHeardSince` (a node
that lost its slot gave way to others heard since, as many as there are slots) and
`RoutesFit`; with a count of slots (`Cardinality`) it follows that all fit.

**Scripts.** `TaskRight` ties the task's step to command, lock, ports and NVS; a port is
open only in a run. `OutputInv`: `OutputShape`, `Content` (buffer up to its length is
what was meant), `BlobsRight`, `MessagesRight` (each message is that piece of the blob
its run and boot name). The types add `OutputBounds`: a chunk that is published begins
within the buffer (`chunk < ChunkCount`), so none is empty.

**Peers.** `TableRight` (every entry with a serial has that leaf's address, or none
yet, unless it is the entry being written), `WriteRight`, `LookupRight`, and that each
leaf has one entry: with no more leaves than slots a new leaf finds a free one (a
pigeonhole argument on cardinalities), so no entry ever changes its leaf.

**Function.** `IInv` is `TypeOK` and `CallsRight`: a call knows how far it is. While it
works, all entries of its batch are its publisher's or the publisher's leaves' (the
look-ups went through all of them) and it is at a stage its entry needs
(`CallRight`). Calls interleave at every request, so each lemma names what the steps
of the *other* calls leave alone: rows of updates never go away (`UpdateRowsStay`), a
call that is past its store keeps batch and time (`SettledStays`). `HistoryInv` adds
`PointsRight` (who may report the points of the series), `StoredFirst` (before a call
writes any table each of its readings is in the series, or a call of the same
millisecond wrote over it) and `RowsRight` (a row of latest telemetry shows a reading
that was stored). A batch cannot overwrite its own points, because it has at most 16
entries and their timestamps differ (`TimestampsDiffer`). `FailureInv` adds
`AgainFindsRow`: when the create of a call met a row of another call, its second
update finds a row, unless the device was deleted meanwhile; only then may it fail
(`LostOnlyToFaults`).

The two about calls that follow one another share `SerialInv` (one call is open, and
its time is the present) and `Past`, which orders entries and stages: a call is past a
stage of an entry when it is done with it or did not need it. A call is *current* as
long as no other one began after it; what it left in the tables is still there.
`UpdatesInv`: an update that succeeded was seen by a call (`Seen`), what a call is about to
complete is all that waits for the firmware it found (`CompletionRight`), and nothing
waits behind a current call (`Reconciled`). `FixInv`: row and device have the same fix,
except where a call has located the device and not yet written the row (`Located`,
`FixesAgree`). `AlarmInv`: what a call has yet to write makes the device's alarms right
(`AlarmsComing`), and behind it they are those of the last fix, which a later entry of
the batch takes over (`Superseded`, `AlarmsKept`).

**App.** `SessionShape` says which handlers may wait at a time. `Apart` is what holds
unless `overtaken`: the screen is of one user (`ScreenApart`), snapshots are their user's
and gone with a sign-out (`PhoneApart`), and whatever is waited for was asked for the user
it will be shown to (`WaitsApart`: the start, authenticate, a save, each refresh, and the
session of somebody gone, which a sign-out is about to delete).

**Dialog.** `RequestShape` and `StepShape` tie the handler to the step of the dialog it was
begun from. The heart is the credential's number: each issue is counted (`Issuing`), one
in hand or in a request is the last of its device (`PreparedInHand`, `RequestInHand`), and
what the app knows of a record is so (`KnownIsSo`), which keeps the mesh that of the
record's farm (`SentStays`).

**Portal.** `OneVisitor`: the page is nobody's, and then nothing is there or on its way, or
it is the operator's whose session the browser has, and then everything listed or asked
for is his; `late` is the exception. The other parts of `PortalShowsSelected` are
inductive as they stand.

**Installer.** `Progress`: every step of the plan that is done has achieved what it is for,
unless the cleaner ran since. `LookHolds` carries what a probe saw to the request that
relies on it; `Cleaning` says that what was removed stays removed while nothing is
installed; `MethodsStay` that the login methods always do.

**Composition.** `BoardsRunGroups`: the composition of the run `boards` implements the
specification of each of its ten groups, because a step of one changes no variable of
another. What is proved of a group therefore holds of the run, types
(`BoardsTypesHold`) and invariants (`BoardsStaySafe`, `BoardsNeverDeaf`).
`NodeRunsGroups` and `NodeStaysSafe` are the same of the four groups of `nrf_node`.

### Only model-checked

All liveness: `RecordedAnswered`, `RebootFollows`, `RadioFollows`, `AcceptedIsUsed` and
`BoardHeard`, because liveness under fairness and `ENABLED` are out of the prover's
reach; and the five violations, which are counterexamples.
Where a proof would need induction over data the models use closed forms
instead: the offsets of fragments are a set given by a condition, not a recursion.

## 10. Bounds and fairness

Every bound is a constant named `Max...` in a guard; queue and table sizes
(`QueueDepth`, `AssemblyCount`, `RingUnits`, ...) are parameters. Deadlock is not
checked: the behaviours are bounded, so that every one of them ends. Symmetry is
used only in runs without liveness properties; the relay's action properties and
its refinement are about single steps and closed under the permutations.

| Group | Bounds | Why they are enough |
| --- | --- | --- |
| node | 2 documents, a persisted profile and a gateway's, 2 changes, 2 connections, 1 press, 2 faults, 1 failed NVS write, `FailureLimit = 2` | two documents can be mixed in the two records; two faults reach the limit |
| sensors | ages and intervals of 1 step, 2 failed samples | each age is on both sides of its limit; the IMU is given up |
| Bluetooth | payloads, writes, documents of 2 units, 1 retry, 2 links, 2 requests, 2 uploads, 1 radio fault | a frame is cut anywhere; an upload is given up and another made on a new link |
| GPS | 3 sentences of 2 units, ring and buffer of 2, line of 3, 1 error | the ring overflows, a lost line feed splices two sentences and overflows the line, a third shows recovery |
| start-up | 3 documents (gateway, leaf, unsupported), 3 sent, 3 faults, 1 erasure | an accepted document, a refused one and one after it, with faults between |
| telemetry | queues of 1 and 2, 2 readings each, 1 outage, 1 refusal | both queues are full, an outage meets every step |
| topology | 4 nodes, 3 slots, 3 links, ages to 2 | more nodes than slots, nodes that fall out and come back |
| scripts | 2 scripts, one invalid, queue of 2, 3 commands, 2 faults | the queue is full while one is done |
| output | buffer of 4, chunks and writes of 2, 2 writes, 2 runs, 1 reset | a gap, a last chunk that is shorter, a second run over the first one's bytes |
| peers | 3 leaves, 2 entries, 5 advertisements, 2 look-ups | leaves fit and do not fit; an entry is taken over during a look-up |
| session | 2 users, 2 sign-ins, 2 refreshes, 1 save, 2 faults | an old user's request is answered under the new one |
| dialog | a tracker, a board, a gateway, 2 farms, 2 attempts, 2 events | each kind of device, a retry, a drift |
| portal | 2 operators, 2 devices of farm 1 (farm 2 is empty), 2 events, 2 histories | an old history or refresh is answered after a new one |
| installer | 2 runs, 2 events | a run after one that was lost in any step |

Fairness is weak and stated in the module: OTA (`MqttTaskStep`, `OtaTaskStep`,
`Connect`, `Acknowledge`: both tasks are scheduled, the client reconnects by itself,
the broker acknowledges, a download ends by its timeout), `NrfNode` (main loop,
connect thread, timers and work queues run, an upload that was begun is ended, and
an app that is done disconnects - `app/README.md:50` - without which the reboot gate
waits for ever), `EspStartup` (tasks and delays; an access point that is in range and
known is joined; the HaLow connect ends one way or the other), `EspTelemetry` (tasks;
esp-mqtt reconnects; neither beacons nor the end of a script are relied on). Nothing
is assumed of users, commands or faults. `RadioFollows` holds as long as NVS works and
the profile is one that is persisted (`Kept`).

## 11. Findings and observations

Findings are disagreements between the code and what the repository says of it, each
with a run that shows it (`PROJECT.json`): `ota_overlap` (`InstalledReported`),
`function_latest` (`LatestIsNewest`), `function_deleted` (`DeletedLeavesNoRow`),
`nrf_committed` (`StartsCommitted`), `startup_waits` (`WaitsForWifi`).

What else came up while modelling. The models have it, as what the code does; the
properties are worded so that they hold with it.

*ESP32.*
* A HaLow-only leaf takes OTA commands from the relay (`main.cpp:178`), records and
  tries them and never answers: it has no network to download from, and every report
  ends in `publish_ota_status`, which wants a session (358). `RecordedAnswered` is about
  boards with Wi-Fi.
* `delete_script` ignores failures of NVS and answers "deleted": the script is back
  after the next reset (`ToldIsTrue` says so).
* In an outage the telemetry queue keeps the 8 oldest readings and drops new ones; the
  firmware's README still tells of batches of five and a queue of 32.
* `clear_ota_result` (344) ignores what fails. When the record of an update that a full
  queue refused cannot be erased, all updates are refused until the one that is under
  way records its result; when `save_ota_result` fails in its commit and the record is
  there all the same, until the next restart.
* A reset between `esp_https_ota`, which makes the image the boot image, and the saving
  of the result (489) reports an update as failed that runs: `FailedNotInstalled` is
  checked and proved for runs without resets.
* Two calls of `start_mqtt` at the same time make two clients. A radio that fails to
  start is not tried again before a reset. A start-up without Wi-Fi credentials may
  end in `ESP_ERROR_CHECK` and restart for ever.
* `uart_safe_close` turns the sensor rail off while I2C may be open.
* 750 ms are not enough if a save takes longer: the answer is lost and BLE closed.
* Run numbers restart with a reset, and a chunk without memory for its text is skipped
  silently: a server that reassembles blobs by run number
  (`firmware/README.md:228-234`) has to know of resets and missing chunks.
* With more leaves than slots a command may be sent to another leaf.

*nRF54.*
* A link lost while a packet handler waits for the flash makes `rx_length` wrap; the
  node faults and restarts (`PacketHandledTooLate`).
* `bt_le_adv_start` that fails is not tried again while provisioning stays enabled. A
  second request's answer is dropped while one is pending. An announced length above
  `MQTT_CONFIG_MAX_LEN` stays set after the error.
* A UART that cannot be started again in `UART_RX_DISABLED` is not tried again until
  GPS is turned off; `edgez_gps_is_ready` stays true.
* The IMU initialised anew after it was given up overlaps with GPS traffic, although
  `main.c:353` wants the IMU first.
* A long press erases the storage a few lines before it reboots (`main.c` 1107, 1111), and
  the Bluetooth thread may save and answer in between: the app is told "persisted" of a
  document whose records have just been erased, or were written beneath the erasure.
  The node then boots without them and open to provisioning, or with them. When the
  erasure fails the node goes on, perhaps without records, until its next boot.
* `edgez_battery_read_mv` is safe only because its two callers never overlap.

*Function.* Calls of the same millisecond overwrite each other's points. Entries of one
device in a batch are looked up one by one, so that the batch may hold two firmware
versions of it; an update for one that is not the last stays pending.

*App.*
* A sign-out while the start's `account.get()` or a save is in flight can bring the
  user, rows or a snapshot back (`overtaken`). A sign-out that waits for a refresh and
  ends after another user signed in logs that one out too and leaves `activeUserId`, so
  that rows of a late refresh can appear for the next user. A start that shows the
  snapshot of an interrupted sign-out in another's session lets the timer's refresh mix
  their rows. A refresh refused with 401 signs out
  whoever is current, and leaves the dialog and a prepared credential for the next
  user.
* Choosing another device in the dialog keeps the upstream, network, password and
  scan of the one before. After a failed attempt the new record is not known until
  the next refresh, so that an immediate retry meets a conflict. Preparing an H7608's
  credential and cancelling may leave a working device with an older one.
  The credential is of the farm at preparation, the mesh of the farm at provisioning.

*Portal.* The delete dialog follows the selection when a refresh or the farm selector
moves it, and then deletes what it names. A refresh in flight at a sign-out may bring
the former operator's rows back until the next one, and so may a deletion, which
refreshes when it is answered. Refreshes are shown in the order
of their answers, so that a deleted device may reappear for 5 s. A sign-out of an
expired session throws and leaves the operator signed in.

*Installer.* A key that may write but not read is enough until something exists already:
variables and rules are listed, and an existing function or site, a probe that is lost
or a solution plan at the same time ends in a conflict, although `appwrite.mjs:122`
expects both to run at a time. Running it again (with a key that may read) is safe.
Columns that exist are kept as they are, but for `farms.halowChannel`, which is updated
(`database.mjs` 29), and so are indexes: an installation of an older release may end
well with columns of the older kind.

## 12. What is not modelled, and the plan

* *Vendored and generated code*: Morse headers and the binary library behind them
  (`mmwlan.h`, `mmosal.h`, `mmhal*.h`, `mmpkt*.h`, ... twice), nanopb, the generated
  `*.pb.h`. They are about half of the repository's lines; their effects appear as the
  environment of the models (the mesh of `MqttL2Relay`, the radio of `NrfNode` and
  `EspStartup`). The share of mapped lines (about a sixth of all) is to be read with this
  in mind.
* *Pure data*: parsing of NMEA fields (a sentence has a position or not), of commands
  and documents, JSON, CRC, BCD and Modbus helpers, validation, geometry (membership in
  an area), RSSI. They keep no state.
* *The Lua interpreter*: a program opens and closes ports, writes, fails or returns.
* *Drawing*: forms, maps, canvas, the portal's topology and invite pages, LEDs,
  heartbeats, diagnostics, logging, formatting.
* *USB flashing and app updates* (`App.tsx`): sequences of calls of an SDK and of the
  operating system.
* *The mesh scan of the nRF54*: no caller.
* *On the ESP32 a flash erase or `esp_mqtt_client_init` that fails; Wi-Fi lost between the end of BLE
  and the restart.* Credentials of one device issued from two phones.
* *Assumed of services*: Appwrite's unique indexes and sessions as its documentation of
  conflicts in the code says; AsyncStorage answers at once and does not fail.

What is left: handlers of the parts listed above that bring state of their own (the
portal's OTA and script commands, the app's USB flashing), and refinements that state
what the other components promise as `RelayService` does for the relay.
