------------------------------ MODULE NrfNode ------------------------------
(***************************************************************************)
(* The nRF54 node (firmware/nrf54/src): provisioning over BLE, the two NVS *)
(* records it is kept in, the gate that reboots the node once a profile is *)
(* saved, and the life of the HaLow radio, which the main loop and a       *)
(* connect thread start and restart when the profile's generation moves.   *)
(*                                                                         *)
(* Four threads run: the Bluetooth stack's (rx), the main loop, the        *)
(* connect thread and the work queue.  They share the profile under        *)
(* config_lock, and everything else without a lock.                        *)
(***************************************************************************)
EXTENDS Naturals, FiniteSets

CONSTANTS
  Requests,       \* mqtt-config documents the app sends, each with a profile
  Profiles,       \* profiles sent as EdgeZ DeviceSettings or HaLowInitConfig
  Gateways,       \* those among them whose device type is never persisted
  FailureLimit,   \* HALOW_BEACON_TX_FAILURE_REBOOT_LIMIT
  MaxChanges,     \* bound: configurations the app sends
  MaxConnects,    \* bound: BLE connections
  MaxPresses,     \* bound: presses of the button that do something
  MaxFaults,      \* bound: crashes, failed radio starts, failed beacons
  MaxNvsFailures, \* bound: NVS writes that fail
  None            \* no request, no profile

ASSUME NodeAssumption ==
  /\ Requests \cap Profiles = {}
  /\ None \notin Requests \cup Profiles
  /\ Gateways \subseteq Profiles
  /\ FailureLimit \in Nat \ {0}
  /\ {MaxChanges, MaxConnects, MaxPresses, MaxFaults, MaxNvsFailures} \subseteq Nat

VARIABLES
  nvsMqtt,     \* the MQTT record in NVS: the request it was saved for
  nvsProfile,  \* the HaLow profile in NVS
  settings,    \* the profile in memory
  generation,  \* config_generation
  deferred,    \* before runtime_start_not_before_ms
  ble,         \* provisioning_enabled, advertising and current_conn
  status,      \* mqtt_config_status
  rx,          \* the Bluetooth thread: its step, in which request; a long press spoiled it
  rebooting,   \* pending_reboot_reasons # 0; the reboot work is scheduled
  booted,      \* main has reached its loop
  reset,       \* a long press: none, storage erased and sys_reboot next, or it failed
  connect,     \* connect_morse_sdk_sta as run by the main loop and the thread
  startPending,   \* edgez_start_pending
  restartPending, \* edgez_restart_pending
  applied,     \* edgez_applied_generation
  ready,       \* halow_ready
  radio,       \* the radio: off, on or stopping, and the profile it was given
  failures,    \* halow_beacon_tx_failure_count
  counts       \* for the bounds

nvs == <<nvsMqtt, nvsProfile>>
config == <<settings, generation, deferred>>
bleVars == <<ble, status, rx>>
mainLoop == <<booted, reset>>
halow == <<connect, startPending, restartPending, applied, ready, radio>>
vars == <<nvs, config, bleVars, rebooting, mainLoop, halow, failures, counts>>

Stored == Requests \cup Profiles
RxIdle == [at |-> "idle", request |-> None, spoiled |-> FALSE]
NotConnecting == [at |-> "idle", profile |-> None]
Off == [state |-> "off", profile |-> None]
NoBle == [enabled |-> FALSE, advertising |-> FALSE, connected |-> FALSE]

Count(kind) == counts' = [counts EXCEPT ![kind] = @ + 1]
May(kind, max) == counts[kind] < max /\ Count(kind)

\* ------------------------------------------------------------- boot, reboots

\* As if the MQTT record alone made the node provisioned.
ProvisionedByMqtt(mqtt, profile) == mqtt # None

\* main: both records are needed; without them BLE provisioning starts.
Provisioned(mqtt, profile) == mqtt # None /\ profile # None

\* What a boot makes of the NVS records it finds.
BootWith(mqtt, profile) ==
  /\ nvsMqtt' = mqtt
  /\ nvsProfile' = profile
  /\ settings' = profile
  /\ generation' = 1
  /\ deferred' = FALSE
  /\ ble' = IF Provisioned(mqtt, profile) THEN NoBle
            ELSE [NoBle EXCEPT !.enabled = TRUE, !.advertising = TRUE]
  /\ status' = [at |-> "pending", request |-> None]
  /\ rx' = RxIdle
  /\ rebooting' = FALSE
  /\ booted' = FALSE
  /\ reset' = "no"
  /\ connect' = [t \in {"main", "thread"} |-> NotConnecting]
  /\ startPending' = FALSE
  /\ restartPending' = FALSE
  /\ applied' = 0
  /\ ready' = FALSE
  /\ radio' = Off
  /\ failures' = 0

\* What a boot finds of a record: after an erasure beneath the mounted NVS, one
\* that was written since may be gone too.
Survives(record) == {record} \cup (IF reset = "no" THEN {} ELSE {None})

Boot ==
  \E mqtt \in Survives(nvsMqtt), profile \in Survives(nvsProfile) : BootWith(mqtt, profile)

\* As if the reboot work found the app connected once and did not look again.
RecheckNever == rebooting' = FALSE

\* halow_beacon_reboot_work_handler finds the app connected: it schedules
\* itself again, until the app is gone.
Recheck == UNCHANGED rebooting

RebootWork ==
  /\ rebooting
  /\ \/ /\ ~ble.connected
        /\ Boot
        /\ UNCHANGED counts
     \/ /\ ble.connected
        /\ Recheck
        /\ UNCHANGED <<nvs, config, bleVars, mainLoop, halow, failures, counts>>

\* Power loss, watchdog, fault.
Crash ==
  /\ May("faults", MaxFaults)
  /\ Boot

\* The main loop is not inside a radio start, nor on its way to sys_reboot.
MainRuns == booted /\ connect["main"] = NotConnecting /\ reset # "erased"

\* The document's records are being written; an erasure takes what is written.
Spoil == rx' = [rx EXCEPT !.spoiled = @ \/ rx.at \in {"saveProfile", "ack"}]

\* poll_button, long press: reset_nvs_storage erases the partition beneath the
\* mounted NVS, with no lock.  When that fails some of it may be erased, and the
\* main loop goes on.
LongPress ==
  /\ MainRuns /\ Spoil
  /\ \/ /\ May("presses", MaxPresses)
        /\ nvsMqtt' = None /\ nvsProfile' = None
        /\ reset' = "erased"
     \/ /\ counts.presses < MaxPresses /\ counts.nvsFailures < MaxNvsFailures
        /\ counts' = [counts EXCEPT !.presses = @ + 1, !.nvsFailures = @ + 1]
        /\ nvsMqtt' \in {nvsMqtt, None} /\ nvsProfile' \in {nvsProfile, None}
        /\ reset' = "failed"
  /\ UNCHANGED <<config, ble, status, rebooting, booted, halow, failures>>

\* sys_reboot after the erasure, connected or not; the other threads have run on.
SysReboot ==
  /\ reset = "erased"
  /\ Boot
  /\ UNCHANGED counts

\* ------------------------------------------------------------------------ BLE

\* poll_button, short press: BLE provisioning again, unless it is on.
ShortPress ==
  /\ MainRuns
  /\ ~ble.enabled /\ ~ble.connected
  /\ May("presses", MaxPresses)
  /\ ble' = [ble EXCEPT !.enabled = TRUE, !.advertising = TRUE]
  /\ UNCHANGED <<nvs, config, status, rx, rebooting, mainLoop, halow, failures>>

\* restart_advertising_work, 500 ms after a disconnect.
RestartAdvertising ==
  /\ ble.enabled /\ ~ble.advertising /\ ~ble.connected
  /\ ble' = [ble EXCEPT !.advertising = TRUE]
  /\ UNCHANGED <<nvs, config, status, rx, rebooting, mainLoop, halow, failures, counts>>

Connected ==
  /\ ble.advertising
  /\ May("connects", MaxConnects)
  /\ ble' = [ble EXCEPT !.advertising = FALSE, !.connected = TRUE]
  /\ status' = [at |-> "pending", request |-> None]
  /\ UNCHANGED <<nvs, config, rx, rebooting, mainLoop, halow, failures>>

Disconnected ==
  /\ ble.connected
  /\ rx.at \in {"idle", "upload"}
  /\ ble' = [ble EXCEPT !.connected = FALSE, !.advertising = FALSE]
  /\ rx' = RxIdle
  /\ UNCHANGED <<nvs, config, status, rebooting, mainLoop, halow, failures, counts>>

Changed(profile) == settings' = profile /\ generation' = generation + 1

\* As if only the documents' saving asked for the reboot.
PersistedQuietly(profile) ==
  /\ Changed(profile)
  /\ nvsProfile' = IF profile \in Gateways THEN None ELSE profile
  /\ rebooting' = (rebooting \/ profile \in Requests)

\* save_persisted_profile_locked after the change of memory, all under
\* config_lock.  A record that is read back as written schedules the reboot;
\* one of a type that is not persisted is deleted, and nothing is scheduled.
Persisted(profile) ==
  /\ Changed(profile)
  /\ IF profile \in Gateways
       THEN nvsProfile' = None /\ UNCHANGED rebooting
       ELSE nvsProfile' = profile /\ rebooting' = TRUE

\* NVS fails: the old record is there, or the new one, or none that can be read,
\* and the new profile stays in memory.
NotPersisted(profile) ==
  /\ Changed(profile)
  /\ nvsProfile' \in {nvsProfile, None} \cup ({profile} \ Gateways)
  /\ UNCHANGED rebooting

\* edgez_config_handle_packet, DeviceSettings SET.
SetSettings(profile) ==
  /\ ble.connected /\ rx = RxIdle
  /\ counts.changes < MaxChanges
  /\ \/ /\ Persisted(profile)
        /\ deferred' = FALSE
        /\ Count("changes")
     \/ /\ counts.nvsFailures < MaxNvsFailures
        /\ NotPersisted(profile)
        /\ counts' = [counts EXCEPT !.changes = @ + 1, !.nvsFailures = @ + 1]
        /\ UNCHANGED deferred
  /\ UNCHANGED <<nvsMqtt, bleVars, mainLoop, halow, failures>>

\* The same, HaLowInitConfig: it keeps the device type, so that a gateway's
\* profile is not saved at all; the radio's start waits for a SET, at most 5 s.
InitConfig(profile) ==
  /\ ble.connected /\ rx = RxIdle
  /\ counts.changes < MaxChanges
  /\ profile \in Gateways <=> settings \in Gateways
  /\ deferred' = TRUE
  /\ \/ /\ IF profile \in Gateways
             THEN Changed(profile) /\ UNCHANGED <<nvsProfile, rebooting>>
             ELSE Persisted(profile)
        /\ Count("changes")
     \/ /\ counts.nvsFailures < MaxNvsFailures
        /\ profile \notin Gateways
        /\ NotPersisted(profile)
        /\ counts' = [counts EXCEPT !.changes = @ + 1, !.nvsFailures = @ + 1]
  /\ UNCHANGED <<nvsMqtt, bleVars, mainLoop, halow, failures>>

GraceOver ==
  /\ deferred
  /\ deferred' = FALSE
  /\ UNCHANGED <<nvs, settings, generation, bleVars, rebooting, mainLoop, halow,
                failures, counts>>

\* write_mqtt_config: the first write of a document, then the last one.
BeginUpload(r) ==
  /\ ble.connected /\ rx.at \in {"idle", "upload"}
  /\ counts.changes < MaxChanges
  /\ Count("changes")
  /\ status' = [at |-> "pending", request |-> None]
  /\ rx' = [RxIdle EXCEPT !.at = "upload", !.request = r]
  /\ UNCHANGED <<nvs, config, ble, rebooting, mainLoop, halow, failures>>

\* The last write: livestock_config_apply_json, which may find the document bad.
EndUpload ==
  /\ rx.at = "upload" /\ ble.connected
  /\ \/ rx' = [rx EXCEPT !.at = "saveMqtt"] /\ UNCHANGED status
     \/ rx' = RxIdle /\ status' = [at |-> "failed", request |-> rx.request]
  /\ UNCHANGED <<nvs, config, ble, rebooting, mainLoop, halow, failures, counts>>

\* settings_save_one of the MQTT record, and its reading back.
SaveMqtt ==
  /\ rx.at = "saveMqtt"
  /\ \/ /\ nvsMqtt' = rx.request
        /\ rx' = [rx EXCEPT !.at = "saveProfile"]
        /\ UNCHANGED <<status, counts>>
     \/ /\ May("nvsFailures", MaxNvsFailures)
        /\ nvsMqtt' \in {nvsMqtt, rx.request, None}
        /\ rx' = RxIdle
        /\ status' = [at |-> "failed", request |-> rx.request]
  /\ UNCHANGED <<nvsProfile, config, ble, rebooting, mainLoop, halow, failures>>

\* As if the result of edgez_config_apply_provisioning were not returned.
AcksAnyway == rx' = [rx EXCEPT !.at = "ack"] /\ UNCHANGED status

\* A profile that could not be saved is reported as such.
AfterFailedSave == rx' = RxIdle /\ status' = [at |-> "failed", request |-> rx.request]

\* edgez_config_apply_provisioning.
SaveProfile ==
  /\ rx.at = "saveProfile"
  /\ \/ /\ Persisted(rx.request)
        /\ deferred' = FALSE
        /\ rx' = [rx EXCEPT !.at = "ack"]
        /\ UNCHANGED <<status, counts>>
     \/ /\ May("nvsFailures", MaxNvsFailures)
        /\ NotPersisted(rx.request)
        /\ AfterFailedSave
        /\ UNCHANGED deferred
  /\ UNCHANGED <<nvsMqtt, ble, mainLoop, halow, failures>>

\* The status a client reads or is notified of; provisioning is over.
Ack ==
  /\ rx.at = "ack"
  /\ rx' = RxIdle
  /\ status' = [at |-> "ok", request |-> rx.request]
  /\ ble' = [ble EXCEPT !.enabled = FALSE]
  /\ UNCHANGED <<nvs, config, rebooting, mainLoop, halow, failures, counts>>

\* ---------------------------------------------------------------------- HaLow

\* start_halow_connect, once the profile is complete: the thread is created.
StartThread ==
  /\ startPending' = TRUE
  /\ connect' = [connect EXCEPT !["thread"].at = "snapshot"]
Complete == settings # None /\ ~deferred

\* main, HALOW_START_DELAY_MS after boot.
BootStart ==
  /\ ~booted
  /\ booted' = TRUE
  /\ IF Complete THEN StartThread ELSE UNCHANGED <<connect, startPending>>
  /\ UNCHANGED <<reset, nvs, config, bleVars, rebooting, restartPending, applied, ready,
                radio, failures, counts>>

\* As if edgez_start_pending were not looked at.
NeverApplied == applied = 0

\* maybe_refresh_edgez_halow_beacon: nothing was ever applied, nothing is starting.
MayStart == applied = 0 /\ ~startPending

StartRadio ==
  /\ MainRuns /\ Complete
  /\ MayStart
  /\ StartThread
  /\ UNCHANGED <<nvs, config, bleVars, rebooting, mainLoop, restartPending, applied,
                ready, radio, failures, counts>>

\* It was, and the profile has changed since: the radio is stopped first.
StopRadio ==
  /\ MainRuns /\ Complete
  /\ applied \notin {0, generation}
  /\ radio.state # "off" /\ ~restartPending
  /\ radio' = [radio EXCEPT !.state = "stopping"]
  /\ restartPending' = TRUE
  /\ ready' = FALSE
  /\ UNCHANGED <<nvs, config, bleVars, rebooting, mainLoop, connect, startPending,
                applied, failures, counts>>

\* mmwlan: the station reaches MMWLAN_STA_DISABLED.
RadioStopped ==
  /\ radio.state = "stopping"
  /\ radio' = Off
  /\ UNCHANGED <<nvs, config, bleVars, rebooting, mainLoop, connect, startPending,
                restartPending, applied, ready, failures, counts>>

\* And started again, by the main loop itself.
RestartRadio ==
  /\ MainRuns /\ Complete
  /\ applied \notin {0, generation}
  /\ radio.state = "off"
  /\ connect' = [connect EXCEPT !["main"].at = "snapshot"]
  /\ UNCHANGED <<nvs, config, bleVars, rebooting, mainLoop, startPending,
                restartPending, applied, ready, radio, failures, counts>>

\* connect_morse_sdk_sta: the profile is copied.
Snapshot(t) ==
  /\ connect[t].at = "snapshot"
  /\ connect' = [connect EXCEPT ![t] = [at |-> "enable", profile |-> settings]]
  /\ UNCHANGED <<nvs, config, bleVars, rebooting, mainLoop, startPending,
                restartPending, applied, ready, radio, failures, counts>>

\* As if a thread whose start failed did not say so.
ThreadStays(t) == UNCHANGED startPending

\* wifi_connect_thread, when connect_morse_sdk_sta is done: another may be created.
ThreadDone(t) == startPending' = (startPending /\ t # "thread")

\* mmwlan_sta_enable.
Enable(t) ==
  /\ connect[t].at = "enable"
  /\ \/ /\ radio' = [state |-> "on", profile |-> connect[t].profile]
        /\ connect' = [connect EXCEPT ![t].at = "record"]
        /\ UNCHANGED <<startPending, counts>>
     \/ /\ May("faults", MaxFaults)
        /\ connect' = [connect EXCEPT ![t] = NotConnecting]
        /\ ThreadDone(t)
        /\ UNCHANGED radio
  /\ UNCHANGED <<nvs, config, bleVars, rebooting, mainLoop, restartPending, applied,
                ready, failures>>

\* edgez_applied_generation: the generation now, not that of the snapshot.
CurrentGeneration == generation

Record(t) ==
  /\ connect[t].at = "record"
  /\ applied' = CurrentGeneration
  /\ connect' = [connect EXCEPT ![t].at = "ready"]
  /\ UNCHANGED <<nvs, config, bleVars, rebooting, mainLoop, startPending,
                restartPending, ready, radio, failures, counts>>

Ready(t) ==
  /\ connect[t].at = "ready"
  /\ restartPending' = FALSE
  /\ ready' = TRUE
  /\ ThreadDone(t)
  /\ connect' = [connect EXCEPT ![t] = NotConnecting]
  /\ UNCHANGED <<nvs, config, bleVars, rebooting, mainLoop, applied, radio, failures,
                counts>>

\* mmwlan_mesh_beacon_tx_status: a beacon went out, or did not.
BeaconSent ==
  /\ radio.state = "on" /\ failures # 0
  /\ failures' = 0
  /\ UNCHANGED <<nvs, config, bleVars, rebooting, mainLoop, halow, counts>>

BeaconFails ==
  /\ radio.state = "on"
  /\ May("faults", MaxFaults)
  /\ failures' = failures + 1
  /\ rebooting' = (rebooting \/ failures' = FailureLimit)
  /\ UNCHANGED <<nvs, config, bleVars, mainLoop, halow>>

Main == BootStart \/ StartRadio \/ StopRadio \/ RestartRadio
Connecting(t) == Snapshot(t) \/ Enable(t) \/ Record(t) \/ Ready(t)
Saving == SaveMqtt \/ SaveProfile \/ Ack
Button == ShortPress \/ LongPress \/ SysReboot
Beacons == BeaconSent \/ BeaconFails
App == \/ Connected \/ Disconnected \/ EndUpload
       \/ \E profile \in Profiles : SetSettings(profile) \/ InitConfig(profile)
       \/ \E r \in Requests : BeginUpload(r)

\* A node that was never provisioned, or one provisioned earlier.
Init ==
  /\ nvsMqtt \in {None} \cup Requests
  /\ nvsProfile = nvsMqtt
  /\ settings = nvsProfile
  /\ generation = 1
  /\ deferred = FALSE
  /\ ble = IF Provisioned(nvsMqtt, nvsProfile) THEN NoBle
           ELSE [NoBle EXCEPT !.enabled = TRUE, !.advertising = TRUE]
  /\ status = [at |-> "pending", request |-> None]
  /\ rx = RxIdle
  /\ rebooting = FALSE
  /\ booted = FALSE
  /\ reset = "no"
  /\ connect = [t \in {"main", "thread"} |-> NotConnecting]
  /\ startPending = FALSE
  /\ restartPending = FALSE
  /\ applied = 0
  /\ ready = FALSE
  /\ radio = Off
  /\ failures = 0
  /\ counts = [changes |-> 0, connects |-> 0, presses |-> 0, faults |-> 0,
               nvsFailures |-> 0]

Next ==
  \/ App \/ Saving \/ GraceOver \/ RestartAdvertising
  \/ Main \/ (\E t \in {"main", "thread"} : Connecting(t)) \/ RadioStopped \/ Beacons
  \/ Button \/ RebootWork \/ Crash

Spec == Init /\ [][Next]_vars

\* Threads and timers run; an app that is done disconnects (app/README.md:50).
Fairness ==
  /\ WF_vars(Main) /\ WF_vars(Connecting("main")) /\ WF_vars(Connecting("thread"))
  /\ WF_vars(RadioStopped) /\ WF_vars(GraceOver)
  /\ WF_vars(Saving) /\ WF_vars(EndUpload) /\ WF_vars(Disconnected)
  /\ WF_vars(RebootWork) /\ WF_vars(SysReboot)

FairSpec == Spec /\ Fairness

\* ----------------------------------------------------------------- properties

\* The types of the variables.
TypeOK ==
  /\ nvsMqtt \in Requests \cup {None}
  /\ {nvsProfile, settings} \subseteq Stored \cup {None}
  /\ generation \in 1..(MaxChanges + 1)
  /\ applied \in 0..generation
  /\ {deferred, rebooting, booted, startPending, restartPending, ready} \subseteq BOOLEAN
  /\ ble \in [enabled : BOOLEAN, advertising : BOOLEAN, connected : BOOLEAN]
  /\ status \in [at : {"pending", "ok", "failed"}, request : Requests \cup {None}]
  /\ rx \in [at : {"idle", "upload", "saveMqtt", "saveProfile", "ack"},
             request : Requests \cup {None}, spoiled : BOOLEAN]
  /\ reset \in {"no", "erased", "failed"}
  /\ connect \in [{"main", "thread"} ->
                    [at : {"idle", "snapshot", "enable", "record", "ready"},
                     profile : Stored \cup {None}]]
  /\ radio \in [state : {"off", "on", "stopping"}, profile : Stored \cup {None}]
  /\ failures \in 0..MaxFaults
  /\ counts \in [changes : 0..MaxChanges, connects : 0..MaxConnects,
                 presses : 0..MaxPresses, faults : 0..MaxFaults,
                 nvsFailures : 0..MaxNvsFailures]

\* "Before acknowledging provisioning, it reads both saved records back"
\* (firmware/README.md:22): when the app is told its document is persisted, both
\* records in NVS are the ones it was saved as; only a long press that erased the
\* storage since the first of them was written may have taken either.
AckedIsStored ==
  [][status'.at = "ok" /\ status' # status
       => \/ nvsMqtt' = status'.request /\ nvsProfile' = status'.request
          \/ rx.spoiled /\ {nvsMqtt', nvsProfile'} \subseteq {status'.request, None}]_vars

\* Whatever crashes, failed writes, long presses and repeated provisioning leave in
\* NVS, a node that lacks one of its two records is open to provisioning, or about
\* to reboot into it: it is never a node that can only be reached by erasing it.
\* One whose erasure failed runs on with what it has, until it boots.
AlwaysReachable ==
  \/ ble.enabled \/ rebooting \/ reset # "no"
  \/ nvsMqtt # None /\ nvsProfile # None

\* As long as NVS works and the profile is one that is persisted, the radio runs
\* the profile a reboot would give it, or a reboot is under way: the snapshot
\* taken before the radio was enabled may be an old profile recorded with a new
\* generation, but not for long.
Kept == counts.nvsFailures = 0 /\ settings \notin Gateways

RadioIsStored ==
  Kept /\ radio.state = "on" => radio.profile = nvsProfile \/ rebooting \/ reset = "erased"

\* The comment of maybe_refresh_edgez_halow_beacon (main.c:1648): profiles of the
\* types that are persisted are committed before the radio starts, so that none it
\* starts with can be lost.
StartsCommitted ==
  [][radio.state # "on" /\ radio'.state = "on" /\ radio'.profile \notin Gateways
       => radio'.profile = nvsProfile \/ rebooting]_vars

\* The radio is never enabled while it is on or stopping, by a second connect
\* thread created over the first, or by the main loop beside it.
EnabledWhenOff ==
  [][radio' # radio /\ radio'.state = "on" => radio.state = "off"]_vars

\* A saved profile, or a radio whose beacons fail, is followed by a fresh boot,
\* however long the app stays connected.
RebootFollows == rebooting ~> (~rebooting /\ ~booted)

\* Under the same condition the radio ends up on with the profile in memory,
\* through failed starts, restarts, crashes and reconfigurations.
RadioFollows ==
  []Kept => <>[](settings = None \/ radio = [state |-> "on", profile |-> settings])
=============================================================================
