---------------------------- MODULE NrfNodeProofs ----------------------------
(***************************************************************************)
(* The theorems about the nRF54 node, for any documents, profiles, bounds  *)
(* and beacon failure limit: types, AlwaysReachable, AckedIsStored,        *)
(* EnabledWhenOff and RadioIsStored.  The inductive invariant Inv has a    *)
(* part for the counts, for the way a document takes through the records,  *)
(* for who starts the radio, and for the profile that runs.  What is       *)
(* proved of the node and of its sensors, Bluetooth services and GPS       *)
(* stream holds of the composition of MCNrfNode.                           *)
(***************************************************************************)
EXTENDS MCNrfNode, NrfSensorsProofs

Starters == {"main", "thread"}

\* ------------------------------------------------------ the inductive invariant

\* Every change of the profile, and every document under way to become one, was
\* counted, and so was every beacon that failed.
Counted ==
  /\ generation + (IF rx.at \in {"upload", "saveMqtt", "saveProfile"} THEN 1 ELSE 0)
       <= counts.changes + 1
  /\ failures <= counts.faults

\* Only a node that is open to provisioning is connected to, or one whose reboot
\* is due; and a document goes through its two records in their order, which only a
\* long press takes away again.
Provisioning ==
  /\ ble.advertising => ble.enabled /\ ~ble.connected
  /\ ble.connected => ble.enabled \/ rebooting
  /\ rx.at # "idle" => ble.connected /\ rx.request \in Requests
  /\ rx.at \in {"saveProfile", "ack"} => nvsMqtt = rx.request \/ (rx.spoiled /\ nvsMqtt = None)
  /\ rx.at = "ack" => nvsProfile = rx.request \/ (rx.spoiled /\ nvsProfile = None)
  /\ rx.at = "ack" => rebooting

\* The connect thread makes the first start, the main loop all others, and
\* neither is on its way to one unless the radio is off.
OneStarts ==
  /\ startPending <=> connect["thread"].at # "idle"
  /\ ~booted => applied = 0 /\ ~startPending
  /\ connect["main"].at # "idle" => applied # 0
  /\ connect["thread"].at \in {"snapshot", "enable", "record"} => applied = 0
  /\ \A t \in Starters : connect[t].at \in {"snapshot", "enable"} => radio.state = "off"
  /\ applied = 0 /\ connect["thread"].at # "record" => radio.state = "off"

\* With NVS working, a node that is not about to reboot has the profile it booted
\* with, everywhere.
AsBooted ==
  Kept /\ ~rebooting /\ reset # "erased" =>
    /\ settings = nvsProfile
    /\ radio.state = "on" => radio.profile = nvsProfile
    /\ \A t \in Starters : connect[t].at = "enable" => connect[t].profile = nvsProfile

Inv ==
  /\ TypeOK
  /\ Counted
  /\ Provisioning
  /\ AlwaysReachable
  /\ OneStarts
  /\ AsBooted

-----------------------------------------------------------------------------
\* Kinds of steps.

CountsType == [changes : 0..MaxChanges, connects : 0..MaxConnects,
               presses : 0..MaxPresses, faults : 0..MaxFaults,
               nvsFailures : 0..MaxNvsFailures]

\* Counting within a bound.
LEMMA MayCounts ==
  ASSUME counts \in CountsType,
         \/ May("changes", MaxChanges) \/ May("connects", MaxConnects)
         \/ May("presses", MaxPresses) \/ May("faults", MaxFaults)
         \/ May("nvsFailures", MaxNvsFailures)
  PROVE  counts' \in CountsType
<1> USE NodeAssumption DEF CountsType, May, Count
<1>1. CASE May("changes", MaxChanges)
  <2>1. counts.changes + 1 \in 0..MaxChanges
    BY <1>1
  <2> QED
    BY <1>1, <2>1
<1>2. CASE May("connects", MaxConnects)
  <2>1. counts.connects + 1 \in 0..MaxConnects
    BY <1>2
  <2> QED
    BY <1>2, <2>1
<1>3. CASE May("presses", MaxPresses)
  <2>1. counts.presses + 1 \in 0..MaxPresses
    BY <1>3
  <2> QED
    BY <1>3, <2>1
<1>4. CASE May("faults", MaxFaults)
  <2>1. counts.faults + 1 \in 0..MaxFaults
    BY <1>4
  <2> QED
    BY <1>4, <2>1
<1>5. CASE May("nvsFailures", MaxNvsFailures)
  <2>1. counts.nvsFailures + 1 \in 0..MaxNvsFailures
    BY <1>5
  <2> QED
    BY <1>5, <2>1
<1> QED
  BY <1>1, <1>2, <1>3, <1>4, <1>5

\* A boot from whatever NVS holds, with the counts in their bounds.
AnyBoot ==
  \E mqtt \in Requests \cup {None}, profile \in Stored \cup {None} :
    BootWith(mqtt, profile) /\ counts' \in CountsType

\* Reboots and crashes are boots, or wait for the app to leave.
LEMMA BootSteps ==
  ASSUME TypeOK, RebootWork \/ Crash \/ SysReboot
  PROVE  AnyBoot \/ UNCHANGED vars
<1>1. /\ counts \in CountsType
      /\ Survives(nvsMqtt) \subseteq Requests \cup {None}
      /\ Survives(nvsProfile) \subseteq Stored \cup {None}
  BY DEF TypeOK, CountsType, Survives
<1>2. Boot /\ counts' \in CountsType => AnyBoot
  BY <1>1 DEF Boot, AnyBoot
<1>3. CASE RebootWork
  <2>1. CASE Boot /\ UNCHANGED counts
    BY <1>1, <1>2, <2>1
  <2>2. CASE /\ Recheck
             /\ UNCHANGED <<nvs, config, bleVars, mainLoop, halow, failures, counts>>
    BY <2>2 DEF Recheck, vars
  <2> QED
    BY <1>3, <2>1, <2>2 DEF RebootWork
<1>4. CASE Crash
  BY <1>1, <1>2, <1>4, MayCounts DEF Crash
<1>5. CASE SysReboot
  BY <1>1, <1>2, <1>5 DEF SysReboot
<1> QED
  BY <1>3, <1>4, <1>5

\* What a boot leaves satisfies the whole invariant.
LEMMA BootKeeps ==
  ASSUME AnyBoot
  PROVE  Inv'
<1>1. PICK mqtt \in Requests \cup {None}, profile \in Stored \cup {None} :
        BootWith(mqtt, profile) /\ counts' \in CountsType
  BY DEF AnyBoot
<1> USE <1>1 DEF BootWith
<1>2. TypeOK'
  <2>1. /\ nvsMqtt' \in Requests \cup {None}
        /\ {nvsProfile', settings'} \subseteq Stored \cup {None}
        /\ generation' \in 1..(MaxChanges + 1) /\ applied' \in 0..generation'
        /\ failures' \in 0..MaxFaults
    BY NodeAssumption
  <2>2. {deferred', rebooting', booted', startPending', restartPending', ready'} \subseteq BOOLEAN
    OBVIOUS
  <2>3. ble' \in [enabled : BOOLEAN, advertising : BOOLEAN, connected : BOOLEAN]
    BY DEF NoBle
  <2>4. /\ status' \in [at : {"pending", "ok", "failed"}, request : Requests \cup {None}]
        /\ rx' \in [at : {"idle", "upload", "saveMqtt", "saveProfile", "ack"},
                   request : Requests \cup {None}, spoiled : BOOLEAN]
    BY DEF RxIdle
  <2>5. connect' \in [{"main", "thread"} ->
                       [at : {"idle", "snapshot", "enable", "record", "ready"},
                        profile : Stored \cup {None}]]
    BY DEF NotConnecting
  <2>6. radio' \in [state : {"off", "on", "stopping"}, profile : Stored \cup {None}]
        /\ reset' \in {"no", "erased", "failed"}
    BY DEF Off
  <2> QED
    BY <2>1, <2>2, <2>3, <2>4, <2>5, <2>6 DEF TypeOK, CountsType
<1>3. Counted'
  BY DEF Counted, CountsType, RxIdle
<1>4. Provisioning' /\ AlwaysReachable'
  BY DEF Provisioning, AlwaysReachable, Provisioned, NoBle, RxIdle
<1>5. OneStarts' /\ AsBooted'
  BY DEF OneStarts, AsBooted, Starters, NotConnecting, Off
<1> QED
  BY <1>2, <1>3, <1>4, <1>5 DEF Inv

-----------------------------------------------------------------------------
\* Types and counts.

\* The profile in memory and its record, once it changed, saved or not.
LEMMA ChangeTypes ==
  ASSUME TypeOK, NEW profile \in Stored,
         \/ Persisted(profile)
         \/ NotPersisted(profile)
         \/ Changed(profile) /\ UNCHANGED <<nvsProfile, rebooting>>
  PROVE  /\ {nvsProfile', settings'} \subseteq Stored \cup {None}
         /\ rebooting' \in BOOLEAN
         /\ generation' = generation + 1
<1> USE DEF TypeOK, Changed
<1>1. CASE Persisted(profile)
  <2>1. CASE profile \in Gateways
    BY <1>1, <2>1 DEF Persisted
  <2>2. CASE profile \notin Gateways
    BY <1>1, <2>2 DEF Persisted
  <2> QED
    BY <2>1, <2>2
<1>2. CASE NotPersisted(profile)
  BY <1>2 DEF NotPersisted
<1>3. CASE Changed(profile) /\ UNCHANGED <<nvsProfile, rebooting>>
  BY <1>3
<1> QED
  BY <1>1, <1>2, <1>3

\* The app and the Bluetooth thread.
LEMMA BleTypes ==
  ASSUME TypeOK, Counted, Provisioning,
         App \/ Saving \/ GraceOver \/ RestartAdvertising \/ ShortPress
  PROVE  TypeOK' /\ Counted'
<1> USE NodeAssumption
<1>0. /\ counts \in CountsType /\ generation \in Nat /\ failures \in Nat
      /\ generation <= counts.changes + 1
  BY DEF TypeOK, Counted, CountsType
<1>1. CASE Connected
  <2>1. counts' \in CountsType
    BY <1>0, <1>1, MayCounts DEF Connected
  <2> QED
    BY <1>1, <2>1 DEF Connected, TypeOK, Counted, mainLoop, nvs, config, halow, May, Count, CountsType
<1>2. CASE Disconnected
  <2>1. TypeOK'
    BY <1>2 DEF Disconnected, TypeOK, mainLoop, nvs, config, halow, RxIdle
  <2>2. Counted'
    BY <1>0, <1>2 DEF Disconnected, Counted, mainLoop, config, RxIdle
  <2> QED
    BY <2>1, <2>2
<1>3. CASE EndUpload
  <2>1. rx.request \in Requests /\ rx' \in {[rx EXCEPT !.at = "saveMqtt"], RxIdle}
    BY <1>3 DEF EndUpload, Provisioning
  <2>2. TypeOK'
    <3>1. rx' \in [at : {"idle", "saveMqtt"}, request : Requests \cup {None}, spoiled : BOOLEAN]
      <4>1. CASE rx' = [rx EXCEPT !.at = "saveMqtt"]
        BY <4>1 DEF TypeOK
      <4>2. CASE rx' = RxIdle
        BY <4>2 DEF RxIdle
      <4> QED
        BY <2>1, <4>1, <4>2
    <3> QED
      BY <1>3, <2>1, <3>1 DEF EndUpload, TypeOK, mainLoop, nvs, config, halow
  <2>3. Counted'
    BY <1>0, <1>3, <2>1 DEF EndUpload, Counted, mainLoop, config, RxIdle
  <2> QED
    BY <2>2, <2>3
<1>4. CASE RestartAdvertising
  BY <1>4 DEF RestartAdvertising, TypeOK, Counted, mainLoop, nvs, config, halow
<1>5. CASE ShortPress
  <2>1. counts' \in CountsType
    BY <1>0, <1>5, MayCounts DEF ShortPress
  <2>2. TypeOK'
    <3>1. ble' \in [enabled : BOOLEAN, advertising : BOOLEAN, connected : BOOLEAN]
      BY <1>5 DEF ShortPress, TypeOK
    <3>2. UNCHANGED <<nvs, config, status, rx, rebooting, mainLoop, halow, failures>>
      BY <1>5 DEF ShortPress
    <3> QED
      BY <2>1, <3>1, <3>2 DEF TypeOK, mainLoop, nvs, config, halow, CountsType
  <2>3. Counted'
    BY <1>5, <2>1 DEF ShortPress, Counted, config, May, Count, TypeOK
  <2> QED
    BY <2>2, <2>3
<1>6. CASE GraceOver
  <2>1. TypeOK'
    <3>1. {deferred', rebooting', booted', startPending', restartPending', ready'} \subseteq BOOLEAN
      BY <1>6 DEF GraceOver, TypeOK, mainLoop, halow
    <3>2. UNCHANGED <<nvsMqtt, nvsProfile, settings, generation, ble, status, rx, reset, connect,
                      applied, radio, failures, counts>>
      BY <1>6 DEF GraceOver, mainLoop, nvs, bleVars, halow
    <3> QED
      BY <3>1, <3>2 DEF TypeOK
  <2>2. Counted'
    BY <1>6 DEF GraceOver, Counted, mainLoop, bleVars
  <2> QED
    BY <2>1, <2>2
<1>7. ASSUME NEW r \in Requests, BeginUpload(r) PROVE TypeOK' /\ Counted'
  <2>1. counts' \in CountsType
    BY <1>0, <1>7, MayCounts DEF BeginUpload, May
  <2>2. rx' \in [at : {"upload"}, request : Requests, spoiled : BOOLEAN]
    BY <1>7 DEF BeginUpload, RxIdle
  <2>3. TypeOK'
    BY <1>7, <2>1, <2>2 DEF BeginUpload, TypeOK, mainLoop, nvs, config, halow, CountsType
  <2>4. Counted'
    BY <1>0, <1>7, <2>2 DEF BeginUpload, Counted, config, Count, CountsType
  <2> QED
    BY <2>3, <2>4
<1>8. ASSUME NEW profile \in Profiles, SetSettings(profile) \/ InitConfig(profile)
      PROVE  TypeOK' /\ Counted'
  <2>1. /\ rx = RxIdle /\ deferred' \in BOOLEAN
        /\ UNCHANGED <<nvsMqtt, bleVars, mainLoop, halow, failures>>
    BY <1>8 DEF SetSettings, InitConfig, TypeOK
  <2>2. /\ {nvsProfile', settings'} \subseteq Stored \cup {None}
        /\ rebooting' \in BOOLEAN
        /\ generation' = generation + 1
    BY <1>8, ChangeTypes DEF SetSettings, InitConfig, Stored
  <2>3. counts' \in CountsType /\ counts'.changes = counts.changes + 1 /\ counts'.faults = counts.faults
    <3>1. counts.changes < MaxChanges
      BY <1>8 DEF SetSettings, InitConfig
    <3>2. CASE Count("changes")
      BY <1>0, <3>1, <3>2, MayCounts DEF May, Count, CountsType
    <3>3. CASE /\ counts.nvsFailures < MaxNvsFailures
               /\ counts' = [counts EXCEPT !.changes = @ + 1, !.nvsFailures = @ + 1]
      <4>1. counts.changes + 1 \in 0..MaxChanges /\ counts.nvsFailures + 1 \in 0..MaxNvsFailures
        BY <1>0, <3>1, <3>3 DEF CountsType
      <4> QED
        BY <1>0, <3>3, <4>1 DEF CountsType
    <3> QED
      BY <1>8, <3>2, <3>3 DEF SetSettings, InitConfig
  <2>4. generation' <= counts'.changes + 1 /\ counts'.changes \in 0..MaxChanges
    BY <1>0, <2>2, <2>3 DEF CountsType
  <2>5. Counted'
    BY <1>0, <2>1, <2>2, <2>3, <2>4 DEF Counted, RxIdle, mainLoop, bleVars
  <2>6. generation' \in 1..(MaxChanges + 1) /\ applied' \in 0..generation'
    BY <2>1, <2>2, <2>4 DEF TypeOK, mainLoop, halow
  <2> QED
    BY <2>1, <2>2, <2>3, <2>5, <2>6 DEF TypeOK, CountsType, mainLoop, bleVars, halow
<1>9. CASE SaveMqtt
  <2>1. counts' \in CountsType /\ counts'.changes = counts.changes /\ counts'.faults = counts.faults
    BY <1>0, <1>9, MayCounts DEF SaveMqtt, May, Count, CountsType
  <2>2. rx.request \in Requests
    BY <1>9 DEF SaveMqtt, Provisioning
  <2>3. rx' \in [at : {"idle", "saveProfile"}, request : Requests \cup {None}, spoiled : BOOLEAN]
    <3>1. CASE rx' = [rx EXCEPT !.at = "saveProfile"]
      BY <3>1 DEF TypeOK
    <3>2. CASE rx' = RxIdle
      BY <3>2 DEF RxIdle
    <3> QED
      BY <1>9, <3>1, <3>2 DEF SaveMqtt
  <2>4. TypeOK'
    BY <1>9, <2>1, <2>2, <2>3 DEF SaveMqtt, TypeOK, mainLoop, config, halow, CountsType
  <2>5. Counted'
    <3>1. /\ rx.at = "saveMqtt" /\ UNCHANGED <<generation, failures>>
          /\ rx'.at = "idle" \/ rx'.at = "saveProfile"
      BY <1>9, <2>3 DEF SaveMqtt, config
    <3>2. generation + 1 <= counts.changes + 1
      BY <3>1 DEF Counted
    <3>3. generation + (IF rx'.at \in {"upload", "saveMqtt", "saveProfile"} THEN 1 ELSE 0)
            <= counts.changes + 1
      BY <1>0, <3>1, <3>2
    <3> QED
      BY <2>1, <3>1, <3>3 DEF Counted
  <2> QED
    BY <2>4, <2>5
<1>10. CASE SaveProfile
  <2>1. counts' \in CountsType /\ counts'.changes = counts.changes /\ counts'.faults = counts.faults
    BY <1>0, <1>10, MayCounts DEF SaveProfile, May, Count, CountsType
  <2>2. rx.request \in Requests /\ rx.request \in Stored
    BY <1>10 DEF SaveProfile, Provisioning, Stored
  <2>3. /\ {nvsProfile', settings'} \subseteq Stored \cup {None}
        /\ rebooting' \in BOOLEAN
        /\ generation' = generation + 1
    BY <1>10, <2>2, ChangeTypes DEF SaveProfile
  <2>4. /\ rx' \in [at : {"idle", "ack"}, request : Requests \cup {None}, spoiled : BOOLEAN]
        /\ status' \in [at : {"pending", "ok", "failed"}, request : Requests \cup {None}]
        /\ deferred' \in BOOLEAN
    <3>1. CASE Persisted(rx.request) /\ deferred' = FALSE /\ rx' = [rx EXCEPT !.at = "ack"]
               /\ UNCHANGED status
      BY <2>2, <3>1 DEF TypeOK
    <3>2. CASE AfterFailedSave /\ UNCHANGED deferred
      BY <2>2, <3>2 DEF AfterFailedSave, TypeOK, RxIdle
    <3> QED
      BY <1>10, <3>1, <3>2 DEF SaveProfile
  <2>5. generation + 1 <= counts.changes + 1
    BY <1>10 DEF SaveProfile, Counted
  <2>6. generation' \in 1..(MaxChanges + 1) /\ applied' \in 0..generation'
    BY <1>0, <1>10, <2>3, <2>5 DEF SaveProfile, TypeOK, mainLoop, halow, CountsType
  <2>7. Counted'
    <3>1. rx'.at \in {"idle", "ack"} /\ UNCHANGED failures
      BY <1>10, <2>4 DEF SaveProfile
    <3> QED
      BY <1>0, <2>1, <2>3, <2>5, <3>1 DEF Counted
  <2> QED
    BY <1>10, <2>1, <2>3, <2>4, <2>6, <2>7 DEF SaveProfile, TypeOK, CountsType, mainLoop, halow
<1>11. CASE Ack
  BY <1>11 DEF Ack, TypeOK, Counted, mainLoop, nvs, config, halow, RxIdle
<1> QED
  BY <1>1, <1>2, <1>3, <1>4, <1>5, <1>6, <1>7, <1>8, <1>9, <1>10, <1>11 DEF App, Saving

\* The main loop, the connect thread and the radio.
LEMMA RadioTypes ==
  ASSUME TypeOK, Counted,
         Main \/ (\E t \in Starters : Connecting(t)) \/ RadioStopped \/ Beacons
  PROVE  TypeOK' /\ Counted'
<1> USE NodeAssumption
<1>0. counts \in CountsType /\ generation \in Nat \ {0} /\ failures \in Nat
  BY DEF TypeOK, CountsType
<1>1. CASE BootStart
  <2>1. connect' \in {connect, [connect EXCEPT !["thread"].at = "snapshot"]}
        /\ startPending' \in BOOLEAN
    BY <1>1 DEF BootStart, StartThread, TypeOK
  <2> QED
    BY <1>1, <2>1 DEF BootStart, TypeOK, Counted, mainLoop, nvs, config, bleVars
<1>2. CASE StartRadio
  BY <1>2 DEF StartRadio, StartThread, TypeOK, Counted, mainLoop, nvs, config, bleVars
<1>3. CASE StopRadio
  <2>1. {deferred', rebooting', booted', startPending', restartPending', ready'} \subseteq BOOLEAN
    BY <1>3 DEF StopRadio, TypeOK, mainLoop, config
  <2>2. radio' \in [state : {"off", "on", "stopping"}, profile : Stored \cup {None}]
    BY <1>3 DEF StopRadio, TypeOK
  <2>3. Counted'
    BY <1>3 DEF StopRadio, Counted, mainLoop, config, bleVars
  <2> QED
    BY <1>3, <2>1, <2>2, <2>3 DEF StopRadio, TypeOK, mainLoop, nvs, config, bleVars
<1>4. CASE RestartRadio
  BY <1>4 DEF RestartRadio, TypeOK, Counted, mainLoop, nvs, config, bleVars
<1>5. ASSUME NEW t \in Starters, Connecting(t) PROVE TypeOK' /\ Counted'
  <2> USE DEF Starters
  <2>1. CASE Snapshot(t)
    BY <2>1 DEF Snapshot, TypeOK, Counted, mainLoop, nvs, config, bleVars
  <2>2. CASE Enable(t)
    <3>1. counts' \in CountsType /\ counts'.changes = counts.changes
          /\ counts'.faults \in {counts.faults, counts.faults + 1}
      BY <1>0, <2>2, MayCounts DEF Enable, May, Count, CountsType
    <3>2. /\ connect' \in [Starters ->
                           [at : {"idle", "snapshot", "enable", "record", "ready"},
                            profile : Stored \cup {None}]]
          /\ radio' \in [state : {"off", "on", "stopping"}, profile : Stored \cup {None}]
      BY <2>2 DEF Enable, TypeOK, NotConnecting
    <3>3. startPending' \in BOOLEAN
      BY <2>2 DEF Enable, ThreadDone, TypeOK
    <3>4. Counted'
      BY <1>0, <2>2, <3>1 DEF Enable, Counted, mainLoop, config, bleVars, CountsType
    <3> QED
      BY <2>2, <3>1, <3>2, <3>3, <3>4 DEF Enable, TypeOK, mainLoop, nvs, config, bleVars, CountsType
  <2>3. CASE Record(t)
    BY <1>0, <2>3 DEF Record, CurrentGeneration, TypeOK, Counted, mainLoop, nvs, config, bleVars
  <2>4. CASE Ready(t)
    <3>1. startPending' \in BOOLEAN
      BY <2>4 DEF Ready, ThreadDone, TypeOK
    <3>2. Counted'
      BY <2>4 DEF Ready, Counted, mainLoop, config, bleVars
    <3>3. connect' \in [Starters ->
                          [at : {"idle", "snapshot", "enable", "record", "ready"},
                           profile : Stored \cup {None}]]
      BY <2>4 DEF Ready, NotConnecting, TypeOK
    <3>4. {deferred', rebooting', booted', startPending', restartPending', ready'} \subseteq BOOLEAN
      BY <2>4, <3>1 DEF Ready, TypeOK, mainLoop, config
    <3> QED
      BY <2>4, <3>2, <3>3, <3>4 DEF Ready, TypeOK, mainLoop, nvs, config, bleVars
  <2> QED
    BY <1>5, <2>1, <2>2, <2>3, <2>4 DEF Connecting
<1>6. CASE RadioStopped
  BY <1>6 DEF RadioStopped, Off, TypeOK, Counted, mainLoop, nvs, config, bleVars
<1>7. CASE BeaconSent
  BY <1>0, <1>7 DEF BeaconSent, TypeOK, Counted, mainLoop, nvs, config, bleVars, halow, CountsType
<1>8. CASE BeaconFails
  <2>1. counts' \in CountsType /\ counts'.changes = counts.changes
        /\ counts'.faults = counts.faults + 1
    BY <1>0, <1>8, MayCounts DEF BeaconFails, May, Count, CountsType
  <2>2. Counted' /\ failures' \in 0..MaxFaults
    BY <1>0, <1>8, <2>1 DEF BeaconFails, Counted, mainLoop, config, bleVars, CountsType
  <2>3. rebooting' \in BOOLEAN
    BY <1>8 DEF BeaconFails, TypeOK
  <2> QED
    BY <1>8, <2>1, <2>2, <2>3 DEF BeaconFails, TypeOK, mainLoop, nvs, config, bleVars, halow, CountsType
<1> QED
  BY <1>1, <1>2, <1>3, <1>4, <1>5, <1>6, <1>7, <1>8 DEF Main, Beacons

-----------------------------------------------------------------------------
\* Provisioning.

\* The app and the Bluetooth thread keep the records in their order, and the node
\* within reach.
LEMMA BleKeepsProvisioning ==
  ASSUME TypeOK, Provisioning, AlwaysReachable,
         App \/ Saving \/ GraceOver \/ RestartAdvertising \/ ShortPress
  PROVE  Provisioning' /\ AlwaysReachable'
<1> USE NodeAssumption DEF Provisioning, AlwaysReachable
<1>1. CASE Connected \/ Disconnected \/ RestartAdvertising \/ ShortPress \/ GraceOver
  <2>1. CASE Connected
    BY <2>1 DEF Connected, TypeOK, mainLoop, nvs
  <2>2. CASE Disconnected
    BY <2>2 DEF Disconnected, TypeOK, mainLoop, nvs, RxIdle
  <2>3. CASE RestartAdvertising
    BY <2>3 DEF RestartAdvertising, TypeOK, mainLoop, nvs
  <2>4. CASE ShortPress
    BY <2>4 DEF ShortPress, TypeOK, mainLoop, nvs
  <2>5. CASE GraceOver
    BY <2>5 DEF GraceOver, mainLoop, nvs, bleVars
  <2> QED
    BY <1>1, <2>1, <2>2, <2>3, <2>4, <2>5
<1>2. CASE EndUpload
  BY <1>2 DEF EndUpload, TypeOK, mainLoop, nvs, RxIdle
<1>3. ASSUME NEW r \in Requests, BeginUpload(r) PROVE Provisioning' /\ AlwaysReachable'
  BY <1>3 DEF BeginUpload, TypeOK, mainLoop, nvs
<1>4. ASSUME NEW profile \in Profiles, SetSettings(profile) \/ InitConfig(profile)
      PROVE  Provisioning' /\ AlwaysReachable'
  <2>1. /\ ble.connected /\ rx = RxIdle /\ UNCHANGED <<nvsMqtt, bleVars>>
        /\ rebooting => rebooting'
    BY <1>4 DEF SetSettings, InitConfig, Persisted, NotPersisted
  <2> QED
    BY <2>1 DEF mainLoop, bleVars, RxIdle
<1>5. CASE SaveMqtt
  BY <1>5 DEF SaveMqtt, TypeOK, RxIdle
<1>6. CASE SaveProfile
  <2>1. CASE Persisted(rx.request) /\ rx' = [rx EXCEPT !.at = "ack"]
    <3>1. rx.request \in Requests /\ rx.request \notin Gateways
      BY <1>6 DEF SaveProfile
    <3> QED
      BY <1>6, <2>1, <3>1 DEF SaveProfile, Persisted, TypeOK
  <2>2. CASE NotPersisted(rx.request) /\ AfterFailedSave
    BY <1>6, <2>2 DEF SaveProfile, NotPersisted, AfterFailedSave, RxIdle
  <2> QED
    BY <1>6, <2>1, <2>2 DEF SaveProfile
<1>7. CASE Ack
  BY <1>7 DEF Ack, TypeOK, mainLoop, nvs, RxIdle
<1> QED
  BY <1>1, <1>2, <1>3, <1>4, <1>5, <1>6, <1>7 DEF App, Saving

\* The radio's side leaves them alone, but for a reboot it may ask for.
LEMMA RadioKeepsProvisioning ==
  ASSUME TypeOK, Provisioning, AlwaysReachable,
         Main \/ (\E t \in Starters : Connecting(t)) \/ RadioStopped \/ Beacons
  PROVE  Provisioning' /\ AlwaysReachable'
<1>1. UNCHANGED <<nvsMqtt, nvsProfile, ble, rx, reset>> /\ (rebooting => rebooting')
  <2>1. CASE Main \/ RadioStopped
    BY <2>1 DEF Main, BootStart, StartRadio, StopRadio, RestartRadio, RadioStopped, mainLoop, nvs, bleVars
  <2>2. ASSUME NEW t \in Starters, Connecting(t)
        PROVE  UNCHANGED <<nvs, bleVars, rebooting, mainLoop>>
    BY <2>2 DEF Connecting, Snapshot, Enable, Record, Ready
  <2>3. CASE Beacons
    <3>1. UNCHANGED <<nvs, bleVars, mainLoop>>
      BY <2>3 DEF Beacons, BeaconSent, BeaconFails
    <3>2. rebooting => rebooting'
      BY <2>3 DEF Beacons, BeaconSent, BeaconFails, TypeOK
    <3> QED
      BY <3>1, <3>2 DEF mainLoop, nvs, bleVars
  <2> QED
    BY <2>1, <2>2, <2>3 DEF mainLoop, nvs, bleVars
<1> QED
  BY <1>1 DEF Provisioning, AlwaysReachable

-----------------------------------------------------------------------------
\* The radio.

\* The app and the Bluetooth thread leave the radio alone.
LEMMA BleLeavesRadio ==
  ASSUME App \/ Saving \/ GraceOver \/ RestartAdvertising \/ ShortPress
  PROVE  UNCHANGED <<mainLoop, halow>>
<1>1. CASE App
  BY <1>1 DEF App, Connected, Disconnected, EndUpload, BeginUpload, SetSettings, InitConfig
<1>2. CASE Saving
  BY <1>2 DEF Saving, SaveMqtt, SaveProfile, Ack
<1>3. CASE GraceOver \/ RestartAdvertising \/ ShortPress
  BY <1>3 DEF GraceOver, RestartAdvertising, ShortPress
<1> QED
  BY <1>1, <1>2, <1>3

\* The first start is the thread's, and no other begins before it is recorded.
LEMMA RadioKeepsOneStarts ==
  ASSUME TypeOK, OneStarts,
         Main \/ (\E t \in Starters : Connecting(t)) \/ RadioStopped \/ Beacons
  PROVE  OneStarts'
<1> USE DEF OneStarts, Starters
<1>0. /\ generation # 0 /\ startPending \in BOOLEAN
      /\ connect \in [Starters -> [at : {"idle", "snapshot", "enable", "record", "ready"},
                                 profile : Stored \cup {None}]]
  BY DEF TypeOK
<1>1. CASE BootStart
  BY <1>0, <1>1 DEF BootStart, StartThread
<1>2. CASE StartRadio
  BY <1>0, <1>2 DEF mainLoop, MainRuns, StartRadio, StartThread, MayStart
<1>3. CASE StopRadio
  BY <1>0, <1>3 DEF StopRadio, MainRuns, mainLoop, NotConnecting
<1>4. CASE RestartRadio
  BY <1>0, <1>4 DEF mainLoop, RestartRadio
<1>5. ASSUME NEW t \in Starters, Connecting(t) PROVE OneStarts'
  <2>1. CASE Snapshot(t)
    BY <1>0, <2>1 DEF mainLoop, Snapshot
  <2>2. CASE Enable(t)
    <3>1. CASE t = "main"
      BY <1>0, <2>2, <3>1 DEF mainLoop, Enable, ThreadDone, NotConnecting
    <3>2. CASE t = "thread"
      <4>1. UNCHANGED <<booted, applied>> /\ connect["thread"].at = "enable"
        BY <2>2, <3>2 DEF mainLoop, Enable
      <4>2. CASE /\ radio'.state = "on" /\ UNCHANGED startPending
                 /\ connect' = [connect EXCEPT !["thread"].at = "record"]
        BY <1>0, <4>1, <4>2
      <4>3. CASE /\ UNCHANGED radio /\ ~startPending'
                 /\ connect' = [connect EXCEPT !["thread"] = NotConnecting]
        BY <1>0, <4>1, <4>3 DEF NotConnecting
      <4>4. CASE May("faults", MaxFaults) /\ ThreadDone("thread") /\ UNCHANGED radio
                 /\ connect' = [connect EXCEPT !["thread"] = NotConnecting]
        BY <4>3, <4>4 DEF ThreadDone
      <4> QED
        BY <2>2, <3>2, <4>2, <4>4 DEF Enable
    <3> QED
      BY <3>1, <3>2
  <2>3. CASE Record(t)
    <3>1. CASE t = "main"
      BY <1>0, <2>3, <3>1 DEF mainLoop, Record, CurrentGeneration
    <3>2. CASE t = "thread"
      BY <1>0, <2>3, <3>2 DEF mainLoop, Record, CurrentGeneration
    <3> QED
      BY <3>1, <3>2
  <2>4. CASE Ready(t)
    <3>1. CASE t = "main"
      BY <1>0, <2>4, <3>1 DEF mainLoop, Ready, ThreadDone, NotConnecting
    <3>2. CASE t = "thread"
      <4>1. /\ UNCHANGED <<booted, applied, radio>> /\ ~startPending'
            /\ connect' = [connect EXCEPT !["thread"] = NotConnecting]
            /\ connect["thread"].at = "ready"
        BY <2>4, <3>2 DEF mainLoop, Ready, ThreadDone
      <4> QED
        BY <1>0, <4>1 DEF NotConnecting
    <3> QED
      BY <3>1, <3>2
  <2> QED
    BY <1>5, <2>1, <2>2, <2>3, <2>4 DEF Connecting
<1>6. CASE RadioStopped
  BY <1>6 DEF mainLoop, RadioStopped, Off
<1>7. CASE Beacons
  BY <1>7 DEF Beacons, BeaconSent, BeaconFails, mainLoop, halow
<1> QED
  BY <1>1, <1>2, <1>3, <1>4, <1>5, <1>6, <1>7 DEF Main

\* A profile that is saved asks for the reboot, one that is not persisted or not
\* saved ends the comparison.
LEMMA BleKeepsAsBooted ==
  ASSUME TypeOK, AsBooted,
         App \/ Saving \/ GraceOver \/ RestartAdvertising \/ ShortPress
  PROVE  AsBooted'
<1> USE NodeAssumption DEF AsBooted, Kept
<1>0. /\ UNCHANGED <<connect, radio, reset>>
      /\ counts.nvsFailures \in Nat
  BY BleLeavesRadio DEF mainLoop, halow, TypeOK
<1>1. ASSUME NEW profile \in Profiles, SetSettings(profile) PROVE AsBooted'
  <2>1. CASE Persisted(profile) /\ Count("changes")
    BY <1>0, <2>1 DEF Persisted, Changed
  <2>2. CASE counts' = [counts EXCEPT !.changes = @ + 1, !.nvsFailures = @ + 1]
    BY <1>0, <2>2 DEF TypeOK
  <2> QED
    BY <1>1, <2>1, <2>2 DEF SetSettings
<1>2. ASSUME NEW profile \in Profiles, InitConfig(profile) PROVE AsBooted'
  <2>1. CASE /\ Count("changes")
             /\ IF profile \in Gateways
                  THEN Changed(profile) /\ UNCHANGED <<nvsProfile, rebooting>>
                  ELSE Persisted(profile)
    BY <1>0, <2>1 DEF Persisted, Changed
  <2>2. CASE counts' = [counts EXCEPT !.changes = @ + 1, !.nvsFailures = @ + 1]
    BY <1>0, <2>2 DEF TypeOK
  <2> QED
    BY <1>2, <2>1, <2>2 DEF InitConfig
<1>3. CASE SaveProfile
  <2>1. CASE Persisted(rx.request)
    BY <1>0, <2>1 DEF Persisted, Changed
  <2>2. CASE May("nvsFailures", MaxNvsFailures)
    BY <1>0, <2>2 DEF May, Count, TypeOK
  <2> QED
    BY <1>3, <2>1, <2>2 DEF SaveProfile
<1>4. CASE SaveMqtt
  BY <1>0, <1>4 DEF SaveMqtt, May, Count, mainLoop, config, TypeOK
<1>5. CASE Connected \/ Disconnected \/ EndUpload \/ (\E r \in Requests : BeginUpload(r))
  BY <1>0, <1>5 DEF Connected, Disconnected, EndUpload, BeginUpload, May, Count, mainLoop, config, nvs, TypeOK
<1>6. CASE Ack \/ GraceOver \/ RestartAdvertising
  BY <1>0, <1>6 DEF Ack, GraceOver, RestartAdvertising, mainLoop, config, nvs
<1>7. CASE ShortPress
  BY <1>0, <1>7 DEF ShortPress, May, Count, mainLoop, config, nvs, TypeOK
<1> QED
  BY <1>1, <1>2, <1>3, <1>4, <1>5, <1>6, <1>7 DEF App, Saving

\* What is copied, and then what runs, is the profile in memory.
LEMMA RadioKeepsAsBooted ==
  ASSUME TypeOK, AsBooted,
         Main \/ (\E t \in Starters : Connecting(t)) \/ RadioStopped \/ Beacons
  PROVE  AsBooted'
<1> USE DEF AsBooted, Kept, Starters
<1>0. /\ counts \in CountsType
      /\ connect \in [Starters -> [at : {"idle", "snapshot", "enable", "record", "ready"},
                                 profile : Stored \cup {None}]]
  BY DEF TypeOK, CountsType
<1>1. CASE BootStart \/ StartRadio \/ RestartRadio
  BY <1>0, <1>1 DEF BootStart, StartRadio, RestartRadio, StartThread, mainLoop, nvs, config
<1>2. CASE StopRadio
  BY <1>2 DEF StopRadio, mainLoop, nvs, config, TypeOK
<1>3. ASSUME NEW t \in Starters, Connecting(t) PROVE AsBooted'
  <2>1. CASE Snapshot(t)
    BY <1>0, <2>1 DEF Snapshot, mainLoop, nvs, config
  <2>2. CASE Enable(t)
    <3>1. counts'.nvsFailures = counts.nvsFailures
      BY <1>0, <2>2 DEF Enable, May, Count, CountsType
    <3> QED
      BY <1>0, <2>2, <3>1 DEF Enable, NotConnecting, mainLoop, nvs, config
  <2>3. CASE Record(t)
    BY <1>0, <2>3 DEF Record, mainLoop, nvs, config
  <2>4. CASE Ready(t)
    BY <1>0, <2>4 DEF Ready, NotConnecting, mainLoop, nvs, config
  <2> QED
    BY <1>3, <2>1, <2>2, <2>3, <2>4 DEF Connecting
<1>4. CASE RadioStopped
  BY <1>4 DEF RadioStopped, Off, mainLoop, nvs, config
<1>5. CASE BeaconSent
  BY <1>5 DEF BeaconSent, mainLoop, nvs, config, halow
<1>6. CASE BeaconFails
  <2>1. counts'.nvsFailures = counts.nvsFailures
    BY <1>0, <1>6 DEF BeaconFails, May, Count, CountsType
  <2>2. rebooting => rebooting'
    BY <1>6 DEF BeaconFails, TypeOK
  <2> QED
    BY <1>6, <2>1, <2>2 DEF BeaconFails, mainLoop, nvs, config, halow
<1> QED
  BY <1>1, <1>2, <1>3, <1>4, <1>5, <1>6 DEF Main, Beacons

-----------------------------------------------------------------------------
\* The long press takes the records away beneath everyone else.
LEMMA LongPressKeeps ==
  ASSUME Inv, LongPress
  PROVE  Inv'
<1> USE NodeAssumption
<1>0. /\ counts \in CountsType /\ rx.spoiled \in BOOLEAN
      /\ rx \in [at : {"idle", "upload", "saveMqtt", "saveProfile", "ack"},
                request : Requests \cup {None}, spoiled : BOOLEAN]
  BY DEF Inv, TypeOK, CountsType
<1>1. /\ nvsMqtt' \in {nvsMqtt, None} /\ nvsProfile' \in {nvsProfile, None}
      /\ UNCHANGED <<config, ble, status, rebooting, booted, halow, failures>>
  BY DEF LongPress
<1>2. /\ rx'.at = rx.at /\ rx'.request = rx.request /\ rx'.spoiled \in BOOLEAN
      /\ rx.at \in {"saveProfile", "ack"} => rx'.spoiled
      /\ rx' \in [at : {"idle", "upload", "saveMqtt", "saveProfile", "ack"},
                 request : Requests \cup {None}, spoiled : BOOLEAN]
  BY <1>0 DEF LongPress, Spoil
<1>3. /\ counts' \in CountsType /\ counts'.changes = counts.changes /\ counts'.faults = counts.faults
      /\ reset' = "erased" \/ (reset' = "failed" /\ counts'.nvsFailures # 0)
  <2>1. CASE May("presses", MaxPresses) /\ reset' = "erased"
    BY <1>0, <2>1, MayCounts DEF May, Count, CountsType
  <2>2. CASE /\ counts.presses < MaxPresses /\ counts.nvsFailures < MaxNvsFailures
             /\ counts' = [counts EXCEPT !.presses = @ + 1, !.nvsFailures = @ + 1]
             /\ reset' = "failed"
    <3>1. counts.presses + 1 \in 0..MaxPresses /\ counts.nvsFailures + 1 \in 0..MaxNvsFailures
      BY <1>0, <2>2 DEF CountsType
    <3> QED
      <4>1. counts.nvsFailures + 1 # 0
        BY <1>0 DEF CountsType
      <4>2. counts'.nvsFailures = counts.nvsFailures + 1
        BY <1>0, <2>2 DEF CountsType
      <4>3. counts' \in CountsType /\ counts'.changes = counts.changes /\ counts'.faults = counts.faults
        BY <1>0, <2>2, <3>1 DEF CountsType
      <4> QED
        BY <2>2, <4>1, <4>2, <4>3
  <2> QED
    BY <2>1, <2>2 DEF LongPress
<1>4. TypeOK'
  BY <1>1, <1>2, <1>3 DEF Inv, TypeOK, config, halow, CountsType
<1>5. Counted'
  BY <1>1, <1>2, <1>3 DEF Inv, Counted, config
<1>6. Provisioning' /\ AlwaysReachable'
  BY <1>1, <1>2, <1>3 DEF Inv, Provisioning, AlwaysReachable
<1>7. OneStarts' /\ AsBooted'
  BY <1>1, <1>3 DEF Inv, OneStarts, AsBooted, Kept, halow
<1> QED
  BY <1>4, <1>5, <1>6, <1>7 DEF Inv

-----------------------------------------------------------------------------
\* The theorems.

\* A node that was never provisioned, or one that was.
LEMMA InvInit == Init => Inv
<1> SUFFICES ASSUME Init PROVE Inv
  OBVIOUS
<1> USE NodeAssumption DEF Init
<1>1. TypeOK
  <2>1. /\ nvsMqtt \in Requests \cup {None}
        /\ {nvsProfile, settings} \subseteq Stored \cup {None}
        /\ generation \in 1..(MaxChanges + 1) /\ applied \in 0..generation
        /\ failures \in 0..MaxFaults
    BY DEF Stored
  <2>2. {deferred, rebooting, booted, startPending, restartPending, ready} \subseteq BOOLEAN
    OBVIOUS
  <2>3. /\ ble \in [enabled : BOOLEAN, advertising : BOOLEAN, connected : BOOLEAN]
        /\ status \in [at : {"pending", "ok", "failed"}, request : Requests \cup {None}]
        /\ rx \in [at : {"idle", "upload", "saveMqtt", "saveProfile", "ack"},
                  request : Requests \cup {None}, spoiled : BOOLEAN]
    BY DEF NoBle, RxIdle
  <2>4. /\ connect \in [{"main", "thread"} ->
                        [at : {"idle", "snapshot", "enable", "record", "ready"},
                         profile : Stored \cup {None}]]
        /\ radio \in [state : {"off", "on", "stopping"}, profile : Stored \cup {None}]
    BY DEF NotConnecting, Off
  <2>5. counts \in CountsType /\ reset \in {"no", "erased", "failed"}
    BY DEF CountsType
  <2> QED
    BY <2>1, <2>2, <2>3, <2>4, <2>5 DEF TypeOK, CountsType
<1>2. Counted
  BY DEF Counted, RxIdle
<1>3. Provisioning /\ AlwaysReachable
  BY DEF Provisioning, AlwaysReachable, Provisioned, NoBle, RxIdle
<1>4. OneStarts /\ AsBooted
  BY DEF OneStarts, AsBooted, Starters, NotConnecting, Off
<1> QED
  BY <1>1, <1>2, <1>3, <1>4 DEF Inv

\* Every step keeps Inv.
LEMMA InvNext == Inv /\ [Next]_vars => Inv'
<1> SUFFICES ASSUME Inv, [Next]_vars PROVE Inv'
  OBVIOUS
<1>1. CASE App \/ Saving \/ GraceOver \/ RestartAdvertising \/ ShortPress
  <2>1. OneStarts'
    BY <1>1, BleLeavesRadio DEF Inv, OneStarts, mainLoop, halow
  <2> QED
    BY <1>1, <2>1, BleTypes, BleKeepsProvisioning, BleKeepsAsBooted DEF Inv
<1>2. CASE Main \/ (\E t \in Starters : Connecting(t)) \/ RadioStopped \/ Beacons
  BY <1>2, RadioTypes, RadioKeepsProvisioning, RadioKeepsOneStarts, RadioKeepsAsBooted DEF Inv
<1>3. CASE UNCHANGED vars
  <2>1. TypeOK' /\ Counted'
    BY <1>3 DEF Inv, TypeOK, Counted, vars, mainLoop, nvs, config, bleVars, halow
  <2>2. Provisioning' /\ AlwaysReachable' /\ OneStarts' /\ AsBooted'
    BY <1>3 DEF Inv, mainLoop, Provisioning, AlwaysReachable, OneStarts, AsBooted, Kept,
                vars, nvs, config, bleVars, halow
  <2> QED
    BY <2>1, <2>2 DEF Inv
<1>4. CASE SysReboot \/ RebootWork \/ Crash
  BY <1>3, <1>4, BootSteps, BootKeeps DEF Inv
<1>5. CASE LongPress
  BY <1>5, LongPressKeeps
<1> QED
  BY <1>1, <1>2, <1>3, <1>4, <1>5 DEF Next, Button, Starters

\* Inv holds in every reachable state.
THEOREM InvHolds == Spec => []Inv
<1> QED
  BY InvInit, InvNext, PTL DEF Spec

\* The variables keep their types.
THEOREM TypeCorrect == Spec => []TypeOK
<1>1. Inv => TypeOK
  BY DEF Inv
<1> QED
  BY <1>1, InvHolds, PTL

\* No crash, failed write, long press or order of configurations leaves a node that
\* lacks a record and is neither open to provisioning nor about to reboot into it,
\* unless its erasure failed and it has not booted since.
THEOREM AlwaysReachableHolds == Spec => []AlwaysReachable
<1>1. Inv => AlwaysReachable
  BY DEF Inv
<1> QED
  BY <1>1, InvHolds, PTL

\* As long as NVS works the radio runs the profile in NVS, or the reboot into that
\* one is due, however starts and configurations interleave.
THEOREM RadioIsStoredHolds == Spec => []RadioIsStored
<1>1. Inv => RadioIsStored
  BY DEF Inv, AsBooted, RadioIsStored
<1> QED
  BY <1>1, InvHolds, PTL

\* The app is told that a document is persisted only when both records are it, or
\* were it until a long press erased the storage.
THEOREM AckedIsStoredHolds == Spec => AckedIsStored
<1> DEFINE Told ==
             \/ nvsMqtt' = status'.request /\ nvsProfile' = status'.request
             \/ rx.spoiled /\ {nvsMqtt', nvsProfile'} \subseteq {status'.request, None}
           Acked == status'.at = "ok" /\ status' # status => Told
<1>1. Inv /\ [Next]_vars => [Acked]_vars
  <2> SUFFICES ASSUME Inv, Next, status'.at = "ok", status' # status
               PROVE  Told
    BY DEF vars, mainLoop, bleVars
  <2> HIDE DEF Told
  <2>1. CASE App \/ GraceOver \/ RestartAdvertising \/ ShortPress
    <3>1. CASE Connected \/ (\E r \in Requests : BeginUpload(r)) \/ EndUpload
      <4>1. CASE Connected
        BY <4>1 DEF Connected
      <4>2. CASE \E r \in Requests : BeginUpload(r)
        BY <4>2 DEF BeginUpload
      <4>3. CASE EndUpload
        BY <4>3 DEF EndUpload
      <4> QED
        BY <3>1, <4>1, <4>2, <4>3
    <3>2. CASE Disconnected \/ \E profile \in Profiles : SetSettings(profile) \/ InitConfig(profile)
      BY <3>2 DEF Disconnected, SetSettings, InitConfig, bleVars
    <3>3. CASE GraceOver \/ RestartAdvertising \/ ShortPress
      BY <3>3 DEF GraceOver, RestartAdvertising, ShortPress, bleVars
    <3> QED
      BY <2>1, <3>1, <3>2, <3>3 DEF App
  <2>2. CASE SaveMqtt \/ SaveProfile
    BY <2>2 DEF SaveMqtt, SaveProfile, AfterFailedSave
  <2>3. CASE Ack
    BY <2>3 DEF Ack, Inv, Provisioning, nvs, Told
  <2>4. CASE Main \/ RadioStopped \/ Beacons
    BY <2>4 DEF Main, BootStart, StartRadio, StopRadio, RestartRadio, RadioStopped, Beacons,
                BeaconSent, BeaconFails, bleVars
  <2>5. CASE \E t \in Starters : Connecting(t)
    BY <2>5 DEF Connecting, Snapshot, Enable, Record, Ready, mainLoop, bleVars
  <2>6. CASE LongPress \/ SysReboot \/ RebootWork \/ Crash
    BY <2>6 DEF LongPress, SysReboot, RebootWork, Crash, Boot, BootWith, bleVars
  <2> QED
    BY <2>1, <2>2, <2>3, <2>4, <2>5, <2>6 DEF Next, Saving, Button, Starters
<1> QED
  BY <1>1, InvHolds, PTL DEF Spec, AckedIsStored

\* The radio is never enabled while it is on or stopping.
THEOREM EnabledWhenOffHolds == Spec => EnabledWhenOff
<1> DEFINE FromOff == radio' # radio /\ radio'.state = "on" => radio.state = "off"
<1>1. Inv /\ [Next]_vars => [FromOff]_vars
  <2> SUFFICES ASSUME Inv, Next, radio' # radio, radio'.state = "on"
               PROVE  radio.state = "off"
    BY DEF vars, mainLoop, halow
  <2>1. CASE App \/ Saving \/ GraceOver \/ RestartAdvertising \/ ShortPress
    BY <2>1, BleLeavesRadio DEF mainLoop, halow
  <2>2. CASE Main \/ RadioStopped \/ Beacons
    BY <2>2 DEF Main, BootStart, StartRadio, StopRadio, RestartRadio, RadioStopped, Beacons,
                BeaconSent, BeaconFails, halow, Off, Inv, TypeOK
  <2>3. ASSUME NEW t \in Starters, Connecting(t) PROVE radio.state = "off"
    BY <2>3 DEF Connecting, Snapshot, Enable, Record, Ready, Inv, OneStarts
  <2>4. CASE LongPress \/ SysReboot \/ RebootWork \/ Crash
    BY <2>4 DEF LongPress, SysReboot, RebootWork, Crash, Boot, BootWith, halow, Off
  <2> QED
    BY <2>1, <2>2, <2>3, <2>4 DEF Next, Button, Starters
<1> QED
  BY <1>1, InvHolds, PTL DEF Spec, EnabledWhenOff

-----------------------------------------------------------------------------
\* The composition that the run checks.

LEMMA GroupsStart == NodeInit => Init /\ SensorsInit /\ BleInit /\ GpsInit
  BY DEF NodeInit

\* A step of the composition is a step of one group and changes no other.
LEMMA GroupsStep ==
  [NodeNext]_nodeVars =>
    [Next]_vars /\ [SensorsNext]_sensorVars /\ [BleNext]_gattVars /\ [GpsNext]_gpsVars
<1> SUFFICES ASSUME [NodeNext]_nodeVars
             PROVE  /\ [Next]_vars /\ [SensorsNext]_sensorVars
                    /\ [BleNext]_gattVars /\ [GpsNext]_gpsVars
  OBVIOUS
<1>1. [Next]_vars
  BY DEF NodeNext, nodeVars
<1>2. [SensorsNext]_sensorVars
  BY DEF NodeNext, nodeVars
<1>3. [BleNext]_gattVars
  BY DEF NodeNext, nodeVars
<1>4. [GpsNext]_gpsVars
  BY DEF NodeNext, nodeVars
<1> QED
  BY <1>1, <1>2, <1>3, <1>4

\* The composition implements the specification of every one of its groups.
THEOREM NodeRunsGroups == NodeSpec => Spec /\ SensorsSpec /\ BleSpec /\ GpsSpec
<1>1. NodeSpec => NodeInit /\ [][NodeNext]_nodeVars
  BY DEF NodeSpec
<1> QED
  BY <1>1, GroupsStart, GroupsStep, PTL DEF Spec, SensorsSpec, BleSpec, GpsSpec

\* Whatever the proofs say of node, sensors, Bluetooth services and GPS stream
\* holds together of the composition that the run checks.
THEOREM NodeStaysSafe ==
  NodeSpec =>
    /\ [](AlwaysReachable /\ RadioIsStored /\ BeaconIsRight /\ ClientIsServed /\ FixIsReceived)
    /\ AckedIsStored /\ EnabledWhenOff
  BY NodeRunsGroups, AlwaysReachableHolds, RadioIsStoredHolds, BeaconIsRightHolds,
     ClientIsServedHolds, FixIsReceivedHolds, AckedIsStoredHolds, EnabledWhenOffHolds, PTL
=============================================================================
