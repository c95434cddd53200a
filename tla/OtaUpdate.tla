------------------------------ MODULE OtaUpdate ------------------------------
(***************************************************************************)
(* Firmware updates of the ESP32 (firmware/src/main.cpp): an update        *)
(* request comes in over MQTT, is recorded in NVS and put in ota_queue by  *)
(* the MQTT client's task, and is downloaded, installed and answered by    *)
(* ota_task.  The two tasks share the NVS record without a lock, and the   *)
(* record outlives a restart, which the queue and the MQTT client's outbox *)
(* do not.                                                                 *)
(*                                                                         *)
(* One step of the model is one access to the record, the queue or the     *)
(* outbox: the code between two of them is private to its task.            *)
(***************************************************************************)
EXTENDS Naturals, Sequences

CONSTANTS
  Requests,         \* request ids of well-formed OTA commands
  OneAtATime,       \* users wait for one update's answer before the next request
  NvsOutcomes,      \* results of an NVS write or erasure: TRUE works, FALSE fails
  PublishOutcomes,  \* results of a publish while connected
  DelayDrains,      \* 1.5 s are enough to deliver the outbox of a live session
  MaxRedeliveries,  \* bound: commands the broker delivers a second time
  MaxDisconnects,   \* bound: lost MQTT sessions
  MaxCrashes,       \* bound: resets that are not part of an update
  NoRequest

ASSUME OtaAssumption ==
  /\ NoRequest \notin Requests
  /\ OneAtATime \in BOOLEAN
  /\ DelayDrains \in BOOLEAN
  /\ NvsOutcomes \subseteq BOOLEAN
  /\ PublishOutcomes \subseteq BOOLEAN
  /\ MaxRedeliveries \in Nat /\ MaxDisconnects \in Nat /\ MaxCrashes \in Nat

VARIABLES
  wifiUpstream, \* halow_config.wifi_upstream: the board has Wi-Fi and an MQTT
               \* session of its own; a HaLow-only leaf has neither
  requested,   \* requests users have sent so far
  commands,    \* commands on their way from the broker
  record,      \* the OtaResult kept in NVS
  unsaved,     \* history: requests whose pending record NVS has, although their
               \* saving failed
  queue,       \* ota_queue
  mqttTask,    \* where the MQTT client's task is, in which request
  otaTask,     \* where ota_task is, in which request
  connected,   \* the kMqttConnected bit of state_events
  outbox,      \* reports queued in the MQTT client
  reported,    \* reports the broker has got
  installed,   \* requests whose image became the boot image
  losses       \* faults so far, for the bounds

vars == <<wifiUpstream, requested, commands, record, unsaved, queue, mqttTask, otaTask,
          connected, outbox, reported, installed, losses>>

QueueDepth == 1
NvsMayWork == TRUE \in NvsOutcomes
NvsMayFail == FALSE \in NvsOutcomes
Final == {"succeeded", "failed"}
Statuses == Final \cup {"pending", "busy"}
At(step, request) == [at |-> step, request |-> request]
Idle == At("idle", NoRequest)
NoRecord == [state |-> "none", request |-> NoRequest]
Recorded(state, request) == [state |-> state, request |-> request]

Lose(kind) == losses' = [losses EXCEPT ![kind] = @ + 1]

Sent == {outbox[i] : i \in DOMAIN outbox}
Answered(r) == \E status \in Statuses \ {"pending"} : <<r, status>> \in reported

\* publish_ota_status: nothing is sent while the session is down; otherwise the
\* MQTT client queues the report, unless it has no memory for it.
Publish(r, status, works) ==
  outbox' = IF connected /\ works THEN Append(outbox, <<r, status>>) ELSE outbox

\* clear_ota_result erases the record, whatever it has become meanwhile.  It
\* returns silently when NVS cannot be opened or does not erase.
ClearResult ==
  \/ NvsMayWork /\ record' = NoRecord
  \/ NvsMayFail /\ UNCHANGED record

\* ---------------------------------------------------------- users and broker

\* A user of the app or the site asks for an update.
Request(r) ==
  /\ r \notin requested
  /\ OneAtATime => \A q \in requested : Answered(q)
  /\ requested' = requested \cup {r}
  /\ commands' = commands \cup {r}
  /\ UNCHANGED <<wifiUpstream, record, unsaved, queue, mqttTask, otaTask, connected,
                outbox, reported, installed, losses>>

\* The broker acknowledges the oldest report in the outbox.
Acknowledge ==
  /\ connected
  /\ outbox # <<>>
  /\ reported' = reported \cup {Head(outbox)}
  /\ outbox' = Tail(outbox)
  /\ UNCHANGED <<wifiUpstream, requested, commands, record, unsaved, queue, mqttTask,
                otaTask, connected, installed, losses>>

\* ------------------------------------------------------------ the MQTT task

mqttFrame == <<wifiUpstream, requested, otaTask, reported, installed>>

\* A board with a session is sent its commands by the broker.  A leaf gets them
\* from its gateway: the relay's delivery task calls receive_relayed_mqtt_command,
\* which hands them to handle_ota_command as the MQTT client's task would.
HearsCommands == wifiUpstream => connected

\* MQTT_EVENT_DATA with an OTA command; QoS 1 may deliver it once more.
TakeCommand(r) ==
  /\ HearsCommands
  /\ mqttTask = Idle
  /\ mqttTask' = At("check", r)
  /\ \/ /\ commands' = commands \ {r}
        /\ UNCHANGED losses
     \/ /\ losses.redeliveries < MaxRedeliveries
        /\ Lose("redeliveries")
        /\ UNCHANGED commands
  /\ UNCHANGED <<mqttFrame, record, unsaved, queue, connected, outbox>>

IsPending(rec) == rec.state = "pending"

\* handle_ota_command: ota_is_pending refuses a second update.
CheckPending ==
  /\ mqttTask.at = "check"
  /\ IF IsPending(record)
     THEN /\ mqttTask' = Idle
          /\ \E works \in PublishOutcomes : Publish(mqttTask.request, "busy", works)
     ELSE /\ mqttTask' = At("save", mqttTask.request)
          /\ UNCHANGED outbox
  /\ UNCHANGED <<mqttFrame, commands, record, unsaved, queue, connected, losses>>

\* handle_ota_command: the request is recorded as pending before it is queued.
\* A save that fails, in its commit or after it wrote, may leave the new record.
SavePending ==
  /\ mqttTask.at = "save"
  /\ \/ /\ NvsMayWork
        /\ record' = Recorded("pending", mqttTask.request)
        /\ unsaved' = unsaved \ {mqttTask.request}
        /\ mqttTask' = At("enqueue", mqttTask.request)
        /\ UNCHANGED outbox
     \/ /\ NvsMayFail
        /\ mqttTask' = Idle
        /\ \E works \in PublishOutcomes : Publish(mqttTask.request, "failed", works)
        /\ \/ UNCHANGED <<record, unsaved>>
           \/ /\ record' = Recorded("pending", mqttTask.request)
              /\ unsaved' = unsaved \cup {mqttTask.request}
  /\ UNCHANGED <<mqttFrame, commands, queue, connected, losses>>

QueueHasRoom == Len(queue) < QueueDepth

\* handle_ota_command: xQueueSend without waiting; when the queue is full the
\* record is taken back.
Enqueue ==
  /\ mqttTask.at = "enqueue"
  /\ IF QueueHasRoom
     THEN /\ queue' = Append(queue, mqttTask.request)
          /\ mqttTask' = At("accept", mqttTask.request)
          /\ UNCHANGED <<record, outbox>>
     ELSE /\ ClearResult
          /\ mqttTask' = Idle
          /\ \E works \in PublishOutcomes : Publish(mqttTask.request, "busy", works)
          /\ UNCHANGED queue
  /\ UNCHANGED <<mqttFrame, commands, unsaved, connected, losses>>

\* handle_ota_command: the last thing is to report the request as accepted.
Accept ==
  /\ mqttTask.at = "accept"
  /\ \E works \in PublishOutcomes : Publish(mqttTask.request, "pending", works)
  /\ mqttTask' = Idle
  /\ UNCHANGED <<mqttFrame, commands, record, unsaved, queue, connected, losses>>

\* As if the CONNECTED handler did not look at the stored result.
AfterConnectNothing == Idle

\* What MQTT_EVENT_CONNECTED does after it set the bit: publish_saved_ota_result.
AfterConnect == At("publish", NoRequest)

\* start_mqtt is called on a board with Wi-Fi only.
Connect ==
  /\ wifiUpstream
  /\ ~connected
  /\ mqttTask = Idle
  /\ connected' = TRUE
  /\ mqttTask' = AfterConnect
  /\ UNCHANGED <<mqttFrame, commands, record, unsaved, queue, outbox, losses>>

Disconnect ==
  /\ connected
  /\ mqttTask = Idle
  /\ losses.disconnects < MaxDisconnects
  /\ Lose("disconnects")
  /\ connected' = FALSE
  /\ UNCHANGED <<mqttFrame, mqttTask, commands, record, unsaved, queue, outbox>>

\* As if the result were erased whether or not it could be published.
ClearsAnyway(works) == TRUE

\* publish_saved_ota_result, run by either task: the stored result is published
\* and erased only when the MQTT client took it.
ClearsAfter(works) == connected /\ works

PublishSaved(task, done) ==
  IF record.state \in Final
  THEN \E works \in PublishOutcomes :
         /\ Publish(record.request, record.state, works)
         /\ task' = IF ClearsAfter(works) THEN At("clear", record.request) ELSE done
  ELSE /\ task' = done
       /\ UNCHANGED outbox

PublishSavedOnConnect ==
  /\ mqttTask.at = "publish"
  /\ PublishSaved(mqttTask, Idle)
  /\ UNCHANGED <<mqttFrame, commands, record, unsaved, queue, connected, losses>>

ClearOnConnect ==
  /\ mqttTask.at = "clear"
  /\ ClearResult
  /\ mqttTask' = Idle
  /\ UNCHANGED <<mqttFrame, commands, unsaved, queue, connected, outbox, losses>>

\* ------------------------------------------------------------------ ota_task

otaFrame == <<wifiUpstream, requested, commands, unsaved, mqttTask, connected, reported,
              losses>>

\* xQueueReceive.
TakeUpdate ==
  /\ otaTask = Idle
  /\ queue # <<>>
  /\ otaTask' = At("announce", Head(queue))
  /\ queue' = Tail(queue)
  /\ UNCHANGED <<otaFrame, record, outbox, installed>>

\* Reports "downloading" before the download, "installed - rebooting" after it.
Announce ==
  /\ otaTask.at \in {"announce", "announceReboot"}
  /\ \E works \in PublishOutcomes : Publish(otaTask.request, "pending", works)
  /\ otaTask' = At(IF otaTask.at = "announce" THEN "download" ELSE "delay",
                  otaTask.request)
  /\ UNCHANGED <<otaFrame, record, queue, installed>>

\* esp_https_ota: the image is installed and made the boot image, or nothing is.
\* A leaf, whose station is not started, cannot reach the proxy.
Download ==
  /\ otaTask.at = "download"
  /\ \/ /\ wifiUpstream
        /\ installed' = installed \cup {otaTask.request}
        /\ otaTask' = At("saveSucceeded", otaTask.request)
     \/ /\ otaTask' = At("saveFailed", otaTask.request)
        /\ UNCHANGED installed
  /\ UNCHANGED <<otaFrame, record, queue, outbox>>

\* save_ota_result; a failure is fatal (see NvsAbort).
SaveResult ==
  /\ otaTask.at \in {"saveSucceeded", "saveFailed"}
  /\ NvsMayWork
  /\ \/ /\ otaTask.at = "saveSucceeded"
        /\ record' = Recorded("succeeded", otaTask.request)
        /\ otaTask' = At("announceReboot", otaTask.request)
     \/ /\ otaTask.at = "saveFailed"
        /\ record' = Recorded("failed", otaTask.request)
        /\ otaTask' = At("publish", otaTask.request)
  /\ UNCHANGED <<otaFrame, queue, outbox, installed>>

PublishFailure ==
  /\ otaTask.at = "publish"
  /\ PublishSaved(otaTask, Idle)
  /\ UNCHANGED <<otaFrame, record, queue, installed>>

ClearFailure ==
  /\ otaTask.at = "clear"
  /\ ClearResult
  /\ otaTask' = Idle
  /\ UNCHANGED <<otaFrame, queue, outbox, installed>>

\* ------------------------------------------------------------------ restarts

\* As if an update that was under way counted as done after any restart.
RecoveredAsSuccess(rec) ==
  IF rec.state = "pending" THEN Recorded("succeeded", rec.request) ELSE rec

\* As if app_main did not call recover_interrupted_ota.
RecoveredNever(rec) == rec

\* As if every record, not only a pending one, became a failure.
RecoveredAllFailed(rec) ==
  IF rec.state # "none" THEN Recorded("failed", rec.request) ELSE rec

\* recover_interrupted_ota.
Recovered(rec) ==
  IF rec.state = "pending" THEN Recorded("failed", rec.request) ELSE rec

\* Memory is lost, NVS, with rec, and the boot image stay; recover_interrupted_ota
\* runs before anything else, so a restart of it changes nothing.
RebootWith(rec) ==
  /\ record' = Recovered(rec)
  /\ unsaved' = {}
  /\ queue' = <<>>
  /\ mqttTask' = Idle
  /\ otaTask' = Idle
  /\ connected' = FALSE
  /\ outbox' = <<>>
  /\ UNCHANGED <<wifiUpstream, requested, commands, reported, installed>>

Reboot == RebootWith(record)

\* esp_restart, 1.5 s after the result of an installation was recorded.
Restart ==
  /\ otaTask.at = "delay"
  /\ DelayDrains => ~connected \/ outbox = <<>>
  /\ Reboot
  /\ UNCHANGED losses

\* ESP_ERROR_CHECK of a failed save_ota_result aborts; NVS has the old record, or
\* the new one.
NvsAbort ==
  /\ NvsMayFail
  /\ \/ otaTask.at \in {"saveSucceeded", "saveFailed"} /\ Reboot
     \/ otaTask.at = "saveSucceeded" /\ RebootWith(Recorded("succeeded", otaTask.request))
     \/ otaTask.at = "saveFailed" /\ RebootWith(Recorded("failed", otaTask.request))
  /\ UNCHANGED losses

\* Power loss, watchdog, or the reset button of the board.
Crash ==
  /\ losses.crashes < MaxCrashes
  /\ Lose("crashes")
  /\ Reboot

Init ==
  /\ wifiUpstream \in BOOLEAN
  /\ requested = {}
  /\ commands = {}
  /\ record = NoRecord
  /\ unsaved = {}
  /\ queue = <<>>
  /\ mqttTask = Idle
  /\ otaTask = Idle
  /\ connected = FALSE
  /\ outbox = <<>>
  /\ reported = {}
  /\ installed = {}
  /\ losses = [redeliveries |-> 0, disconnects |-> 0, crashes |-> 0]

\* handle_ota_command and the CONNECTED handler, after their first step.
MqttTaskStep ==
  \/ CheckPending \/ SavePending \/ Enqueue \/ Accept
  \/ PublishSavedOnConnect \/ ClearOnConnect

OtaTaskStep ==
  \/ TakeUpdate \/ Announce \/ Download \/ SaveResult
  \/ PublishFailure \/ ClearFailure \/ Restart \/ NvsAbort

Next ==
  \/ \E r \in Requests : Request(r)
  \/ \E r \in commands : TakeCommand(r)
  \/ Acknowledge
  \/ Connect
  \/ Disconnect
  \/ MqttTaskStep
  \/ OtaTaskStep
  \/ Crash

Spec == Init /\ [][Next]_vars

\* The scheduler runs the tasks, the client reconnects by itself, the broker
\* acknowledges reports, and a download ends (its HTTP timeout is 30 s).  A
\* command may stay with the broker: the session is clean, so one sent while
\* the device is away is lost.
Fairness ==
  /\ WF_vars(MqttTaskStep)
  /\ WF_vars(OtaTaskStep)
  /\ WF_vars(Connect)
  /\ WF_vars(Acknowledge)

FairSpec == Spec /\ Fairness
-----------------------------------------------------------------------------
\* Properties.

MqttSteps == {"idle", "check", "save", "enqueue", "accept", "publish", "clear"}
OtaSteps == {"idle", "announce", "download", "saveSucceeded", "announceReboot",
             "delay", "saveFailed", "publish", "clear"}

\* Every variable has its type, and ota_queue never holds more than its length.
TypeOK ==
  /\ wifiUpstream \in BOOLEAN
  /\ requested \subseteq Requests
  /\ commands \subseteq requested
  /\ record \in {NoRecord} \cup [state : Final \cup {"pending"}, request : Requests]
  /\ unsaved \subseteq Requests
  /\ queue \in Seq(Requests) /\ Len(queue) <= QueueDepth
  /\ mqttTask \in [at : MqttSteps, request : Requests \cup {NoRequest}]
  /\ otaTask \in [at : OtaSteps, request : Requests \cup {NoRequest}]
  /\ connected \in BOOLEAN
  /\ outbox \in Seq(Requests \X Statuses)
  /\ reported \subseteq Requests \X Statuses
  /\ installed \subseteq Requests
  /\ losses \in [redeliveries : 0..MaxRedeliveries, disconnects : 0..MaxDisconnects,
                 crashes : 0..MaxCrashes]

\* Nobody is told, and no record says, that an update succeeded which was not
\* installed, whatever restarts and repeated commands come between.
SucceededWasInstalled ==
  /\ \A r \in Requests : <<r, "succeeded">> \in reported \cup Sent => r \in installed
  /\ record.state = "succeeded" => record.request \in installed

\* An update on its way whose result will replace the record.
UpdateUnderWay ==
  \/ queue # <<>>
  \/ otaTask.at \in {"announce", "download", "saveSucceeded", "saveFailed"}
  \/ mqttTask.at = "enqueue"

\* A pending record does not outlive the updates under way, so that ota_is_pending
\* never refuses others for good: not after a reset, not when two commands cross,
\* not when a full queue could not take its record back.  Only a record that NVS
\* kept of a save that failed stays until a restart.
PendingIsUnderWay ==
  record.state = "pending" => UpdateUnderWay \/ record.request \in unsaved

\* When users ask for one update at a time, a result leaves NVS only when the
\* MQTT client holds its report or has delivered it: of the two tasks that
\* publish and erase the record neither erases more than was published.
ResultKeptUntilReported ==
  [][record.state \in Final /\ record' # record
     => /\ record'.state \in {"none", "pending"}
        /\ <<record.request, record.state>> \in reported \cup Sent]_vars

\* Without faults nobody is told that an installed update failed.
FailedNotInstalled ==
  \A r \in Requests : <<r, "failed">> \in reported \cup Sent => r \notin installed

\* On a board with a session a request that was recorded is answered in the
\* end, across the restart that ends a successful update and across a lost
\* session: a result saved while the session is down is published by the next
\* CONNECTED event.  A leaf has no session to answer in (main.cpp:358).
RecordedAnswered ==
  \A r \in Requests :
    wifiUpstream /\ record = Recorded("pending", r) ~> Answered(r)

\* Progress is published (firmware/README.md): an installed update is in the
\* end reported as succeeded.
InstalledReported ==
  \A r \in Requests : r \in installed ~> <<r, "succeeded">> \in reported
=============================================================================
