------------------------------ MODULE EspStartup ------------------------------
(***************************************************************************)
(* Provisioning and start-up of the ESP32 (firmware/src/main.cpp): an app  *)
(* writes a document to the endpoint mqtt-config over BLE and then, for a  *)
(* gateway, provisions Wi-Fi; the board saves the document in three NVS    *)
(* records, stops BLE and restarts into the saved settings.  From then on  *)
(* the mesh is started by its own task and MQTT by whichever comes first   *)
(* of the mesh and an IP address.                                          *)
(*                                                                         *)
(* The BLE host's task (the endpoint's handler), the event loop, the HaLow *)
(* connect task, finish_provisioning_task, restart_task and the button's   *)
(* task share NVS and the configuration in memory without a lock.  One     *)
(* step is one save or one access to what they share.                      *)
(***************************************************************************)
EXTENDS Naturals, FiniteSets

CONSTANTS
  Documents,        \* provisioning documents
  Upstream,         \* those with wifiUpstream = true
  Unsupported,      \* those with a channel the regulatory database lacks
  NoDocument,
  HandlerInTime,    \* 750 ms are enough for the handler that started
                    \* finish_provisioning_task to return
  MaxDocuments,     \* bound: documents sent
  MaxFaults,        \* bound: resets, failing writes, allocations and radios,
                    \* lost Wi-Fi links, start_mqtt calls that overlap
  MaxErasures       \* bound: long presses of the button

ASSUME StartupAssumption ==
  /\ Upstream \subseteq Documents /\ Unsupported \subseteq Documents
  /\ NoDocument \notin Documents
  /\ HandlerInTime \in BOOLEAN
  /\ MaxDocuments \in Nat /\ MaxFaults \in Nat /\ MaxErasures \in Nat

VARIABLES
  nvs,         \* the records that survive a reset
  ram,         \* mqtt_config (with kMqttConfigured) and halow_config
  mode,        \* how far app_main has come, and which way it went
  ble,         \* provisioning_active and what is to become of it
  handler,     \* where mqtt_config_handler is, with which document
  answer,      \* what the last document sent was answered
  mesh,        \* halow_connect_started and what became of it
  link,        \* the Wi-Fi station
  starting,    \* where each task is in start_mqtt
  handle,      \* mqtt_client: the task whose client it is
  running,     \* tasks whose MQTT client has been started
  overlapped,  \* two calls of start_mqtt overlapped since the last reset
  spent        \* documents, faults and erasures so far, for the bounds

startupVars == <<nvs, ram, mode, ble, handler, answer, mesh, link, starting,
                 handle, running, overlapped, spent>>

\* The tasks that call start_mqtt: the event loop and the HaLow connect task.
Callers == {"events", "halow"}
NoClient == "null"

\* A record is written key by key: the first keys and the last one may come
\* from different documents, or be missing.
Settings == [first : Documents \cup {NoDocument}, last : Documents \cup {NoDocument}]
Whole(d) == [first |-> d, last |-> d]
Unset == Whole(NoDocument)
Complete(record) == record.first # NoDocument /\ record.last # NoDocument

\* wifiUpstream is the last key of the mesh record.
IsUpstream(record) == record.last \in Upstream

\* Outcomes of saving d over a record: all keys written, only the first, none.
Saved(record, d) == {Whole(d), [record EXCEPT !.first = d], record}

Fail == /\ spent.faults < MaxFaults
        /\ spent' = [spent EXCEPT !.faults = @ + 1]
NoFault == UNCHANGED spent

Idle == [at |-> "idle", doc |-> NoDocument]
At(step) == [handler EXCEPT !.at = step]
Answer(kind, d) == [kind |-> kind, doc |-> d]
NoAnswer == Answer("none", NoDocument)

BleOff == [active |-> FALSE, finishing |-> FALSE, stopped |-> FALSE,
           restartAfter |-> FALSE, restarting |-> FALSE, erased |-> FALSE]

On == mode \in {"provisioning", "normal"}

\* ------------------------------------------------------------- start and reset

StartupInit ==
  /\ nvs = [mqtt |-> Unset, mesh |-> Unset, place |-> NoDocument, wifi |-> "none"]
  /\ ram = [mqtt |-> Unset, mesh |-> Unset]
  /\ mode = "off" /\ ble = BleOff /\ handler = Idle /\ answer = NoAnswer
  /\ mesh = "off" /\ link = "idle"
  /\ starting = [c \in Callers |-> "idle"]
  /\ handle = NoClient /\ running = {} /\ overlapped = FALSE
  /\ spent = [documents |-> 0, faults |-> 0, erasures |-> 0]

\* What a reset leaves: NVS, and what the app was told.
Restarted ==
  /\ mode' = "off" /\ ble' = BleOff /\ handler' = Idle
  /\ ram' = [mqtt |-> Unset, mesh |-> Unset]
  /\ mesh' = "off" /\ link' = "idle"
  /\ starting' = [c \in Callers |-> "idle"]
  /\ handle' = NoClient /\ running' = {} /\ overlapped' = FALSE
  /\ UNCHANGED <<nvs, answer>>

\* app_main: a complete mesh record means a normal start, without BLE; anything
\* else is provisioned over BLE.
Loaded == ram' = [mqtt |-> IF Complete(nvs.mqtt) THEN nvs.mqtt ELSE Unset,
                  mesh |-> IF Complete(nvs.mesh) THEN nvs.mesh ELSE Unset]

StartNormally ==
  /\ mode = "off" /\ Complete(nvs.mesh)
  /\ Loaded
  /\ mode' = "normal" /\ mesh' = "connecting"
  /\ link' = IF IsUpstream(nvs.mesh) THEN "joining" ELSE "idle"
  /\ UNCHANGED <<nvs, ble, handler, answer, starting, handle, running,
                overlapped, spent>>

\* esp_wifi_connect may refuse an empty SSID: ESP_ERROR_CHECK resets the board,
\* before the button's task exists, and so does every later start.
Abort ==
  /\ mode = "off" /\ Complete(nvs.mesh)
  /\ IsUpstream(nvs.mesh) /\ nvs.wifi = "none"
  /\ Loaded
  /\ mode' = "aborting"
  /\ UNCHANGED <<nvs, ble, handler, answer, mesh, link, starting, handle,
                running, overlapped, spent>>

StartProvisioning ==
  /\ mode = "off" /\ ~Complete(nvs.mesh)
  /\ Loaded
  /\ mode' = "provisioning"
  /\ ble' = [BleOff EXCEPT !.active = TRUE]
  /\ UNCHANGED <<nvs, handler, answer, mesh, link, starting, handle, running,
                overlapped, spent>>

\* restart_task, and the end of reset_button_task.
Restart ==
  /\ On /\ (ble.restarting \/ ble.erased)
  /\ Restarted /\ NoFault

Crash == On /\ Restarted /\ Fail

\* ------------------------------------------------------- app and mqtt-config

\* The app sends a document; the endpoint lives until BLE is stopped.
SendDocument(d) ==
  /\ mode = "provisioning" /\ ble.active /\ ~ble.stopped
  /\ handler = Idle
  /\ spent.documents < MaxDocuments
  /\ spent' = [spent EXCEPT !.documents = @ + 1]
  /\ handler' = [at |-> "mqtt", doc |-> d]
  /\ answer' = Answer("pending", d)
  /\ UNCHANGED <<nvs, ram, mode, ble, mesh, link, starting, handle, running,
                overlapped>>

\* As if a step that failed were only logged.
Overlooked == handler' = At("answer") /\ UNCHANGED answer

\* mqtt_config_handler, configure_mesh: any step that fails ends the request.
Refuse == handler' = Idle /\ answer' = Answer("refused", handler.doc)

\* A save works, or fails with part of the record written.  Nothing can be
\* written between the erasure of the flash and the restart that follows it.
Save(key, next) ==
  LET d == handler.doc IN
  \/ /\ ~ble.erased
     /\ nvs' = [nvs EXCEPT ![key] = Whole(d)]
     /\ handler' = At(next)
     /\ UNCHANGED answer /\ NoFault
  \/ /\ ~ble.erased
     /\ \E record \in Saved(nvs[key], d) \ {Whole(d)} : nvs' = [nvs EXCEPT ![key] = record]
     /\ Refuse /\ Fail
  \/ ble.erased /\ UNCHANGED nvs /\ Refuse /\ NoFault

\* mqtt_config_handler: save_mqtt_config.
SaveMqtt ==
  /\ On /\ handler.at = "mqtt"
  /\ Save("mqtt", "mesh")
  /\ UNCHANGED <<ram, mode, ble, mesh, link, starting, handle, running, overlapped>>

\* configure_mesh: the checks come after the MQTT record has been saved.
RefuseMesh ==
  /\ On /\ handler.at = "mesh" /\ handler.doc \in Unsupported
  /\ Refuse /\ NoFault
  /\ UNCHANGED <<nvs, ram, mode, ble, mesh, link, starting, handle, running, overlapped>>

SaveMesh ==
  /\ On /\ handler.at = "mesh" /\ handler.doc \notin Unsupported
  /\ Save("mesh", "place")
  /\ UNCHANGED <<ram, mode, ble, mesh, link, starting, handle, running, overlapped>>

\* start_halow_connection is called once per start.
StartHalow == mesh' = IF mesh = "off" THEN "connecting" ELSE mesh

\* configure_mesh: save_device_location, and then the configuration in memory;
\* a board without upstream stops BLE, or starts the mesh if BLE has stopped.
SavePlace ==
  LET d == handler.doc IN
  /\ On /\ handler.at = "place"
  /\ \/ /\ ~ble.erased
        /\ nvs' = [nvs EXCEPT !.place = d]
        /\ ram' = [ram EXCEPT !.mesh = Whole(d)]
        /\ \/ /\ d \in Upstream
              /\ handler' = At("answer")
              /\ UNCHANGED <<ble, mesh, answer>> /\ NoFault
           \/ /\ d \notin Upstream /\ ble.active
              /\ ble' = [ble EXCEPT !.finishing = TRUE]
              /\ handler' = At("answer")
              /\ UNCHANGED <<mesh, answer>> /\ NoFault
           \/ /\ d \notin Upstream /\ (ble.active \/ mesh = "off")
              \* xTaskCreate fails
              /\ Refuse /\ Fail
              /\ UNCHANGED <<ble, mesh>>
           \/ /\ d \notin Upstream /\ ~ble.active
              /\ StartHalow
              /\ handler' = At("answer")
              /\ UNCHANGED <<ble, answer>> /\ NoFault
     \/ /\ Refuse /\ UNCHANGED <<nvs, ram, ble, mesh>>
        /\ IF ble.erased THEN NoFault ELSE Fail
  /\ UNCHANGED <<mode, link, starting, handle, running, overlapped>>

\* As if the restart were left to whoever ends provisioning.
NotRestarting == ble

\* restart_after_provisioning = provisioning_active.
RestartAfter == [ble EXCEPT !.restartAfter = ble.active]

\* mqtt_config_handler: the rest.  An answer the button has overtaken is void.
Accept ==
  /\ On /\ handler.at = "answer"
  /\ ram' = [ram EXCEPT !.mqtt = Whole(handler.doc)]
  /\ ble' = RestartAfter
  /\ handler' = Idle
  /\ answer' = IF ble.erased THEN NoAnswer ELSE Answer("ok", handler.doc)
  /\ UNCHANGED <<nvs, mode, mesh, link, starting, handle, running, overlapped, spent>>

\* The app provisions Wi-Fi once a document with upstream has been accepted;
\* the user may mistype the password.
SendWifi(quality) ==
  /\ mode = "provisioning" /\ ble.active /\ ~ble.stopped /\ ~ble.erased
  /\ answer.kind = "ok" /\ answer.doc \in Upstream
  /\ link = "idle"
  /\ nvs' = [nvs EXCEPT !.wifi = quality]
  /\ link' = "joining"
  /\ UNCHANGED <<ram, mode, ble, handler, answer, mesh, starting, handle, running,
                overlapped, spent>>

\* NETWORK_PROV_WIFI_CRED_FAIL: the provisioning manager takes credentials
\* again, and may have dropped the ones it had.
RejectWifi ==
  /\ mode = "provisioning" /\ link = "joining" /\ nvs.wifi # "right"
  /\ starting["events"] = "idle"
  /\ link' = "idle"
  /\ \E kept \in {nvs.wifi, "none"} : nvs' = [nvs EXCEPT !.wifi = kept]
  /\ UNCHANGED <<ram, mode, ble, handler, answer, mesh, starting, handle, running,
                overlapped, spent>>

\* ------------------------------------------------------------- end of BLE

\* finish_provisioning_task, or the manager once Wi-Fi has been proved.
StopProvisioning ==
  /\ mode = "provisioning" /\ ble.active /\ ~ble.stopped
  /\ \/ ble.finishing /\ (HandlerInTime => handler.at # "answer")
     \/ link = "joined"
  /\ ble' = [ble EXCEPT !.stopped = TRUE]
  /\ UNCHANGED <<nvs, ram, mode, handler, answer, mesh, link, starting, handle,
                running, overlapped, spent>>

\* event_handler, NETWORK_PROV_END.
EndProvisioning ==
  /\ mode = "provisioning" /\ ble.active /\ ble.stopped
  /\ starting["events"] = "idle"
  /\ ble' = [ble EXCEPT !.active = FALSE,
                        !.restarting = ble.restarting \/ ble.restartAfter]
  /\ IF ~ble.restartAfter /\ IsUpstream(ram.mesh) THEN StartHalow ELSE UNCHANGED mesh
  /\ UNCHANGED <<nvs, ram, mode, handler, answer, link, starting, handle, running,
                overlapped, spent>>

\* reset_button_task after five seconds.
Erase ==
  /\ On /\ ~ble.erased
  /\ spent.erasures < MaxErasures
  /\ spent' = [spent EXCEPT !.erasures = @ + 1]
  /\ nvs' = [mqtt |-> Unset, mesh |-> Unset, place |-> NoDocument, wifi |-> "none"]
  /\ ble' = [ble EXCEPT !.erased = TRUE]
  /\ answer' = NoAnswer
  /\ UNCHANGED <<ram, mode, handler, mesh, link, starting, handle, running, overlapped>>

\* ------------------------------------------------------------- start_mqtt

\* As if a client that exists did not matter.
CreatesAgain == Complete(ram.mqtt)

\* start_mqtt: there are settings, and no client yet.
MayCreate == handle = NoClient /\ Complete(ram.mqtt)

\* The check at the start of start_mqtt; another call may be under way.
CallStartMqtt(c) ==
  /\ starting' = [starting EXCEPT ![c] = IF MayCreate THEN "creating" ELSE @]
  /\ IF starting'[c] = "creating" /\ \E o \in Callers \ {c} : starting[o] # "idle"
     THEN overlapped' = TRUE /\ Fail
     ELSE UNCHANGED overlapped /\ NoFault

\* mqtt_client = esp_mqtt_client_init(...)
CreateClient(c) ==
  /\ On /\ starting[c] = "creating"
  /\ handle' = c
  /\ starting' = [starting EXCEPT ![c] = "starting"]
  /\ UNCHANGED <<nvs, ram, mode, ble, handler, answer, mesh, link, running,
                overlapped, spent>>

\* esp_mqtt_client_start(mqtt_client): a client that runs cannot be started
\* again, and ESP_ERROR_CHECK resets the board.
StartClient(c) ==
  /\ On /\ starting[c] = "starting"
  /\ \/ /\ handle \notin running
        /\ running' = running \cup {handle}
        /\ starting' = [starting EXCEPT ![c] = "idle"]
        /\ UNCHANGED <<nvs, ram, mode, ble, handler, answer, mesh, link, handle,
                      overlapped, spent>>
     \/ handle \in running /\ Restarted /\ NoFault

\* ---------------------------------------------------------- Wi-Fi and HaLow

\* The station gets an address: IP_EVENT_STA_GOT_IP.
GotAddress ==
  /\ On /\ link = "joining" /\ nvs.wifi = "right"
  /\ starting["events"] = "idle"
  /\ link' = "joined"
  /\ IF IsUpstream(ram.mesh) THEN CallStartMqtt("events")
     ELSE UNCHANGED <<starting, overlapped, spent>>
  /\ UNCHANGED <<nvs, ram, mode, ble, handler, answer, mesh, handle, running>>

\* As if a link that was lost were not joined again.
LeftAlone == "idle"

\* event_handler: esp_wifi_connect on a gateway that is not being provisioned.
AfterLoss == IF IsUpstream(ram.mesh) /\ ~ble.active THEN "joining" ELSE "idle"

\* WIFI_EVENT_STA_DISCONNECTED: a gateway that is not being provisioned joins
\* again.  The seconds between BLE and the restart are left out.
LoseWifi ==
  /\ mode = "normal" /\ link = "joined" /\ starting["events"] = "idle"
  /\ Fail
  /\ link' = AfterLoss
  /\ UNCHANGED <<nvs, ram, mode, ble, handler, answer, mesh, starting, handle,
                running, overlapped>>

\* connect_halow_task: halow_connect starts the radio and calls halow_ready,
\* which starts MQTT on a gateway.
HalowReady ==
  /\ On /\ mesh = "connecting"
  /\ mesh' = "up"
  /\ IF IsUpstream(ram.mesh) THEN CallStartMqtt("halow")
     ELSE UNCHANGED <<starting, overlapped, spent>>
  /\ UNCHANGED <<nvs, ram, mode, ble, handler, answer, link, handle, running>>

\* The radio does not start: nobody tries again before the next reset.
HalowFails ==
  /\ On /\ mesh = "connecting"
  /\ mesh' = "failed" /\ Fail
  /\ UNCHANGED <<nvs, ram, mode, ble, handler, answer, link, starting, handle,
                running, overlapped>>

\* ------------------------------------------------------------- specification

Boot == StartNormally \/ Abort \/ StartProvisioning
Handle == SaveMqtt \/ RefuseMesh \/ SaveMesh \/ SavePlace \/ Accept
StartMqtt == \E c \in Callers : CreateClient(c) \/ StartClient(c)

StartupNext ==
  \/ StartNormally \/ Abort \/ StartProvisioning \/ Restart \/ Crash
  \/ \E d \in Documents : SendDocument(d)
  \/ \E quality \in {"right", "wrong"} : SendWifi(quality)
  \/ SaveMqtt \/ RefuseMesh \/ SaveMesh \/ SavePlace \/ Accept
  \/ RejectWifi \/ StopProvisioning \/ EndProvisioning \/ Erase
  \/ \E c \in Callers : CreateClient(c) \/ StartClient(c)
  \/ GotAddress \/ LoseWifi \/ HalowReady \/ HalowFails

\* Tasks run, delays pass, and an access point that is in range and known is
\* joined.  Nothing is assumed of the app and of the user.
StartupFairness ==
  /\ WF_startupVars(Boot) /\ WF_startupVars(Restart)
  /\ WF_startupVars(Handle)
  /\ WF_startupVars(StopProvisioning) /\ WF_startupVars(EndProvisioning)
  /\ WF_startupVars(StartMqtt)
  /\ WF_startupVars(GotAddress)
  /\ WF_startupVars(HalowReady \/ HalowFails)

StartupSpec == StartupInit /\ [][StartupNext]_startupVars
FairStartup == StartupSpec /\ StartupFairness

\* --------------------------------------------------------------- properties

StartupTypeOK ==
  /\ nvs \in [mqtt : Settings, mesh : Settings,
              place : Documents \cup {NoDocument}, wifi : {"none", "wrong", "right"}]
  /\ ram \in [mqtt : Settings, mesh : Settings]
  /\ mode \in {"off", "aborting", "provisioning", "normal"}
  /\ ble \in [active : BOOLEAN, finishing : BOOLEAN, stopped : BOOLEAN,
              restartAfter : BOOLEAN, restarting : BOOLEAN, erased : BOOLEAN]
  /\ handler \in [at : {"idle", "mqtt", "mesh", "place", "answer"},
                  doc : Documents \cup {NoDocument}]
  /\ answer \in [kind : {"none", "pending", "ok", "refused"},
                 doc : Documents \cup {NoDocument}]
  /\ mesh \in {"off", "connecting", "up", "failed"}
  /\ link \in {"idle", "joining", "joined"}
  /\ starting \in [Callers -> {"idle", "creating", "starting"}]
  /\ handle \in Callers \cup {NoClient}
  /\ running \subseteq Callers
  /\ overlapped \in BOOLEAN
  /\ spent \in [documents : 0..MaxDocuments, faults : 0..MaxFaults,
                erasures : 0..MaxErasures]

\* A document answered ok is in all three records, and stays there until the
\* next document or the button: records of two documents are found together
\* only after a refusal or a reset in the handler (mqtt_config_handler saves
\* the MQTT record before configure_mesh may refuse).
AcknowledgedIsStored ==
  answer.kind = "ok" =>
    /\ nvs.mqtt = Whole(answer.doc) /\ nvs.mesh = Whole(answer.doc)
    /\ nvs.place = answer.doc

\* A board that has started can be reached: BLE provisioning is active, or it
\* runs with the settings of a mesh, or it is about to restart (event_handler
\* closes BLE for good; only restart_after_provisioning brings the board back).
NeverDeaf ==
  On => ble.active \/ ble.restarting \/ ble.erased
        \/ (Complete(ram.mesh) /\ mesh # "off")

\* Two MQTT clients are started only if the event loop and the HaLow connect
\* task were in start_mqtt at the same time; addresses that come and go, and a
\* mesh that is late, leave one client, the one mqtt_client points to.
SecondClientNeedsOverlap ==
  ~overlapped => \A c \in running : c = handle

\* An accepted document without upstream, or one whose Wi-Fi is known, ends
\* with the board restarted into it (mqtt_config_handler through
\* finish_provisioning_task or the manager, NETWORK_PROV_END, restart_task); a
\* gateway then gets its uplink and its MQTT client, also when the link was
\* lost, before or after the mesh came up (event_handler).
Usable == answer.kind = "ok" /\ (answer.doc \in Upstream => nvs.wifi = "right")
RunsWith(d) == /\ mode = "normal" /\ ram.mesh = Whole(d) /\ mesh \in {"up", "failed"}
               /\ d \in Upstream => link = "joined" /\ running # {}
AcceptedIsUsed == Usable ~> (RunsWith(answer.doc) \/ ~Usable)

\* firmware/README.md, on what follows an accepted document: "With upstream
\* Wi-Fi, it waits for standard ESP-IDF Wi-Fi provisioning to finish before
\* starting the mesh."  After a reset the board decides by the mesh record
\* alone (app_main: provisioned = load_halow_config()).
WaitsForWifi ==
  answer.kind = "ok" /\ mode \in {"normal", "aborting"} /\ IsUpstream(ram.mesh)
    => nvs.wifi # "none"
=============================================================================
