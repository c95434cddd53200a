---------------------------- MODULE EspBoardProofs ----------------------------
(***************************************************************************)
(* Proofs about the ESP32 board. EspStartup: types, that an accepted       *)
(* document is stored, that a board that has started can be reached, and   *)
(* that two MQTT clients take two overlapping calls of start_mqtt.         *)
(* EspTelemetry, EspTopology, RelayPeers: types, that what leaves the      *)
(* telemetry queue is published except one reading for each outage and each*)
(* failure, that a report lists the neighbours it has room for, and that a *)
(* command goes to the leaf it is for as long as the leaves heard fit into *)
(* the peer table. SensorScript, ScriptOutput: types, that the ports and   *)
(* rails are off whenever no program has the hardware, that what the user  *)
(* was told is so, and that what is published is what its run wrote. All of*)
(* it for any documents, leaves and scripts, any sizes of the queues,      *)
(* tables and buffers, and any number of faults and commands.              *)
(***************************************************************************)
EXTENDS EspStartup, EspTelemetry, EspTopology, RelayPeers, SensorScript, ScriptOutput,
        FiniteSetTheorems, SequenceTheorems, TLAPS

\* --------------------------------------------------------------- EspStartup

\* ------------------------------------------------------------------- types

Docs == Documents \cup {NoDocument}
NvsType == [mqtt : Settings, mesh : Settings, place : Docs, wifi : {"none", "wrong", "right"}]
RamType == [mqtt : Settings, mesh : Settings]
BleType == [active : BOOLEAN, finishing : BOOLEAN, stopped : BOOLEAN,
            restartAfter : BOOLEAN, restarting : BOOLEAN, erased : BOOLEAN]
HandlerSteps == {"idle", "mqtt", "mesh", "place", "answer"}
HandlerType == [at : HandlerSteps, doc : Docs]
AnswerType == [kind : {"none", "pending", "ok", "refused"}, doc : Docs]
StartingType == [Callers -> {"idle", "creating", "starting"}]
SpentType == [documents : 0..MaxDocuments, faults : 0..MaxFaults, erasures : 0..MaxErasures]

LEMMA TypeOf ==
  StartupTypeOK <=>
    /\ nvs \in NvsType /\ ram \in RamType
    /\ mode \in {"off", "aborting", "provisioning", "normal"}
    /\ ble \in BleType /\ handler \in HandlerType /\ answer \in AnswerType
    /\ mesh \in {"off", "connecting", "up", "failed"}
    /\ link \in {"idle", "joining", "joined"}
    /\ starting \in StartingType
    /\ handle \in Callers \cup {NoClient} /\ running \subseteq Callers
    /\ overlapped \in BOOLEAN /\ spent \in SpentType
BY DEF StartupTypeOK, Docs, NvsType, RamType, BleType, HandlerType, HandlerSteps, AnswerType,
       StartingType, SpentType

\* The values the actions are built from.
LEMMA SettingsTypes ==
  /\ Unset \in Settings
  /\ \A d \in Docs : Whole(d) \in Settings
  /\ \A record \in Settings, d \in Docs : Saved(record, d) \subseteq Settings
BY DEF Unset, Whole, Settings, Saved, Docs

LEMMA CallerTypes ==
  /\ BleOff \in BleType /\ Idle \in HandlerType /\ NoAnswer \in AnswerType
  /\ [mqtt |-> Unset, mesh |-> Unset] \in RamType
  /\ [c \in Callers |-> "idle"] \in StartingType
<1>1. BleOff \in BleType BY DEF BleOff, BleType
<1>2. Idle \in HandlerType BY DEF Idle, HandlerType, HandlerSteps, Docs
<1>3. NoAnswer \in AnswerType BY DEF NoAnswer, Answer, AnswerType, Docs
<1>4. [mqtt |-> Unset, mesh |-> Unset] \in RamType BY SettingsTypes DEF RamType
<1>5. [c \in Callers |-> "idle"] \in StartingType BY DEF StartingType
<1> QED BY <1>1, <1>2, <1>3, <1>4, <1>5

LEMMA StepTypes ==
  ASSUME StartupTypeOK
  PROVE  /\ Fail => spent' \in SpentType
         /\ NoFault => spent' \in SpentType
         /\ \A step \in HandlerSteps : At(step) \in HandlerType
         /\ Refuse => handler' \in HandlerType /\ answer' \in AnswerType
<1>t. spent \in SpentType /\ handler \in HandlerType BY TypeOf
<1>1. Fail => spent' \in SpentType
  BY <1>t, StartupAssumption DEF Fail, SpentType
<1>2. NoFault => spent' \in SpentType BY <1>t DEF NoFault
<1>3. \A step \in HandlerSteps : At(step) \in HandlerType BY <1>t DEF At, HandlerType
<1>4. handler.doc \in Docs BY <1>t DEF HandlerType
<1>5. Refuse => handler' \in HandlerType /\ answer' \in AnswerType
  BY <1>4, CallerTypes DEF Refuse, Answer, AnswerType
<1> QED BY <1>1, <1>2, <1>3, <1>5

LEMMA SaveType ==
  ASSUME StartupTypeOK, NEW key \in {"mqtt", "mesh"}, NEW next \in HandlerSteps, Save(key, next)
  PROVE  /\ nvs' \in NvsType /\ handler' \in HandlerType
         /\ answer' \in AnswerType /\ spent' \in SpentType
<1>t. nvs \in NvsType /\ handler \in HandlerType /\ answer \in AnswerType BY TypeOf
<1>1. handler.doc \in Docs BY <1>t DEF HandlerType
<1>2. \A record \in Settings : [nvs EXCEPT ![key] = record] \in NvsType
  <2>1. CASE key = "mqtt" BY <1>t, <2>1 DEF NvsType
  <2>2. CASE key = "mesh" BY <1>t, <2>2 DEF NvsType
  <2> QED BY <2>1, <2>2
<1>3. nvs[key] \in Settings BY <1>t DEF NvsType
<1>4. Whole(handler.doc) \in Settings /\ Saved(nvs[key], handler.doc) \subseteq Settings
  BY <1>1, <1>3, SettingsTypes
<1> QED BY <1>t, <1>2, <1>4, StepTypes DEF Save

LEMMA CallType ==
  ASSUME StartupTypeOK, NEW c \in Callers, CallStartMqtt(c)
  PROVE  starting' \in StartingType /\ overlapped' \in BOOLEAN /\ spent' \in SpentType
<1>t. starting \in StartingType /\ overlapped \in BOOLEAN /\ spent \in SpentType BY TypeOf
<1>1. starting' \in StartingType BY <1>t DEF CallStartMqtt, StartingType
<1>2. overlapped' \in BOOLEAN BY <1>t DEF CallStartMqtt
<1>3. spent' \in SpentType BY StepTypes DEF CallStartMqtt
<1> QED BY <1>1, <1>2, <1>3

LEMMA StartupTypeInit == StartupInit => StartupTypeOK
<1> SUFFICES ASSUME StartupInit PROVE StartupTypeOK OBVIOUS
<1>1. nvs \in NvsType BY SettingsTypes DEF StartupInit, NvsType, Docs
<1>2. spent \in SpentType BY StartupAssumption DEF StartupInit, SpentType
<1>3. ram \in RamType /\ ble \in BleType /\ handler \in HandlerType /\ answer \in AnswerType
      /\ starting \in StartingType
  BY CallerTypes DEF StartupInit
<1> QED BY <1>1, <1>2, <1>3, TypeOf DEF StartupInit

\* A call of start_mqtt that is past esp_mqtt_client_init has a client.
HandleSet == \A c \in Callers : starting[c] = "starting" => handle \in Callers

LEMMA HandleStep ==
  StartupTypeOK /\ HandleSet /\ [StartupNext]_startupVars => HandleSet'
<1> SUFFICES ASSUME StartupTypeOK, HandleSet, [StartupNext]_startupVars PROVE HandleSet'
  OBVIOUS
<1>t. starting \in StartingType BY TypeOf
<1>r. ASSUME Restarted PROVE HandleSet' BY <1>r DEF Restarted, HandleSet
<1>1. CASE UNCHANGED <<starting, handle>> BY <1>1 DEF HandleSet
<1>2. CASE \/ StartNormally \/ Abort \/ StartProvisioning
           \/ \E d \in Documents : SendDocument(d)
           \/ \E quality \in {"right", "wrong"} : SendWifi(quality)
           \/ SaveMqtt \/ RefuseMesh \/ SaveMesh \/ SavePlace \/ Accept
           \/ RejectWifi \/ StopProvisioning \/ EndProvisioning \/ Erase
           \/ LoseWifi \/ HalowFails \/ UNCHANGED startupVars
  BY <1>1, <1>2 DEF StartNormally, Abort, StartProvisioning, SendDocument, SendWifi, SaveMqtt,
                    RefuseMesh, SaveMesh, SavePlace, Accept, RejectWifi, StopProvisioning,
                    EndProvisioning, Erase, LoseWifi, HalowFails, startupVars
<1>3. CASE Restart \/ Crash BY <1>3, <1>r DEF Restart, Crash
<1>4. ASSUME NEW c \in Callers, CreateClient(c) PROVE HandleSet'
  BY <1>4 DEF CreateClient, HandleSet
<1>5. ASSUME NEW c \in Callers, StartClient(c) PROVE HandleSet'
  BY <1>5, <1>t, <1>r DEF StartClient, HandleSet, StartingType
<1>6. ASSUME NEW c \in Callers, CallStartMqtt(c), handle' = handle PROVE HandleSet'
  BY <1>6, <1>t DEF CallStartMqtt, HandleSet, StartingType
<1>7. CASE GotAddress \/ HalowReady
  BY <1>7, <1>1, <1>6 DEF GotAddress, HalowReady, Callers
<1> QED BY <1>2, <1>3, <1>4, <1>5, <1>7 DEF StartupNext

LEMMA StartupTypeStep ==
  StartupTypeOK /\ HandleSet /\ [StartupNext]_startupVars => StartupTypeOK'
<1> SUFFICES ASSUME StartupTypeOK, HandleSet, [StartupNext]_startupVars PROVE StartupTypeOK'
  OBVIOUS
<1>t. /\ nvs \in NvsType /\ ram \in RamType
      /\ mode \in {"off", "aborting", "provisioning", "normal"}
      /\ ble \in BleType /\ handler \in HandlerType /\ answer \in AnswerType
      /\ mesh \in {"off", "connecting", "up", "failed"}
      /\ link \in {"idle", "joining", "joined"}
      /\ starting \in StartingType
      /\ handle \in Callers \cup {NoClient} /\ running \subseteq Callers
      /\ overlapped \in BOOLEAN /\ spent \in SpentType
  BY TypeOf
<1>u. ASSUME nvs' \in NvsType, ram' \in RamType,
             mode' \in {"off", "aborting", "provisioning", "normal"},
             ble' \in BleType, handler' \in HandlerType, answer' \in AnswerType,
             mesh' \in {"off", "connecting", "up", "failed"},
             link' \in {"idle", "joining", "joined"}, starting' \in StartingType,
             handle' \in Callers \cup {NoClient}, running' \subseteq Callers,
             overlapped' \in BOOLEAN, spent' \in SpentType
      PROVE  StartupTypeOK'
  BY <1>u DEF StartupTypeOK, Docs, NvsType, RamType, BleType, HandlerType, HandlerSteps,
              AnswerType, StartingType, SpentType
<1>s. /\ Fail => spent' \in SpentType
      /\ NoFault => spent' \in SpentType
      /\ \A step \in HandlerSteps : At(step) \in HandlerType
      /\ Refuse => handler' \in HandlerType /\ answer' \in AnswerType
  BY StepTypes
<1>r. ASSUME Restarted, spent' \in SpentType PROVE StartupTypeOK'
  BY <1>r, <1>t, <1>u, CallerTypes DEF Restarted
<1>l. ASSUME Loaded PROVE ram' \in RamType
  <2>1. nvs.mqtt \in Settings /\ nvs.mesh \in Settings BY <1>t DEF NvsType
  <2> QED BY <1>l, <2>1, SettingsTypes DEF Loaded, RamType
<1>b. \A v \in BOOLEAN : /\ [ble EXCEPT !.finishing = v] \in BleType
                         /\ [ble EXCEPT !.stopped = v] \in BleType
                         /\ [ble EXCEPT !.restartAfter = v] \in BleType
                         /\ [ble EXCEPT !.erased = v] \in BleType
                         /\ [BleOff EXCEPT !.active = v] \in BleType
  BY <1>t, CallerTypes DEF BleType
<1>d. handler.doc \in Docs /\ Whole(handler.doc) \in Settings
  BY <1>t, SettingsTypes DEF HandlerType
<1>1. CASE StartNormally BY <1>1, <1>t, <1>u, <1>l DEF StartNormally
<1>2. CASE Abort BY <1>2, <1>t, <1>u, <1>l DEF Abort
<1>3. CASE StartProvisioning BY <1>3, <1>t, <1>u, <1>l, <1>b DEF StartProvisioning
<1>4. CASE Restart BY <1>4, <1>r, <1>s DEF Restart
<1>5. CASE Crash BY <1>5, <1>r, <1>s DEF Crash
<1>6. ASSUME NEW d \in Documents, SendDocument(d) PROVE StartupTypeOK'
  <2>1. handler' \in HandlerType BY <1>6 DEF SendDocument, HandlerType, HandlerSteps, Docs
  <2>2. answer' \in AnswerType BY <1>6 DEF SendDocument, Answer, AnswerType, Docs
  <2>3. spent' \in SpentType
    BY <1>6, <1>t, StartupAssumption DEF SendDocument, SpentType
  <2> QED BY <1>6, <2>1, <2>2, <2>3, <1>t, <1>u DEF SendDocument
<1>7. CASE SaveMqtt
  <2>1. Save("mqtt", "mesh") /\ "mesh" \in HandlerSteps BY <1>7 DEF SaveMqtt, HandlerSteps
  <2> QED BY <1>7, <2>1, <1>t, <1>u, SaveType DEF SaveMqtt
<1>8. CASE RefuseMesh BY <1>8, <1>t, <1>u, <1>s DEF RefuseMesh
<1>9. CASE SaveMesh
  <2>1. Save("mesh", "place") /\ "place" \in HandlerSteps BY <1>9 DEF SaveMesh, HandlerSteps
  <2> QED BY <1>9, <2>1, <1>t, <1>u, SaveType DEF SaveMesh
<1>10. CASE SavePlace
  <2>1. [nvs EXCEPT !.place = handler.doc] \in NvsType
        /\ [ram EXCEPT !.mesh = Whole(handler.doc)] \in RamType
    BY <1>t, <1>d DEF NvsType, RamType
  <2>2. nvs' \in NvsType /\ ram' \in RamType BY <1>10, <2>1, <1>t DEF SavePlace
  <2>3. ble' \in BleType BY <1>10, <1>t, <1>b DEF SavePlace
  <2>4. handler' \in HandlerType /\ answer' \in AnswerType /\ spent' \in SpentType
    BY <1>10, <1>t, <1>s DEF SavePlace, HandlerSteps
  <2>5. mesh' \in {"off", "connecting", "up", "failed"}
    BY <1>10, <1>t DEF SavePlace, StartHalow
  <2> QED BY <1>10, <2>2, <2>3, <2>4, <2>5, <1>t, <1>u DEF SavePlace
<1>11. CASE Accept
  <2>1. ram' \in RamType BY <1>11, <1>t, <1>d DEF Accept, RamType
  <2>2. ble.active \in BOOLEAN BY <1>t DEF BleType
  <2>3. ble' \in BleType BY <1>11, <2>2, <1>b DEF Accept, RestartAfter
  <2>4. answer' \in AnswerType
    BY <1>11, <1>d, CallerTypes DEF Accept, Answer, AnswerType
  <2> QED BY <1>11, <2>1, <2>3, <2>4, <1>t, <1>u, CallerTypes DEF Accept
<1>12. ASSUME NEW quality \in {"right", "wrong"}, SendWifi(quality) PROVE StartupTypeOK'
  <2>1. nvs' \in NvsType BY <1>12, <1>t DEF SendWifi, NvsType
  <2> QED BY <1>12, <2>1, <1>t, <1>u DEF SendWifi
<1>13. CASE RejectWifi
  <2>1. nvs' \in NvsType BY <1>13, <1>t DEF RejectWifi, NvsType
  <2> QED BY <1>13, <2>1, <1>t, <1>u DEF RejectWifi
<1>14. CASE StopProvisioning BY <1>14, <1>t, <1>u, <1>b DEF StopProvisioning
<1>15. CASE EndProvisioning
  <2>1. ble' \in BleType BY <1>15, <1>t DEF EndProvisioning, BleType
  <2>2. mesh' \in {"off", "connecting", "up", "failed"}
    BY <1>15, <1>t DEF EndProvisioning, StartHalow
  <2> QED BY <1>15, <2>1, <2>2, <1>t, <1>u DEF EndProvisioning
<1>16. CASE Erase
  <2>1. nvs' \in NvsType BY <1>16, SettingsTypes DEF Erase, NvsType, Docs
  <2>2. spent' \in SpentType BY <1>16, <1>t, StartupAssumption DEF Erase, SpentType
  <2> QED BY <1>16, <2>1, <2>2, <1>t, <1>u, <1>b, CallerTypes DEF Erase
<1>17. ASSUME NEW c \in Callers, CreateClient(c) PROVE StartupTypeOK'
  <2>1. starting' \in StartingType BY <1>17, <1>t DEF CreateClient, StartingType
  <2> QED BY <1>17, <2>1, <1>t, <1>u DEF CreateClient
<1>18. ASSUME NEW c \in Callers, StartClient(c) PROVE StartupTypeOK'
  <2>1. CASE handle \in running /\ Restarted /\ NoFault BY <2>1, <1>r, <1>s
  <2>2. CASE handle \notin running /\ running' = running \cup {handle}
    <3>1. starting' \in StartingType BY <1>18, <2>2, <1>t DEF StartClient, StartingType
    <3>2. running' \subseteq Callers
      BY <1>18, <2>2, <1>t DEF StartClient, HandleSet
    <3> QED BY <1>18, <2>2, <3>1, <3>2, <1>t, <1>u DEF StartClient
  <2> QED BY <1>18, <2>1, <2>2 DEF StartClient
<1>19. CASE GotAddress
  <2>1. starting' \in StartingType /\ overlapped' \in BOOLEAN /\ spent' \in SpentType
    BY <1>19, <1>t, CallType DEF GotAddress, Callers
  <2> QED BY <1>19, <2>1, <1>t, <1>u DEF GotAddress
<1>20. CASE LoseWifi BY <1>20, <1>t, <1>u, <1>s DEF LoseWifi, AfterLoss
<1>21. CASE HalowReady
  <2>1. starting' \in StartingType /\ overlapped' \in BOOLEAN /\ spent' \in SpentType
    BY <1>21, <1>t, CallType DEF HalowReady, Callers
  <2> QED BY <1>21, <2>1, <1>t, <1>u DEF HalowReady
<1>22. CASE HalowFails BY <1>22, <1>t, <1>u, <1>s DEF HalowFails
<1>23. CASE UNCHANGED startupVars BY <1>23, <1>t, <1>u DEF startupVars
<1> QED
  BY <1>1, <1>2, <1>3, <1>4, <1>5, <1>6, <1>7, <1>8, <1>9, <1>10, <1>11, <1>12, <1>13,
     <1>14, <1>15, <1>16, <1>17, <1>18, <1>19, <1>20, <1>21, <1>22, <1>23 DEF StartupNext

\* Every variable of the start-up keeps its type.
THEOREM StartupTypeCorrect == StartupSpec => []StartupTypeOK
<1>1. StartupInit => StartupTypeOK /\ HandleSet
  BY StartupTypeInit DEF StartupInit, HandleSet
<1>2. StartupTypeOK /\ HandleSet /\ [StartupNext]_startupVars => (StartupTypeOK /\ HandleSet)'
  BY StartupTypeStep, HandleStep
<1> QED BY <1>1, <1>2, PTL DEF StartupSpec

\* ------------------------------------------------------ what was acknowledged

\* How far the handler has come shows in NVS, unless the button has erased it,
\* and the answer to its document is still to come.
HandlerSaved ==
  /\ mode # "provisioning" => handler.at = "idle"
  /\ handler.at # "idle" => answer.kind # "ok" /\ handler.doc \in Documents
  /\ ~ble.erased =>
       /\ handler.at \in {"mesh", "place", "answer"} => nvs.mqtt = Whole(handler.doc)
       /\ handler.at \in {"place", "answer"} => nvs.mesh = Whole(handler.doc)
       /\ handler.at = "answer" => nvs.place = handler.doc
AnswerSaved == answer.kind = "ok" => answer.doc \in Documents
SavedInv == StartupTypeOK /\ HandleSet /\ HandlerSaved /\ AnswerSaved /\ AcknowledgedIsStored

LEMMA SavedInit == StartupInit => SavedInv
<1> SUFFICES ASSUME StartupInit PROVE SavedInv OBVIOUS
<1>1. StartupTypeOK /\ HandleSet BY StartupTypeInit DEF StartupInit, HandleSet
<1>2. HandlerSaved /\ AnswerSaved /\ AcknowledgedIsStored
  BY DEF StartupInit, HandlerSaved, AnswerSaved, AcknowledgedIsStored, Idle, NoAnswer, Answer
<1> QED BY <1>1, <1>2 DEF SavedInv

\* A request that is refused leaves no handler and no ok.
LEMMA RefusedIsSaved ==
  ASSUME Refuse
  PROVE  HandlerSaved' /\ AnswerSaved' /\ AcknowledgedIsStored'
BY DEF Refuse, Idle, Answer, HandlerSaved, AnswerSaved, AcknowledgedIsStored

LEMMA SavedStep == SavedInv /\ [StartupNext]_startupVars => SavedInv'
<1> SUFFICES ASSUME SavedInv, [StartupNext]_startupVars PROVE SavedInv'
  OBVIOUS
<1> DEFINE Kept == HandlerSaved' /\ AnswerSaved' /\ AcknowledgedIsStored'
<1>t. StartupTypeOK' /\ HandleSet' BY StartupTypeStep, HandleStep DEF SavedInv
<1> SUFFICES Kept BY <1>t DEF SavedInv
<1>y. /\ nvs \in NvsType /\ handler \in HandlerType /\ answer \in AnswerType
      /\ ble \in BleType
  BY TypeOf DEF SavedInv
<1>i. HandlerSaved /\ AnswerSaved /\ AcknowledgedIsStored BY DEF SavedInv
<1>0. ASSUME UNCHANGED <<nvs, handler, answer>>, ble.erased = ble'.erased, mode' = mode
      PROVE  Kept
  <2>1. AnswerSaved' BY <1>0, <1>i DEF AnswerSaved
  <2>2. AcknowledgedIsStored' BY <1>0, <1>i DEF AcknowledgedIsStored
  <2>3. HandlerSaved' BY <1>0, <1>i DEF HandlerSaved
  <2> QED BY <2>1, <2>2, <2>3
<1>r. ASSUME Restarted PROVE Kept
  <2>1. handler'.at = "idle" /\ UNCHANGED <<nvs, answer>> BY <1>r DEF Restarted, Idle
  <2> QED BY <2>1, <1>i DEF HandlerSaved, AnswerSaved, AcknowledgedIsStored
<1>f. Refuse => Kept
  BY RefusedIsSaved
<1>p. handler.at # "idle" => mode = "provisioning" BY <1>i DEF HandlerSaved
<1>1. CASE StartNormally \/ Abort \/ StartProvisioning
  <2>1. handler'.at = "idle" /\ UNCHANGED <<nvs, answer>>
    BY <1>1, <1>i DEF StartNormally, Abort, StartProvisioning, HandlerSaved
  <2> QED BY <2>1, <1>i DEF HandlerSaved, AnswerSaved, AcknowledgedIsStored
<1>2. CASE Restart \/ Crash BY <1>2, <1>r DEF Restart, Crash
<1>3. ASSUME NEW d \in Documents, SendDocument(d) PROVE Kept
  <2>1. handler'.at = "mqtt" /\ handler'.doc = d /\ answer'.kind = "pending" /\ mode' = "provisioning"
    BY <1>3 DEF SendDocument, Answer
  <2> QED BY <2>1 DEF HandlerSaved, AnswerSaved, AcknowledgedIsStored
<1>4. CASE SaveMqtt
  <2>1. CASE Refuse BY <2>1, <1>f
  <2>2. CASE /\ ~ble.erased /\ nvs' = [nvs EXCEPT !["mqtt"] = Whole(handler.doc)]
             /\ handler' = At("mesh") /\ answer' = answer
    <3>1. handler'.at = "mesh" /\ handler'.doc = handler.doc BY <2>2, <1>y DEF At, HandlerType
    <3>2. nvs'.mqtt = Whole(handler.doc) BY <2>2, <1>y DEF NvsType
    <3>3. handler.at = "mqtt" /\ mode' = mode BY <1>4 DEF SaveMqtt
    <3> QED BY <2>2, <3>1, <3>2, <3>3, <1>i, <1>p DEF HandlerSaved, AnswerSaved, AcknowledgedIsStored
  <2> QED BY <1>4, <2>1, <2>2 DEF SaveMqtt, Save
<1>5. CASE RefuseMesh BY <1>5, <1>f DEF RefuseMesh
<1>6. CASE SaveMesh
  <2>1. CASE Refuse BY <2>1, <1>f
  <2>2. CASE /\ ~ble.erased /\ nvs' = [nvs EXCEPT !["mesh"] = Whole(handler.doc)]
             /\ handler' = At("place") /\ answer' = answer
    <3>1. handler'.at = "place" /\ handler'.doc = handler.doc BY <2>2, <1>y DEF At, HandlerType
    <3>2. nvs'.mesh = Whole(handler.doc) /\ nvs'.mqtt = nvs.mqtt BY <2>2, <1>y DEF NvsType
    <3>3. handler.at = "mesh" /\ mode' = mode BY <1>6 DEF SaveMesh
    <3> QED BY <2>2, <3>1, <3>2, <3>3, <1>i, <1>p DEF HandlerSaved, AnswerSaved, AcknowledgedIsStored
  <2> QED BY <1>6, <2>1, <2>2 DEF SaveMesh, Save
<1>7. CASE SavePlace
  <2>1. CASE Refuse BY <2>1, <1>f
  <2>2. CASE /\ ~ble.erased /\ nvs' = [nvs EXCEPT !.place = handler.doc]
             /\ handler' = At("answer") /\ answer' = answer
    <3>1. handler'.at = "answer" /\ handler'.doc = handler.doc BY <2>2, <1>y DEF At, HandlerType
    <3>2. nvs'.place = handler.doc /\ nvs'.mesh = nvs.mesh /\ nvs'.mqtt = nvs.mqtt
      BY <2>2, <1>y DEF NvsType
    <3>3. handler.at = "place" /\ mode' = mode BY <1>7 DEF SavePlace
    <3> QED BY <2>2, <3>1, <3>2, <3>3, <1>i, <1>p DEF HandlerSaved, AnswerSaved, AcknowledgedIsStored
  <2> QED BY <1>7, <2>1, <2>2 DEF SavePlace
<1>8. CASE Accept
  <2>1. handler'.at = "idle" /\ handler.at = "answer" /\ nvs' = nvs BY <1>8 DEF Accept, Idle
  <2>2. handler.doc \in Documents BY <2>1, <1>i DEF HandlerSaved
  <2>3. answer' = (IF ble.erased THEN NoAnswer ELSE Answer("ok", handler.doc))
    BY <1>8 DEF Accept
  <2>4. CASE ble.erased
    <3>1. answer'.kind = "none" BY <2>3, <2>4 DEF NoAnswer, Answer
    <3> QED BY <2>1, <3>1 DEF HandlerSaved, AnswerSaved, AcknowledgedIsStored
  <2>5. CASE ~ble.erased
    <3>1. answer'.doc = handler.doc BY <2>3, <2>5 DEF Answer
    <3> QED BY <2>1, <2>2, <2>5, <3>1, <1>i DEF HandlerSaved, AnswerSaved, AcknowledgedIsStored
  <2> QED BY <2>4, <2>5
<1>9. CASE RejectWifi \/ \E quality \in {"right", "wrong"} : SendWifi(quality)
  <2>1. UNCHANGED <<handler, answer, ble, mode>> BY <1>9 DEF RejectWifi, SendWifi
  <2>2. nvs'.mqtt = nvs.mqtt /\ nvs'.mesh = nvs.mesh /\ nvs'.place = nvs.place
    BY <1>9, <1>y DEF RejectWifi, SendWifi, NvsType
  <2> QED BY <2>1, <2>2, <1>i DEF HandlerSaved, AnswerSaved, AcknowledgedIsStored
<1>10. CASE Erase
  <2>1. answer'.kind = "none" /\ handler' = handler /\ mode' = mode /\ ble'.erased
    BY <1>10, <1>y DEF Erase, NoAnswer, Answer, BleType
  <2> QED BY <2>1, <1>i DEF HandlerSaved, AnswerSaved, AcknowledgedIsStored
<1>11. CASE StopProvisioning \/ EndProvisioning
  <2>1. UNCHANGED <<nvs, handler, answer, mode>> /\ ble.erased = ble'.erased
    BY <1>11, <1>y DEF StopProvisioning, EndProvisioning, BleType
  <2> QED BY <2>1, <1>0
<1>12. ASSUME NEW c \in Callers, StartClient(c) PROVE Kept
  BY <1>12, <1>0, <1>r DEF StartClient
<1>13. CASE \/ \E c \in Callers : CreateClient(c)
            \/ GotAddress \/ LoseWifi \/ HalowReady \/ HalowFails \/ UNCHANGED startupVars
  BY <1>13, <1>0 DEF CreateClient, GotAddress, LoseWifi, HalowReady, HalowFails, startupVars
<1> QED
  BY <1>1, <1>2, <1>3, <1>4, <1>5, <1>6, <1>7, <1>8, <1>9, <1>10, <1>11, <1>12, <1>13
     DEF StartupNext

\* A document that was answered ok is in all three records until the next one or
\* the button, whatever fails, resets or overtakes the handler.
THEOREM AcknowledgedIsStoredHolds == StartupSpec => []AcknowledgedIsStored
<1>1. StartupInit => SavedInv BY SavedInit
<1>2. SavedInv /\ [StartupNext]_startupVars => SavedInv' BY SavedStep
<1>3. SavedInv => AcknowledgedIsStored BY DEF SavedInv
<1> QED BY <1>1, <1>2, <1>3, PTL DEF StartupSpec

\* --------------------------------------------------------- can be reached

\* BLE is only stopped once the handler that asked for it has set
\* restart_after_provisioning, or Wi-Fi has been proved, which takes an accepted
\* document of this start; and a board without BLE is restarting, or runs.
\* (Without HandlerInTime the handler may still be there.)
WaysToEnd ==
  /\ ble.active \/ ble.restarting \/ ble.erased
  /\ ble.active /\ ble.finishing => handler.at = "answer" \/ ble.restartAfter
  /\ ble.active /\ answer.kind = "ok" => ble.restartAfter
  /\ ble.active /\ link # "idle" => ble.restartAfter
  /\ ble.active /\ ble.stopped => ble.restartAfter
Reachable ==
  /\ mode = "off" => ble = BleOff /\ link = "idle"
  /\ mode = "provisioning" => WaysToEnd
  /\ mode = "normal" => Complete(ram.mesh) /\ mesh # "off"
ReachInv == SavedInv /\ Reachable

LEMMA ReachInit == StartupInit => ReachInv
<1> SUFFICES ASSUME StartupInit PROVE ReachInv OBVIOUS
<1>1. mode = "off" /\ ble = BleOff /\ link = "idle" BY DEF StartupInit
<1> QED BY <1>1, SavedInit DEF ReachInv, Reachable

LEMMA ReachStep ==
  ASSUME HandlerInTime, ReachInv, [StartupNext]_startupVars
  PROVE  ReachInv'
<1>s. SavedInv' BY SavedStep DEF ReachInv
<1> SUFFICES Reachable' BY <1>s DEF ReachInv
<1>y. handler \in HandlerType /\ ble \in BleType
  BY TypeOf DEF ReachInv, SavedInv
<1>i. Reachable /\ HandlerSaved /\ AnswerSaved /\ AcknowledgedIsStored
  BY DEF ReachInv, SavedInv
<1>p. handler.at # "idle" => mode = "provisioning" /\ answer.kind # "ok"
  BY <1>i DEF HandlerSaved
<1>0. ASSUME UNCHANGED <<mode, ble, ram, link, answer>>, handler'.at = handler.at,
             mesh # "off" => mesh' # "off"
      PROVE  Reachable'
  BY <1>0, <1>i DEF Reachable, WaysToEnd
<1>r. Restarted => Reachable' BY DEF Restarted, Reachable
<1>b. /\ BleOff.active = FALSE /\ BleOff.finishing = FALSE /\ BleOff.stopped = FALSE
      /\ BleOff.restartAfter = FALSE /\ BleOff.restarting = FALSE /\ BleOff.erased = FALSE
  BY DEF BleOff
\* The handler at work, up to its answer.
<1>h. ASSUME handler.at \in {"mqtt", "mesh", "place"}, mode' = mode, link' = link,
             answer'.kind # "ok",
             ble' = ble \/ (ble' = [ble EXCEPT !.finishing = TRUE] /\ handler'.at = "answer")
      PROVE  Reachable'
  <2>1. mode' = "provisioning" /\ WaysToEnd BY <1>h, <1>p, <1>i DEF Reachable
  <2>2. CASE ble' = ble BY <1>h, <2>1, <2>2 DEF Reachable, WaysToEnd
  <2>3. CASE ble' = [ble EXCEPT !.finishing = TRUE] /\ handler'.at = "answer"
    BY <1>h, <1>y, <2>1, <2>3 DEF Reachable, WaysToEnd, BleType
  <2> QED BY <1>h, <2>2, <2>3
<1>f. Refuse => answer'.kind # "ok" BY DEF Refuse, Answer
<1>1. CASE StartNormally
  <2>1. ram'.mesh = nvs.mesh /\ Complete(nvs.mesh) BY <1>1 DEF StartNormally, Loaded
  <2>2. mode' = "normal" /\ mesh' = "connecting" BY <1>1 DEF StartNormally
  <2> QED BY <2>1, <2>2 DEF Reachable, Complete
<1>2. CASE Abort BY <1>2 DEF Abort, Reachable
<1>3. CASE StartProvisioning
  <2>1. answer.kind # "ok"
    <3>1. answer.kind = "ok" => nvs.mesh = Whole(answer.doc) /\ answer.doc \in Documents
      BY <1>i DEF AcknowledgedIsStored, AnswerSaved
    <3>2. answer.kind = "ok" => Complete(nvs.mesh)
      BY <3>1, StartupAssumption DEF Complete, Whole
    <3> QED BY <1>3, <3>2 DEF StartProvisioning
  <2>2. mode' = "provisioning" /\ answer' = answer /\ link' = "idle"
        /\ ble' = [BleOff EXCEPT !.active = TRUE]
    BY <1>3, <1>i DEF StartProvisioning, Reachable
  <2>3. ble'.active /\ ~ble'.finishing /\ ~ble'.stopped BY <2>2 DEF BleOff
  <2> QED BY <2>1, <2>2, <2>3 DEF Reachable, WaysToEnd
<1>4. CASE Restart \/ Crash BY <1>4, <1>r DEF Restart, Crash
<1>5. ASSUME NEW d \in Documents, SendDocument(d) PROVE Reachable'
  <2>1. handler.at = "idle" /\ answer'.kind = "pending" /\ WaysToEnd
    BY <1>5, <1>i DEF SendDocument, Idle, Answer, Reachable
  <2>2. mode' = "provisioning" /\ UNCHANGED <<ble, link>> BY <1>5 DEF SendDocument
  <2> QED BY <2>1, <2>2 DEF Reachable, WaysToEnd
<1>6. CASE SaveMqtt \/ SaveMesh
  <2>1. answer' = answer \/ Refuse BY <1>6 DEF SaveMqtt, SaveMesh, Save
  <2>2. handler.at \in {"mqtt", "mesh"} /\ UNCHANGED <<mode, link, ble>>
    BY <1>6 DEF SaveMqtt, SaveMesh
  <2> QED BY <2>1, <2>2, <1>f, <1>h, <1>p
<1>7. CASE RefuseMesh BY <1>7, <1>f, <1>h DEF RefuseMesh
<1>8. CASE SavePlace
  <2>1. answer' = answer \/ Refuse BY <1>8 DEF SavePlace
  <2>2. handler.at = "place" /\ UNCHANGED <<mode, link>> BY <1>8 DEF SavePlace
  <2>3. At("answer").at = "answer" BY <1>y DEF At, HandlerType
  <2>4. ble' = ble \/ (ble' = [ble EXCEPT !.finishing = TRUE] /\ handler'.at = "answer")
    BY <1>8, <2>3 DEF SavePlace
  <2> QED BY <2>1, <2>2, <2>4, <1>f, <1>h, <1>p
<1>9. CASE Accept
  <2>1. handler.at = "answer" /\ UNCHANGED <<mode, link>> /\ ble' = RestartAfter
    BY <1>9 DEF Accept
  <2>2. mode' = "provisioning" /\ WaysToEnd BY <2>1, <1>p, <1>i DEF Reachable
  <2>3. /\ ble'.active = ble.active /\ ble'.restartAfter = ble.active
        /\ ble'.restarting = ble.restarting /\ ble'.erased = ble.erased
    BY <2>1, <1>y DEF RestartAfter, BleType
  <2> QED BY <2>2, <2>3 DEF Reachable, WaysToEnd
<1>10. ASSUME NEW quality \in {"right", "wrong"}, SendWifi(quality) PROVE Reachable'
  BY <1>10, <1>i DEF SendWifi, Reachable, WaysToEnd
<1>11. CASE RejectWifi BY <1>11, <1>i DEF RejectWifi, Reachable, WaysToEnd
<1>12. CASE StopProvisioning
  <2>1. ble.restartAfter
    BY <1>12, <1>i DEF StopProvisioning, Reachable, WaysToEnd
  <2>2. /\ ble'.active = ble.active /\ ble'.restartAfter = ble.restartAfter
        /\ ble'.finishing = ble.finishing
    BY <1>12, <1>y DEF StopProvisioning, BleType
  <2>3. mode' = "provisioning" /\ ble.active BY <1>12 DEF StopProvisioning
  <2> QED BY <2>1, <2>2, <2>3 DEF Reachable, WaysToEnd
<1>13. CASE EndProvisioning
  <2>1. ble.restartAfter BY <1>13, <1>i DEF EndProvisioning, Reachable, WaysToEnd
  <2>2. ~ble'.active /\ ble'.restarting BY <1>13, <2>1, <1>y DEF EndProvisioning, BleType
  <2>3. mode' = "provisioning" BY <1>13 DEF EndProvisioning
  <2> QED BY <2>2, <2>3 DEF Reachable, WaysToEnd
<1>14. CASE Erase
  <2>1. answer'.kind = "none" /\ ble'.erased /\ mode' = mode /\ mode # "off"
        /\ UNCHANGED <<ram, mesh, link, handler>>
    BY <1>14, <1>y DEF Erase, NoAnswer, Answer, BleType, On
  <2>2. /\ ble'.active = ble.active /\ ble'.restartAfter = ble.restartAfter
        /\ ble'.finishing = ble.finishing /\ ble'.stopped = ble.stopped
    BY <1>14, <1>y DEF Erase, BleType
  <2> QED BY <2>1, <2>2, <1>i DEF Reachable, WaysToEnd
<1>15. ASSUME NEW c \in Callers, CreateClient(c) PROVE Reachable'
  BY <1>15, <1>0 DEF CreateClient
<1>16. ASSUME NEW c \in Callers, StartClient(c) PROVE Reachable'
  BY <1>16, <1>0, <1>r DEF StartClient
<1>17. CASE GotAddress BY <1>17, <1>i DEF GotAddress, Reachable, WaysToEnd, On
<1>18. CASE LoseWifi BY <1>18, <1>i DEF LoseWifi, Reachable
<1>19. CASE HalowReady \/ HalowFails BY <1>19, <1>0 DEF HalowReady, HalowFails
<1>20. CASE UNCHANGED startupVars BY <1>20, <1>0 DEF startupVars
<1> QED
  BY <1>1, <1>2, <1>3, <1>4, <1>5, <1>6, <1>7, <1>8, <1>9, <1>10, <1>11, <1>12, <1>13,
     <1>14, <1>15, <1>16, <1>17, <1>18, <1>19, <1>20 DEF StartupNext

\* A board that has started is never left without BLE, without a mesh to run and
\* without a restart to come, provided that 750 ms are enough for the handler.
THEOREM NeverDeafHolds ==
  ASSUME HandlerInTime
  PROVE  StartupSpec => []NeverDeaf
<1>1. StartupInit => ReachInv BY ReachInit
<1>2. ReachInv /\ [StartupNext]_startupVars => ReachInv' BY ReachStep
<1>3. ReachInv => NeverDeaf
  BY DEF ReachInv, Reachable, WaysToEnd, NeverDeaf, On
<1> QED BY <1>1, <1>2, <1>3, PTL DEF StartupSpec

\* --------------------------------------------------------------- two clients

\* Without an overlap one call at a time is past the check, and mqtt_client is
\* null until that call sets it: so nobody starts a second client.
OneCall ==
  /\ \A c, o \in Callers : starting[c] # "idle" /\ starting[o] # "idle" => c = o
  /\ \A c \in Callers : starting[c] = "creating" => handle = NoClient
  /\ \A c \in Callers : starting[c] = "starting" => handle = c
ClientInv ==
  StartupTypeOK /\ HandleSet /\ SecondClientNeedsOverlap /\ (~overlapped => OneCall)

LEMMA ClientStep == ClientInv /\ [StartupNext]_startupVars => ClientInv'
<1> SUFFICES ASSUME ClientInv, [StartupNext]_startupVars PROVE ClientInv'
  OBVIOUS
<1> DEFINE Kept == SecondClientNeedsOverlap' /\ (~overlapped' => OneCall')
<1>t. StartupTypeOK' /\ HandleSet' BY StartupTypeStep, HandleStep DEF ClientInv
<1> SUFFICES Kept BY <1>t DEF ClientInv
<1>y. starting \in StartingType /\ running \subseteq Callers BY TypeOf DEF ClientInv
<1>i. SecondClientNeedsOverlap /\ (~overlapped => OneCall) BY DEF ClientInv
<1>n. NoClient \notin Callers BY DEF NoClient, Callers
<1>0. ASSUME UNCHANGED <<starting, handle, running, overlapped>> PROVE Kept
  BY <1>0, <1>i DEF SecondClientNeedsOverlap, OneCall
<1>r. ASSUME Restarted PROVE Kept
  BY <1>r DEF Restarted, SecondClientNeedsOverlap, OneCall
<1>1. CASE \/ StartNormally \/ Abort \/ StartProvisioning
           \/ \E d \in Documents : SendDocument(d)
           \/ \E quality \in {"right", "wrong"} : SendWifi(quality)
           \/ SaveMqtt \/ RefuseMesh \/ SaveMesh \/ SavePlace \/ Accept
           \/ RejectWifi \/ StopProvisioning \/ EndProvisioning \/ Erase
           \/ LoseWifi \/ HalowFails \/ UNCHANGED startupVars
  BY <1>0, <1>1 DEF StartNormally, Abort, StartProvisioning, SendDocument, SendWifi, SaveMqtt,
                    RefuseMesh, SaveMesh, SavePlace, Accept, RejectWifi, StopProvisioning,
                    EndProvisioning, Erase, LoseWifi, HalowFails, startupVars
<1>2. CASE Restart \/ Crash BY <1>2, <1>r DEF Restart, Crash
<1>3. ASSUME NEW c \in Callers, CreateClient(c) PROVE Kept
  <2> SUFFICES ASSUME ~overlapped PROVE Kept
    BY <1>3 DEF CreateClient, SecondClientNeedsOverlap
  <2>1. handle = NoClient /\ \A o \in Callers \ {c} : starting[o] = "idle"
    BY <1>3, <1>i DEF CreateClient, OneCall
  <2>2. running = {} BY <2>1, <1>i, <1>y, <1>n DEF SecondClientNeedsOverlap
  <2>3. handle' = c /\ starting'[c] = "starting" /\ running' = {}
        /\ \A o \in Callers \ {c} : starting'[o] = "idle"
    BY <1>3, <2>1, <2>2, <1>y DEF CreateClient, StartingType
  <2> QED BY <2>3 DEF SecondClientNeedsOverlap, OneCall
<1>4. ASSUME NEW c \in Callers, StartClient(c) PROVE Kept
  <2>1. CASE handle \notin running /\ running' = running \cup {handle}
             /\ starting' = [starting EXCEPT ![c] = "idle"]
             /\ UNCHANGED <<handle, overlapped>>
    <3>1. starting'[c] = "idle" /\ \A o \in Callers \ {c} : starting'[o] = starting[o]
      BY <2>1, <1>y DEF StartingType
    <3> QED BY <2>1, <3>1, <1>i DEF SecondClientNeedsOverlap, OneCall
  <2>2. CASE Restarted BY <2>2, <1>r
  <2> QED BY <1>4, <2>1, <2>2 DEF StartClient
<1>5. ASSUME NEW c \in Callers, CallStartMqtt(c), UNCHANGED <<handle, running>> PROVE Kept
  <2>1. \A o \in Callers \ {c} : starting'[o] = starting[o]
    BY <1>5, <1>y DEF CallStartMqtt, StartingType
  <2>2. starting'[c] = (IF MayCreate THEN "creating" ELSE starting[c])
    BY <1>5, <1>y DEF CallStartMqtt, StartingType
  <2> SUFFICES ASSUME ~overlapped' PROVE Kept
    BY DEF SecondClientNeedsOverlap
  <2>3. ~(starting'[c] = "creating" /\ \E o \in Callers \ {c} : starting[o] # "idle")
        /\ ~overlapped
    BY <1>5 DEF CallStartMqtt
  <2>4. SecondClientNeedsOverlap' BY <1>5, <1>i, <2>3 DEF SecondClientNeedsOverlap
  <2>5. CASE MayCreate
    <3>1. starting'[c] = "creating" /\ handle = NoClient BY <2>2, <2>5 DEF MayCreate
    <3>2. \A o \in Callers \ {c} : starting'[o] = "idle" BY <2>1, <2>3, <3>1
    <3> QED BY <1>5, <2>4, <3>1, <3>2 DEF OneCall
  <2>6. CASE ~MayCreate
    <3>1. \A o \in Callers : starting'[o] = starting[o] BY <2>1, <2>2, <2>6
    <3> QED BY <1>5, <1>i, <2>3, <2>4, <3>1 DEF OneCall
  <2> QED BY <2>5, <2>6
<1>6. CASE GotAddress \/ HalowReady
  BY <1>0, <1>5, <1>6 DEF GotAddress, HalowReady, Callers
<1> QED BY <1>1, <1>2, <1>3, <1>4, <1>6 DEF StartupNext

\* Two MQTT clients run only after two calls of start_mqtt that overlapped.
THEOREM SecondClientNeedsOverlapHolds == StartupSpec => []SecondClientNeedsOverlap
<1>1. StartupInit => ClientInv
  BY StartupTypeInit DEF StartupInit, ClientInv, HandleSet, SecondClientNeedsOverlap, OneCall
<1>2. ClientInv /\ [StartupNext]_startupVars => ClientInv' BY ClientStep
<1>3. ClientInv => SecondClientNeedsOverlap BY DEF ClientInv
<1> QED BY <1>1, <1>2, <1>3, PTL DEF StartupSpec

\* ------------------------------------ EspTelemetry, EspTopology, RelayPeers

\* --------------------------------------------------------- types, telemetry

Steps == {"wait", "receive", "check", "status", "sensors", "failed", "pause"}
PublisherType == [at : Steps, reading : Producers \cup {NoReading}]

LEMMA TelemetryTypeInit == TelemetryInit => TelemetryTypeOK
<1> SUFFICES ASSUME TelemetryInit PROVE TelemetryTypeOK OBVIOUS
<1>1. publisher \in PublisherType
  BY DEF TelemetryInit, Publishing, PublisherType, Steps
<1>2. beacons \in Seq({"decoder"}) /\ Len(beacons) <= BeaconDepth
      /\ readings \in Seq(Producers) /\ Len(readings) <= ReadingDepth
  BY TelemetryAssumption DEF TelemetryInit
<1>3. made \in [Producers -> 0..MaxReadings] /\ sender \in [Producers -> Producers \cup {NoReading}]
  BY TelemetryAssumption DEF TelemetryInit
<1>4. upstream \in BOOLEAN /\ session \in BOOLEAN /\ hardware \in {"free", "gateway", "script"}
  BY DEF TelemetryInit
<1>5. /\ taken \in Nat /\ published \in Nat
      /\ outages \in 0..MaxOutages /\ refusals \in 0..MaxRefusals
  BY TelemetryAssumption DEF TelemetryInit
<1> QED BY <1>1, <1>2, <1>3, <1>4, <1>5 DEF TelemetryTypeOK, PublisherType, Steps

LEMMA TelemetryTypeStep == TelemetryTypeOK /\ [TelemetryNext]_telemetryVars => TelemetryTypeOK'
<1> SUFFICES ASSUME TelemetryTypeOK, [TelemetryNext]_telemetryVars PROVE TelemetryTypeOK'
  OBVIOUS
<1>t. /\ upstream \in BOOLEAN /\ session \in BOOLEAN
      /\ made \in [Producers -> 0..MaxReadings]
      /\ beacons \in Seq({"decoder"}) /\ Len(beacons) <= BeaconDepth
      /\ sender \in [Producers -> Producers \cup {NoReading}]
      /\ hardware \in {"free", "gateway", "script"}
      /\ readings \in Seq(Producers) /\ Len(readings) <= ReadingDepth
      /\ publisher \in PublisherType
      /\ taken \in Nat /\ published \in Nat
      /\ outages \in 0..MaxOutages /\ refusals \in 0..MaxRefusals
  BY DEF TelemetryTypeOK, PublisherType, Steps
<1>u. ASSUME upstream' \in BOOLEAN, session' \in BOOLEAN,
             made' \in [Producers -> 0..MaxReadings],
             beacons' \in Seq({"decoder"}), Len(beacons') <= BeaconDepth,
             sender' \in [Producers -> Producers \cup {NoReading}],
             hardware' \in {"free", "gateway", "script"},
             readings' \in Seq(Producers), Len(readings') <= ReadingDepth,
             publisher' \in PublisherType, taken' \in Nat, published' \in Nat,
             outages' \in 0..MaxOutages, refusals' \in 0..MaxRefusals
      PROVE  TelemetryTypeOK'
  BY <1>u DEF TelemetryTypeOK, PublisherType, Steps
<1>m. \A p \in Producers : Made(p) => made' \in [Producers -> 0..MaxReadings]
  BY <1>t, TelemetryAssumption DEF Made
<1>p. "decoder" \in Producers /\ "gateway" \in Producers /\ "script" \in Producers
  BY DEF Producers
<1>n. NextRound => publisher' \in PublisherType
  BY DEF NextRound, Publishing, PublisherType, Steps
<1>g. \A step \in Steps, r \in Producers \cup {NoReading} : Publishing(step, r) \in PublisherType
  BY DEF Publishing, PublisherType
<1>r. refusals < MaxRefusals => refusals + 1 \in 0..MaxRefusals BY <1>t, TelemetryAssumption
<1>1. CASE HearBeacon
  <2>1. beacons' \in Seq({"decoder"}) /\ Len(beacons') <= BeaconDepth
    BY <1>1, <1>t, TelemetryAssumption DEF HearBeacon
  <2>2. made' \in [Producers -> 0..MaxReadings] BY <1>1, <1>m, <1>p DEF HearBeacon
  <2> QED BY <1>1, <2>1, <2>2, <1>t, <1>u DEF HearBeacon
<1>2. CASE DecodeBeacon
  <2>1. beacons' \in Seq({"decoder"}) /\ Len(beacons') <= BeaconDepth
    BY <1>2, <1>t, TelemetryAssumption DEF DecodeBeacon
  <2>2. Head(beacons) = "decoder" BY <1>2, <1>t DEF DecodeBeacon
  <2>3. sender' \in [Producers -> Producers \cup {NoReading}]
    BY <1>2, <2>2, <1>t DEF DecodeBeacon, Producers
  <2> QED BY <1>2, <2>1, <2>3, <1>t, <1>u DEF DecodeBeacon
<1>3. CASE StartReport
  <2>1. sender' \in [Producers -> Producers \cup {NoReading}]
        /\ hardware' \in {"free", "gateway", "script"}
    BY <1>3, <1>t DEF StartReport, WithoutVoltage, Producers
  <2>2. made' \in [Producers -> 0..MaxReadings] BY <1>3, <1>m, <1>p DEF StartReport
  <2> QED BY <1>3, <2>1, <2>2, <1>t, <1>u DEF StartReport
<1>4. CASE MeasureBattery
  <2>1. sender' \in [Producers -> Producers \cup {NoReading}]
    BY <1>4, <1>t DEF MeasureBattery, Producers
  <2> QED BY <1>4, <2>1, <1>t, <1>u DEF MeasureBattery
<1>5. CASE StartScript BY <1>5, <1>t, <1>u DEF StartScript
<1>6. CASE EndScript
  <2>1. sender' \in [Producers -> Producers \cup {NoReading}]
    BY <1>6, <1>t DEF EndScript, Producers
  <2> QED BY <1>6, <2>1, <1>t, <1>u, <1>m, <1>p DEF EndScript
<1>7. ASSUME NEW p \in Producers, Enqueue(p) PROVE TelemetryTypeOK'
  <2>1. sender[p] \in Producers BY <1>7, <1>t DEF Enqueue, Sending
  <2>2. readings' \in Seq(Producers) /\ Len(readings') <= ReadingDepth
    BY <1>7, <2>1, <1>t, TelemetryAssumption DEF Enqueue, RoomForReading
  <2>3. sender' \in [Producers -> Producers \cup {NoReading}] BY <1>7, <1>t DEF Enqueue
  <2> QED BY <1>7, <2>2, <2>3, <1>t, <1>u DEF Enqueue
<1>8. CASE Connected
  <2>1. publisher' \in PublisherType BY <1>8, <1>t, <1>g DEF Connected, Steps
  <2> QED BY <1>8, <2>1, <1>t, <1>u DEF Connected
<1>9. CASE Disconnected
  <2>1. outages' \in 0..MaxOutages BY <1>9, <1>t, TelemetryAssumption DEF Disconnected
  <2> QED BY <1>9, <2>1, <1>t, <1>u DEF Disconnected
<1>10. CASE TakeReading
  <2>1. Head(readings) \in Producers /\ Tail(readings) \in Seq(Producers)
        /\ Len(Tail(readings)) <= ReadingDepth
    BY <1>10, <1>t, TelemetryAssumption DEF TakeReading
  <2>2. publisher' \in PublisherType BY <1>10, <2>1, <1>g DEF TakeReading, Steps
  <2> QED BY <1>10, <2>1, <2>2, <1>t, <1>u DEF TakeReading
<1>11. CASE CheckSession
  <2>1. publisher' \in PublisherType
    BY <1>11, <1>t, <1>n DEF CheckSession, PublisherType, Steps
  <2> QED BY <1>11, <2>1, <1>t, <1>u DEF CheckSession
<1>12. CASE NoBatches
  <2>1. publisher' \in PublisherType BY <1>12, <1>g DEF NoBatches, Steps
  <2> QED BY <1>12, <2>1, <1>t, <1>u, <1>r DEF NoBatches
<1>13. CASE PublishStatus
  <2>1. publisher' \in PublisherType
    BY <1>13, <1>t DEF PublishStatus, PublisherType, Steps
  <2>2. refusals' \in 0..MaxRefusals BY <1>13, <1>t, <1>r DEF PublishStatus
  <2> QED BY <1>13, <2>1, <2>2, <1>t, <1>u DEF PublishStatus
<1>14. CASE PublishSensors
  <2>1. publisher' \in PublisherType BY <1>14, <1>n, <1>g DEF PublishSensors, Steps
  <2>2. refusals' \in 0..MaxRefusals /\ published' \in Nat
    BY <1>14, <1>t, <1>r DEF PublishSensors
  <2> QED BY <1>14, <2>1, <2>2, <1>t, <1>u DEF PublishSensors
<1>15. CASE Resume BY <1>15, <1>t, <1>u, <1>n DEF Resume
<1>16. CASE UNCHANGED telemetryVars BY <1>16, <1>t, <1>u DEF telemetryVars
<1> QED
  BY <1>1, <1>2, <1>3, <1>4, <1>5, <1>6, <1>7, <1>8, <1>9, <1>10, <1>11, <1>12, <1>13,
     <1>14, <1>15, <1>16 DEF TelemetryNext

\* Every variable of the telemetry pipeline keeps its type.
THEOREM TelemetryTypeCorrect == TelemetrySpec => []TelemetryTypeOK
<1>1. TelemetryInit => TelemetryTypeOK BY TelemetryTypeInit
<1>2. TelemetryTypeOK /\ [TelemetryNext]_telemetryVars => TelemetryTypeOK' BY TelemetryTypeStep
<1> QED BY <1>1, <1>2, PTL DEF TelemetrySpec

\* ----------------------------------------------------------- what is lost

\* The publisher has a reading in hand from taking it to publishing or dropping
\* it.  While it may yet lose one without a failure to come, because the session
\* went down since it was ready for a reading, or the first publish failed, that
\* loss is already counted as an outage or a refusal.
InHandRight ==
  publisher.reading = NoReading <=> publisher.at \in {"wait", "receive", "pause"}
Owed ==
  IF publisher.at = "failed"
     \/ (~session /\ publisher.at \in {"receive", "check", "status", "sensors"})
  THEN 1 ELSE 0
LossInv ==
  /\ TelemetryTypeOK /\ InHandRight
  /\ taken + Owed <= published + InHand + outages + refusals

LEMMA LossInit == TelemetryInit => LossInv
<1> SUFFICES ASSUME TelemetryInit PROVE LossInv OBVIOUS
<1>1. publisher.at = "wait" /\ publisher.reading = NoReading
  BY DEF TelemetryInit, Publishing
<1> QED BY <1>1, TelemetryTypeInit DEF TelemetryInit, LossInv, InHandRight, Owed, InHand

LEMMA LossStep == LossInv /\ [TelemetryNext]_telemetryVars => LossInv'
<1> SUFFICES ASSUME LossInv, [TelemetryNext]_telemetryVars PROVE LossInv'
  OBVIOUS
<1> DEFINE Kept == InHandRight' /\ taken' + Owed' <= published' + InHand' + outages' + refusals'
<1>t. TelemetryTypeOK' BY TelemetryTypeStep DEF LossInv
<1>n. /\ taken \in Nat /\ published \in Nat /\ outages \in Nat /\ refusals \in Nat
      /\ session \in BOOLEAN /\ publisher.at \in Steps
      /\ publisher.reading \in Producers \cup {NoReading}
      /\ publisher = [at |-> publisher.at, reading |-> publisher.reading]
  BY DEF LossInv, TelemetryTypeOK, Steps
<1>l. InHandRight /\ taken + Owed <= published + InHand + outages + refusals
  BY DEF LossInv
<1>x. NoReading \notin Producers BY DEF NoReading, Producers
<1>r. NextRound => /\ publisher'.at \in {"receive", "wait"}
                   /\ publisher'.reading = NoReading
                   /\ ~session => publisher'.at = "wait"
  BY DEF NextRound, Publishing
<1>1. CASE Connected
  <2>1. publisher'.at = (IF publisher.at = "wait" THEN "receive" ELSE publisher.at)
        /\ publisher'.reading = (IF publisher.at = "wait" THEN NoReading ELSE publisher.reading)
    BY <1>1 DEF Connected, Publishing
  <2> QED BY <1>1, <2>1, <1>n, <1>l, <1>t
          DEF Connected, LossInv, InHandRight, Owed, InHand
<1>2. CASE Disconnected
  BY <1>2, <1>n, <1>l, <1>t DEF Disconnected, LossInv, InHandRight, Owed, InHand
<1>3. CASE TakeReading
  <2>1. Head(readings) \in Producers
    BY <1>3 DEF TakeReading, LossInv, TelemetryTypeOK
  <2>2. publisher'.at = "check" /\ publisher'.reading = Head(readings)
    BY <1>3 DEF TakeReading, Publishing
  <2> QED BY <1>3, <2>1, <2>2, <1>n, <1>l, <1>t, <1>x
          DEF TakeReading, LossInv, InHandRight, Owed, InHand
<1>4. CASE CheckSession
  <2>1. CASE session
    <3>1. publisher'.at = "status" /\ publisher'.reading = publisher.reading
      BY <1>4, <2>1, <1>n DEF CheckSession
    <3> QED BY <1>4, <2>1, <3>1, <1>n, <1>l, <1>t
            DEF CheckSession, LossInv, InHandRight, Owed, InHand
  <2>2. CASE ~session
    BY <1>4, <2>2, <1>r, <1>n, <1>l, <1>t
       DEF CheckSession, LossInv, InHandRight, Owed, InHand
  <2> QED BY <2>1, <2>2
<1>5. CASE NoBatches
  <2>1. publisher'.at = "pause" /\ publisher'.reading = NoReading
    BY <1>5 DEF NoBatches, Publishing
  <2> QED BY <1>5, <2>1, <1>n, <1>l, <1>t DEF NoBatches, LossInv, InHandRight, Owed, InHand
<1>6. CASE PublishStatus
  <2>1. publisher'.reading = publisher.reading
        /\ publisher'.at \in {"sensors", "failed"}
        /\ (publisher'.at = "sensors" => session)
        /\ (publisher'.at = "failed" /\ session => refusals' = refusals + 1)
        /\ refusals' \in {refusals, refusals + 1}
    BY <1>6, <1>n DEF PublishStatus
  <2> QED BY <1>6, <2>1, <1>n, <1>l, <1>t
          DEF PublishStatus, LossInv, InHandRight, Owed, InHand
<1>7. CASE PublishSensors
  <2>1. publisher.reading # NoReading BY <1>7, <1>l DEF PublishSensors, InHandRight
  <2>2. publisher'.at \in {"wait", "receive", "pause"} /\ publisher'.reading = NoReading
        /\ (~session => publisher'.at # "receive")
    BY <1>7, <1>r DEF PublishSensors, Publishing
  <2>3. InHandRight' /\ Owed' = 0 /\ InHand = 1 /\ InHand' = 0
    BY <1>7, <2>1, <2>2 DEF PublishSensors, InHandRight, Owed, InHand
  <2>4. published' + refusals' + Owed >= published + refusals + 1
    BY <1>7, <1>n DEF PublishSensors, Owed
  <2>5. taken' = taken /\ outages' = outages /\ published' \in Nat /\ refusals' \in Nat
        /\ Owed \in Nat
    BY <1>7, <1>n DEF PublishSensors, Owed
  <2> QED BY <2>3, <2>4, <2>5, <1>n, <1>l, <1>t DEF LossInv
<1>8. CASE Resume
  BY <1>8, <1>r, <1>n, <1>l, <1>t DEF Resume, LossInv, InHandRight, Owed, InHand
<1>9. CASE UNCHANGED <<session, publisher, taken, published, outages, refusals>>
  BY <1>9, <1>l, <1>t DEF LossInv, InHandRight, Owed, InHand
<1>10. CASE \/ HearBeacon \/ DecodeBeacon \/ StartReport \/ MeasureBattery
            \/ StartScript \/ EndScript \/ UNCHANGED telemetryVars
            \/ \E p \in Producers : Enqueue(p)
  BY <1>9, <1>10 DEF HearBeacon, DecodeBeacon, StartReport, MeasureBattery, StartScript,
                     EndScript, Enqueue, telemetryVars
<1> QED
  BY <1>1, <1>2, <1>3, <1>4, <1>5, <1>6, <1>7, <1>8, <1>10 DEF TelemetryNext

\* Of the readings that left the queue, at most one for each lost session and
\* each failed publish was not published.
THEOREM OutageLosesOneHolds == TelemetrySpec => []OutageLosesOne
<1>1. TelemetryInit => LossInv BY LossInit
<1>2. LossInv /\ [TelemetryNext]_telemetryVars => LossInv' BY LossStep
<1>3. LossInv => OutageLosesOne
  BY DEF LossInv, TelemetryTypeOK, Owed, InHand, OutageLosesOne
<1> QED BY <1>1, <1>2, <1>3, PTL DEF TelemetrySpec

\* --------------------------------------------------------------- neighbours

LEMMA TopologyInitType == TopologyInit => TopologyTypeOK
<1> SUFFICES ASSUME TopologyInit PROVE TopologyTypeOK OBVIOUS
<1>1. Never \in Ages BY TopologyAssumption DEF Never, Ages
<1> QED BY <1>1 DEF TopologyInit, TopologyTypeOK

LEMMA AgesType ==
  /\ 0 \in Ages /\ \A age \in Ages : Older(age) \in Ages /\ age \in Nat
  /\ \A n \in Nodes, age \in Ages :
       Peer(n, age) \in [occupied : {TRUE}, node : Nodes, age : Ages]
BY TopologyAssumption DEF Older, Ages, Never, Peer

LEMMA SlotsForNode ==
  ASSUME NEW n, NEW s \in SlotFor(n)
  PROVE  /\ s \in Slots
         /\ \/ s \in OwnSlot(n)
            \/ s \in Slots \ Occupied /\ OwnSlot(n) = {}
            \/ s \in OldestPeers /\ OwnSlot(n) = {} /\ Occupied = Slots
BY DEF SlotFor, OwnSlot, OldestPeers, Occupied

LEMMA OccupiedType ==
  ASSUME TopologyTypeOK, NEW s \in Slots, peers[s].occupied
  PROVE  peers[s] \in [occupied : {TRUE}, node : Nodes, age : Ages]
<1>1. ~FreeSlot.occupied BY DEF FreeSlot
<1>2. peers[s] # FreeSlot BY <1>1
<1> QED BY <1>2 DEF TopologyTypeOK

LEMMA TopologyTypeStep ==
  TopologyTypeOK /\ [TopologyNext]_topologyVars => TopologyTypeOK'
<1> SUFFICES ASSUME TopologyTypeOK, [TopologyNext]_topologyVars PROVE TopologyTypeOK'
  OBVIOUS
<1>1. ASSUME NEW n \in Nodes, HearNode(n) PROVE TopologyTypeOK'
  <2>1. PICK s \in SlotFor(n) : peers' = [peers EXCEPT ![s] = Peer(n, 0)]
    BY <1>1 DEF HearNode
  <2>2. s \in Slots BY <2>1, SlotsForNode
  <2> QED BY <1>1, <2>1, <2>2, AgesType DEF HearNode, TopologyTypeOK
<1>2. CASE TimePasses
  <2>1. ASSUME NEW s \in Slots
        PROVE  peers'[s] \in {FreeSlot} \cup [occupied : {TRUE}, node : Nodes, age : Ages]
    <3>1. CASE peers[s].occupied
      <4>1. peers[s] \in [occupied : {TRUE}, node : Nodes, age : Ages]
        BY <3>1, OccupiedType
      <4>2. peers'[s] = Peer(peers[s].node, Older(peers[s].age)) BY <1>2, <3>1 DEF TimePasses
      <4> QED BY <4>1, <4>2, AgesType
    <3>2. CASE ~peers[s].occupied BY <1>2, <3>2 DEF TimePasses, TopologyTypeOK
    <3> QED BY <3>1, <3>2
  <2>2. peers' \in [Slots -> {FreeSlot} \cup [occupied : {TRUE}, node : Nodes, age : Ages]]
    BY <1>2, <2>1 DEF TimePasses
  <2>3. heardAt' \in [Nodes -> Ages] BY <1>2, AgesType DEF TimePasses, TopologyTypeOK
  <2> QED BY <1>2, <2>2, <2>3 DEF TimePasses, TopologyTypeOK
<1>3. CASE RoutesChange BY <1>3 DEF RoutesChange, TopologyTypeOK
<1>4. CASE UNCHANGED topologyVars BY <1>4 DEF topologyVars, TopologyTypeOK
<1> QED BY <1>1, <1>2, <1>3, <1>4 DEF TopologyNext

\* The table of peers keeps its type.
THEOREM TopologyTypeCorrect == TopologySpec => []TopologyTypeOK
<1>1. TopologyInit => TopologyTypeOK BY TopologyInitType
<1>2. TopologyTypeOK /\ [TopologyNext]_topologyVars => TopologyTypeOK' BY TopologyTypeStep
<1> QED BY <1>1, <1>2, PTL DEF TopologySpec

\* A slot is as old as its node was heard long ago, no node has two, and a node
\* that was heard and has none was forgotten for nodes heard since.
Taken(s) == peers[s].occupied
AgesRight == \A s \in Slots : Taken(s) => peers[s].age = heardAt[peers[s].node]
OneSlotEach == \A s, t \in Slots : Taken(s) /\ Taken(t) /\ peers[s].node = peers[t].node => s = t
HasSlot(n) == \E s \in Slots : Taken(s) /\ peers[s].node = n
OthersHeardSince ==
  \A n \in Nodes : heardAt[n] <= MaxAge /\ ~HasSlot(n) =>
    \A s \in Slots : Taken(s) /\ peers[s].age <= heardAt[n]
RoutesFit == Cardinality(routes) <= MaxLinks
TableInv == TopologyTypeOK /\ AgesRight /\ OneSlotEach /\ OthersHeardSince /\ RoutesFit

LEMMA TableInit == TopologyInit => TableInv
<1> SUFFICES ASSUME TopologyInit PROVE TableInv OBVIOUS
<1>1. \A s \in Slots : ~Taken(s) BY DEF TopologyInit, FreeSlot, Taken
<1>2. \A n \in Nodes : ~(heardAt[n] <= MaxAge)
  BY TopologyAssumption DEF TopologyInit, Never
<1>3. RoutesFit
  <2>1. Cardinality(Slots) \in Nat BY TopologyAssumption, FS_CardinalityType
  <2> QED BY <2>1, TopologyAssumption, FS_EmptySet DEF TopologyInit, RoutesFit
<1> QED BY <1>1, <1>2, <1>3, TopologyInitType
        DEF TableInv, AgesRight, OneSlotEach, OthersHeardSince

LEMMA TableStep == TableInv /\ [TopologyNext]_topologyVars => TableInv'
<1> SUFFICES ASSUME TableInv, [TopologyNext]_topologyVars PROVE TableInv'
  OBVIOUS
<1> USE TopologyAssumption
<1>t. TopologyTypeOK /\ TopologyTypeOK' BY TopologyTypeStep DEF TableInv
<1>i. AgesRight /\ OneSlotEach /\ OthersHeardSince /\ RoutesFit BY DEF TableInv
<1>y. \A s \in Slots : Taken(s) => peers[s].node \in Nodes /\ peers[s].age \in Ages
  BY <1>t, OccupiedType DEF Taken
<1>h. \A n \in Nodes : heardAt[n] \in Ages BY <1>t DEF TopologyTypeOK
<1>1. ASSUME NEW n \in Nodes, HearNode(n) PROVE TableInv'
  <2>1. PICK s \in SlotFor(n) : peers' = [peers EXCEPT ![s] = Peer(n, 0)]
    BY <1>1 DEF HearNode
  <2>2. /\ s \in Slots
        /\ \/ Taken(s) /\ peers[s].node = n
           \/ ~Taken(s) /\ ~HasSlot(n)
           \/ /\ ~HasSlot(n)
              /\ \A t \in Slots : Taken(t) /\ peers[t].age <= peers[s].age
    BY SlotsForNode DEF OwnSlot, Occupied, OldestPeers, Taken, HasSlot
  <2>3. Taken(s)' /\ peers'[s].node = n /\ peers'[s].age = 0
        /\ \A t \in Slots \ {s} : peers'[t] = peers[t]
    BY <1>t, <2>1, <2>2 DEF TopologyTypeOK, Taken, Peer
  <2>4. heardAt'[n] = 0 /\ (\A m \in Nodes \ {n} : heardAt'[m] = heardAt[m]) /\ routes' = routes
    BY <1>1, <1>t DEF HearNode, TopologyTypeOK
  <2>5. \A t \in Slots \ {s} : Taken(t)' <=> Taken(t) BY <2>3 DEF Taken
  <2>6. \A t \in Slots \ {s} : Taken(t) => peers[t].node # n
    BY <1>i, <2>2 DEF OneSlotEach, HasSlot
  <2>7. AgesRight' BY <1>i, <1>y, <2>3, <2>4, <2>5, <2>6 DEF AgesRight
  <2>8. OneSlotEach' BY <1>i, <2>3, <2>5, <2>6 DEF OneSlotEach
  <2>9. ASSUME NEW m \in Nodes, heardAt'[m] <= MaxAge, ~HasSlot(m)', NEW t \in Slots
        PROVE  Taken(t)' /\ peers'[t].age <= heardAt'[m]
    <3>1. m # n BY <2>2, <2>3, <2>9 DEF HasSlot
    <3>2. heardAt'[m] = heardAt[m] /\ heardAt[m] \in Nat /\ heardAt[m] <= MaxAge
      BY <1>h, <2>4, <2>9, <3>1 DEF Ages
    <3>3. CASE t = s BY <2>3, <3>2, <3>3
    <3>4. CASE t # s
      <4>1. CASE HasSlot(m)
        <5>1. PICK u \in Slots : Taken(u) /\ peers[u].node = m BY <4>1 DEF HasSlot
        <5>2. u = s BY <2>3, <2>5, <2>9, <5>1 DEF HasSlot
        <5>3. Taken(t) /\ peers[t].age <= peers[s].age BY <2>2, <3>1, <5>1, <5>2
        <5>4. peers[s].age = heardAt[m] BY <1>i, <5>1, <5>2 DEF AgesRight
        <5> QED BY <2>3, <2>5, <3>2, <3>4, <5>3, <5>4
      <4>2. CASE ~HasSlot(m)
        <5>1. Taken(t) /\ peers[t].age <= heardAt[m] BY <1>i, <3>2, <4>2 DEF OthersHeardSince
        <5> QED BY <2>3, <2>5, <3>2, <3>4, <5>1
      <4> QED BY <4>1, <4>2
    <3> QED BY <3>3, <3>4
  <2>10. OthersHeardSince' BY <2>9 DEF OthersHeardSince
  <2> QED BY <1>t, <1>i, <2>4, <2>7, <2>8, <2>10 DEF TableInv, RoutesFit
<1>2. CASE TimePasses
  <2>1. \A s \in Slots :
          /\ Taken(s)' <=> Taken(s)
          /\ Taken(s) => /\ peers'[s].node = peers[s].node
                         /\ peers'[s].age = Older(peers[s].age)
    BY <1>2 DEF TimePasses, Taken, Peer
  <2>2. \A n \in Nodes : heardAt'[n] = Older(heardAt[n]) BY <1>2 DEF TimePasses
  <2>3. routes' = routes BY <1>2 DEF TimePasses
  <2>4. AgesRight' BY <1>i, <1>y, <2>1, <2>2 DEF AgesRight
  <2>5. OneSlotEach' BY <1>i, <2>1 DEF OneSlotEach
  <2>6. ASSUME NEW n \in Nodes, heardAt'[n] <= MaxAge, ~HasSlot(n)', NEW s \in Slots
        PROVE  Taken(s)' /\ peers'[s].age <= heardAt'[n]
    <3>1. ~HasSlot(n) BY <2>1, <2>6 DEF HasSlot
    <3>2. heardAt[n] \in Nat /\ heardAt[n] < MaxAge /\ heardAt'[n] = heardAt[n] + 1
      BY <1>h, <2>2, <2>6 DEF Older, Ages, Never
    <3>3. Taken(s) /\ peers[s].age <= heardAt[n]
      BY <1>i, <3>1, <3>2 DEF OthersHeardSince
    <3>4. peers[s].age \in Nat BY <1>y, <3>3 DEF Ages
    <3> QED BY <2>1, <3>2, <3>3, <3>4 DEF Older, Never
  <2>7. OthersHeardSince' BY <2>6 DEF OthersHeardSince
  <2> QED BY <1>t, <1>i, <2>3, <2>4, <2>5, <2>7 DEF TableInv, RoutesFit
<1>3. CASE RoutesChange
  BY <1>3, <1>t, <1>i DEF RoutesChange, TableInv, AgesRight, OneSlotEach, OthersHeardSince,
                          RoutesFit, Taken, HasSlot
<1>4. CASE UNCHANGED topologyVars
  BY <1>4, <1>t, <1>i DEF topologyVars, TableInv, AgesRight, OneSlotEach, OthersHeardSince,
                          RoutesFit, Taken, HasSlot
<1> QED BY <1>1, <1>2, <1>3, <1>4 DEF TopologyNext

\* What the table lists was heard lately, and all of it, if it fits: otherwise
\* the slots would hold as many nodes heard since.
LEMMA RecentRight ==
  ASSUME TableInv
  PROVE  /\ RecentPeers \subseteq Lately
         /\ Cardinality(routes \cup Lately) <= MaxLinks => Lately \ routes \subseteq RecentPeers
<1> USE TopologyAssumption
<1>t. TopologyTypeOK /\ AgesRight /\ OneSlotEach /\ OthersHeardSince BY DEF TableInv
<1>y. \A s \in Slots : Taken(s) => peers[s].node \in Nodes /\ peers[s].age \in Ages
  BY <1>t, OccupiedType DEF Taken
<1>1. RecentPeers \subseteq Lately
  BY <1>t, <1>y DEF RecentPeers, Lately, Occupied, Taken, AgesRight
<1>2. ASSUME NEW n \in Lately, ~HasSlot(n) PROVE Cardinality(routes \cup Lately) > MaxLinks
  <2>1. \A s \in Slots : Taken(s) /\ peers[s].node \in Lately
    <3> SUFFICES ASSUME NEW s \in Slots PROVE Taken(s) /\ peers[s].node \in Lately OBVIOUS
    <3>1. n \in Nodes /\ heardAt[n] <= MaxAge /\ heardAt[n] \in Nat
      BY <1>t DEF Lately, TopologyTypeOK, Ages
    <3>2. Taken(s) /\ peers[s].age <= heardAt[n] BY <1>t, <1>2, <3>1 DEF OthersHeardSince
    <3>3. peers[s].age \in Nat /\ peers[s].node \in Nodes BY <1>y, <3>2 DEF Ages
    <3>4. heardAt[peers[s].node] <= MaxAge BY <1>t, <3>1, <3>2, <3>3 DEF AgesRight
    <3> QED BY <3>2, <3>3, <3>4 DEF Lately
  <2>2. \A s \in Slots : peers[s].node \in Lately \ {n}
    BY <1>2, <2>1 DEF HasSlot
  <2> DEFINE nodes == [s \in Slots |-> peers[s].node]
  <2>3. nodes \in [Slots -> Lately \ {n}] BY <2>2
  <2>4. \A s, t \in Slots : nodes[s] = nodes[t] => s = t
    BY <1>t, <2>1 DEF OneSlotEach
  <2>5. IsFiniteSet(Lately) BY FS_Subset DEF Lately
  <2>6. IsFiniteSet(Lately \ {n}) /\ Cardinality(Lately \ {n}) = Cardinality(Lately) - 1
    BY <2>5, FS_RemoveElement
  <2>7. ~(Cardinality(Lately \ {n}) < Cardinality(Slots))
    <3> HIDE DEF nodes
    <3> QED BY <2>3, <2>4, <2>6, FS_PigeonHole
  <2>8. IsFiniteSet(routes \cup Lately)
    <3>1. routes \cup Lately \subseteq Nodes BY <1>t DEF TopologyTypeOK, Lately
    <3> QED BY <3>1, FS_Subset
  <2>9. Cardinality(Lately) <= Cardinality(routes \cup Lately) BY <2>8, FS_Subset
  <2>10. Cardinality(Lately) \in Nat /\ Cardinality(routes \cup Lately) \in Nat
         /\ Cardinality(Slots) \in Nat
    BY <2>5, <2>8, FS_CardinalityType
  <2> QED BY <2>6, <2>7, <2>9, <2>10
<1>3. ASSUME Cardinality(routes \cup Lately) <= MaxLinks, NEW n \in Lately \ routes
      PROVE  n \in RecentPeers
  <2>1. HasSlot(n)
    <3>1. routes \cup Lately \subseteq Nodes BY <1>t DEF TopologyTypeOK, Lately
    <3>2. Cardinality(routes \cup Lately) \in Nat BY <3>1, FS_Subset, FS_CardinalityType
    <3>3. MaxLinks \in Nat BY FS_CardinalityType
    <3> QED BY <1>2, <1>3, <3>2, <3>3
  <2>2. PICK s \in Slots : Taken(s) /\ peers[s].node = n BY <2>1 DEF HasSlot
  <2>3. peers[s].age <= MaxAge BY <1>t, <2>2 DEF AgesRight, Lately
  <2> QED BY <2>2, <2>3 DEF RecentPeers, Occupied, Taken
<1> QED BY <1>1, <1>3

\* A report lists routes and nodes heard lately only, and all of them if there is
\* room, for any number of nodes and slots and any length of a behaviour.
THEOREM NeighboursListedHolds == TopologySpec => []NeighboursListed
<1>1. TopologyInit => TableInv BY TableInit
<1>2. TableInv /\ [TopologyNext]_topologyVars => TableInv' BY TableStep
<1>3. ASSUME TableInv PROVE NeighboursListed
  <2> SUFFICES ASSUME NEW report \in Reports
               PROVE  /\ report \subseteq routes \cup Lately
                      /\ Cardinality(routes \cup Lately) <= MaxLinks => Lately \subseteq report
    BY DEF NeighboursListed
  <2>1. report \subseteq routes \cup RecentPeers
        /\ (Cardinality(RecentPeers) <= MaxLinks - Cardinality(routes) =>
              report = routes \cup RecentPeers)
    BY DEF Reports
  <2>2. report \subseteq routes \cup Lately BY <1>3, <2>1, RecentRight
  <2>3. ASSUME Cardinality(routes \cup Lately) <= MaxLinks PROVE Lately \subseteq report
    <3>1. Lately \ routes \subseteq RecentPeers /\ RecentPeers \subseteq Lately
      BY <1>3, <2>3, RecentRight
    <3>2. routes \cup Lately \subseteq Nodes
      BY <1>3 DEF TableInv, TopologyTypeOK, Lately
    <3>3. IsFiniteSet(routes) /\ IsFiniteSet(RecentPeers)
      BY <3>1, <3>2, FS_Subset, TopologyAssumption
    <3>4. RecentPeers \cap routes = {} /\ routes \cup RecentPeers = routes \cup Lately
      BY <3>1 DEF RecentPeers
    <3>5. Cardinality(routes \cup RecentPeers)
          = Cardinality(routes) + Cardinality(RecentPeers)
      <4>1. Cardinality(routes \cup RecentPeers)
            = Cardinality(routes) + Cardinality(RecentPeers) - Cardinality(routes \cap RecentPeers)
        BY <3>3, FS_Union
      <4>2. routes \cap RecentPeers = {} BY <3>4
      <4>3. Cardinality(routes \cap RecentPeers) = 0 BY <4>2, FS_EmptySet
      <4>4. Cardinality(routes) \in Nat /\ Cardinality(RecentPeers) \in Nat
        BY <3>3, FS_CardinalityType
      <4> QED BY <4>1, <4>3, <4>4
    <3>6. Cardinality(routes) \in Nat /\ Cardinality(RecentPeers) \in Nat /\ MaxLinks \in Nat
      BY <3>3, FS_CardinalityType, TopologyAssumption
    <3>7. Cardinality(RecentPeers) <= MaxLinks - Cardinality(routes)
      <4>1. Cardinality(routes \cup RecentPeers) = Cardinality(routes \cup Lately)
        BY <3>4, Zenon
      <4> QED BY <2>3, <3>5, <3>6, <4>1
    <3> QED BY <2>1, <3>4, <3>7
  <2> QED BY <2>2, <2>3
<1> QED BY <1>1, <1>2, <1>3, PTL DEF TopologySpec

\* --------------------------------------------------- the peer table of the relay

\* A set of numbers that is not empty has a smallest one.
LEMMA Smallest ==
  ASSUME NEW S, S \subseteq Nat, S # {}
  PROVE  \E n \in S : \A m \in S : n <= m
<1>1. PICK n \in S : \A m \in S : ~(<<m, n>> \in OpToRel(<, Nat))
  BY NatLessThanWellFounded, WFMin
<1>2. ASSUME NEW m \in S, m < n PROVE FALSE
  <2>1. <<m, n>> \in Nat \X Nat /\ <<m, n>>[1] < <<m, n>>[2] BY <1>2
  <2>2. <<m, n>> \in OpToRel(<, Nat) BY <2>1 DEF OpToRel
  <2> QED BY <1>1, <2>2
<1> QED BY <1>2

\* First chooses one of the entries it is given.
LEMMA FirstIsOne ==
  ASSUME NEW entries, entries \subseteq Entries, entries # {}
  PROVE  First(entries) \in entries
<1>1. entries \subseteq Nat BY PeersAssumption DEF Entries
<1>2. \E i \in entries : \A j \in entries : i <= j BY <1>1, Smallest
<1> QED BY <1>2 DEF First

\* The entry for a leaf is its own, a free one, or any if there is neither.
LEMMA EntryForLeaf ==
  ASSUME PeersTypeOK, NEW l
  PROVE  /\ EntryFor(l) \in Entries
         /\ \/ table[EntryFor(l)].serial = l
            \/ table[EntryFor(l)].serial = NoLeaf /\ EntriesOf(l) = {}
            \/ EntriesOf(l) = {} /\ EntriesOf(NoLeaf) = {}
<1>1. EntriesOf(l) \subseteq Entries /\ EntriesOf(NoLeaf) \subseteq Entries
      /\ Oldest \subseteq Entries
  BY DEF EntriesOf, Oldest
<1>2. Oldest # {}
  <2> DEFINE Times == {table[i].seen : i \in Entries}
  <2>1. Times \subseteq Nat /\ Times # {}
    BY PeersAssumption DEF PeersTypeOK, Entries
  <2>2. PICK n \in Times : \A m \in Times : n <= m BY <2>1, Smallest
  <2>3. PICK i \in Entries : n = table[i].seen BY <2>2
  <2> QED BY <2>2, <2>3 DEF Oldest
<1>3. CASE EntriesOf(l) # {}
  <2>1. EntryFor(l) = First(EntriesOf(l)) BY <1>3 DEF EntryFor
  <2>2. EntryFor(l) \in EntriesOf(l) BY <1>1, <1>3, <2>1, FirstIsOne
  <2> QED BY <2>2 DEF EntriesOf
<1>4. CASE EntriesOf(l) = {} /\ EntriesOf(NoLeaf) # {}
  <2>1. EntryFor(l) = First(EntriesOf(NoLeaf)) BY <1>4 DEF EntryFor
  <2>2. EntryFor(l) \in EntriesOf(NoLeaf) BY <1>1, <1>4, <2>1, FirstIsOne
  <2> QED BY <1>4, <2>2 DEF EntriesOf
<1>5. CASE EntriesOf(l) = {} /\ EntriesOf(NoLeaf) = {}
  <2>1. EntryFor(l) = First(Oldest) BY <1>5 DEF EntryFor
  <2>2. EntryFor(l) \in Oldest BY <1>1, <1>2, <2>1, FirstIsOne
  <2> QED BY <1>1, <1>5, <2>2
<1> QED BY <1>3, <1>4, <1>5

\* Type correctness; the leaves heard are finitely many.
PeersTyped == PeersTypeOK /\ IsFiniteSet(advertised)

LEMMA PeersTypeInit == PeersInit => PeersTyped
<1> SUFFICES ASSUME PeersInit PROVE PeersTyped OBVIOUS
<1>1. 1 \in Entries BY PeersAssumption DEF Entries
<1>2. NoPeer \in [serial : Leaves \cup {NoLeaf}, mac : Leaves \cup {NoLeaf},
                  seen : 0..MaxAdverts]
  BY PeersAssumption DEF NoPeer
<1>3. PeersTypeOK
  BY <1>1, <1>2, PeersAssumption DEF PeersInit, PeersTypeOK, NotReceiving, NoLookup
<1>4. IsFiniteSet(advertised) BY FS_EmptySet DEF PeersInit
<1> QED BY <1>3, <1>4 DEF PeersTyped

LEMMA PeersTypeStep == PeersTyped /\ [PeersNext]_peerVars => PeersTyped'
<1> SUFFICES ASSUME PeersTyped, [PeersNext]_peerVars PROVE PeersTyped'
  OBVIOUS
<1> USE PeersAssumption DEF PeersTyped
<1>0. 1 \in Entries BY DEF Entries
<1>1. ASSUME NEW l \in Leaves, Advertise(l) PROVE PeersTyped'
  <2>1. EntryFor(l) \in Entries BY EntryForLeaf
  <2>2. IsFiniteSet(advertised') BY <1>1, FS_AddElement DEF Advertise
  <2> QED BY <1>1, <2>1, <2>2 DEF Advertise, PeersTypeOK
<1>2. ASSUME NEW l \in Leaves, LookUp(l) PROVE PeersTyped'
  BY <1>0, <1>2 DEF LookUp, PeersTypeOK
<1>3. CASE WriteSerial BY <1>3 DEF WriteSerial, PeersTypeOK
<1>4. CASE WriteMac
  <2>1. table' \in [Entries -> [serial : Leaves \cup {NoLeaf}, mac : Leaves \cup {NoLeaf},
                                seen : 0..MaxAdverts]]
    BY <1>4 DEF WriteMac, PeersTypeOK
  <2> QED BY <1>0, <1>4, <2>1 DEF WriteMac, PeersTypeOK, NotReceiving
<1>5. CASE ScanEntry
  <2>1. lookup' \in [at : {"idle", "scan", "copy"}, leaf : Leaves \cup {NoLeaf},
                     entry : Entries]
    BY <1>0, <1>5 DEF ScanEntry, PeersTypeOK, NoLookup, Entries
  <2> QED BY <1>5, <2>1 DEF ScanEntry, PeersTypeOK
<1>6. CASE CopyMac
  <2>1. MacsOf(lookup.entry) \subseteq Leaves \cup {NoLeaf} BY DEF MacsOf, PeersTypeOK
  <2>2. forwarded' \subseteq [to : Leaves \cup {NoLeaf}, for : Leaves \cup {NoLeaf}]
    BY <1>6, <2>1 DEF CopyMac, PeersTypeOK
  <2> QED BY <1>0, <1>6, <2>2 DEF CopyMac, PeersTypeOK, NoLookup
<1>7. CASE UNCHANGED peerVars BY <1>7 DEF peerVars, PeersTypeOK
<1> QED BY <1>1, <1>2, <1>3, <1>4, <1>5, <1>6, <1>7 DEF PeersNext

\* Every variable of the peer table keeps its type.
THEOREM PeersTypeCorrect == PeersSpec => []PeersTypeOK
<1>1. PeersInit => PeersTyped BY PeersTypeInit
<1>2. PeersTyped /\ [PeersNext]_peerVars => PeersTyped' BY PeersTypeStep
<1>3. PeersTyped => PeersTypeOK BY DEF PeersTyped
<1> QED BY <1>1, <1>2, <1>3, PTL DEF PeersSpec

\* What holds of the table as long as the leaves heard fit into it: serials are
\* of leaves heard and none is there twice, an address is that of the serial
\* beside it, and the entry being written was free or the leaf's own.  The MQTT
\* task copies the address of the entry it has found.
Filled(i) == table[i].serial # NoLeaf
TableRight ==
  /\ \A i \in Entries : /\ Filled(i) => table[i].serial \in advertised
                        /\ table[i].mac \in {table[i].serial, NoLeaf}
  /\ \A i, j \in Entries : Filled(i) /\ table[i].serial = table[j].serial => i = j
WriteRight ==
  /\ receiving.at # "idle" => receiving.leaf \in advertised
  /\ receiving.at = "serial" =>
       /\ table[receiving.entry].serial \in {NoLeaf, receiving.leaf}
       /\ \A i \in Entries : table[i].serial = receiving.leaf => i = receiving.entry
  /\ receiving.at = "mac" => table[receiving.entry].serial = receiving.leaf
LookupRight ==
  /\ lookup.at = "copy" => table[lookup.entry].serial = lookup.leaf
  /\ \A c \in forwarded : c.to \in {c.for, NoLeaf}
LookupTyped == lookup.at # "idle" => lookup.leaf \in Leaves
Fit == Cardinality(advertised) <= PeerCount
PeersInv ==
  /\ PeersTyped /\ LookupTyped
  /\ Fit => TableRight /\ WriteRight /\ LookupRight

\* A table without a free entry holds as many leaves as it has entries: a leaf
\* that is not in it would be one more.
LEMMA NewLeafFindsRoom ==
  ASSUME PeersTyped, TableRight, NEW l \in Leaves, EntriesOf(l) = {},
         Cardinality(advertised \cup {l}) <= PeerCount
  PROVE  EntriesOf(NoLeaf) # {}
<1> SUFFICES ASSUME EntriesOf(NoLeaf) = {} PROVE FALSE OBVIOUS
<1> DEFINE others == (advertised \cup {l}) \ {l}
<1>1. \A i \in Entries : Filled(i) /\ table[i].serial # l
  BY DEF EntriesOf, Filled
<1>2. IsFiniteSet(advertised \cup {l}) BY FS_AddElement DEF PeersTyped
<1>3. IsFiniteSet(others) /\ Cardinality(others) = Cardinality(advertised \cup {l}) - 1
  BY <1>2, FS_RemoveElement
<1>4. IsFiniteSet(Entries) /\ Cardinality(Entries) = PeerCount
  BY PeersAssumption, FS_Interval DEF Entries
<1>5. Cardinality(others) < Cardinality(Entries)
  <2>1. Cardinality(advertised \cup {l}) \in Nat BY <1>2, FS_CardinalityType
  <2> QED BY <1>3, <1>4, <2>1, PeersAssumption
<1> DEFINE serials == [i \in Entries |-> table[i].serial]
<1>6. serials \in [Entries -> others] BY <1>1 DEF TableRight
<1>7. \E i, j \in Entries : i # j /\ serials[i] = serials[j]
  <2> HIDE DEF serials, others
  <2> QED BY <1>3, <1>4, <1>5, <1>6, FS_PigeonHole
<1> QED BY <1>1, <1>7 DEF TableRight

LEMMA PeersInvInit == PeersInit => PeersInv
<1> SUFFICES ASSUME PeersInit PROVE PeersInv OBVIOUS
<1>1. PeersTyped BY PeersTypeInit
<1>2. LookupTyped BY DEF PeersInit, LookupTyped, NoLookup
<1>3. TableRight BY DEF PeersInit, TableRight, Filled, NoPeer
<1>4. WriteRight BY DEF PeersInit, WriteRight, NotReceiving
<1>5. LookupRight BY DEF PeersInit, LookupRight, NoLookup
<1> QED BY <1>1, <1>2, <1>3, <1>4, <1>5 DEF PeersInv

LEMMA PeersInvStep == PeersInv /\ [PeersNext]_peerVars => PeersInv'
<1> SUFFICES ASSUME PeersInv, [PeersNext]_peerVars PROVE PeersInv'
  OBVIOUS
<1> USE PeersAssumption
<1>1. PeersTyped /\ PeersTyped' BY PeersTypeStep DEF PeersInv
<1>2. LookupTyped'
  BY <1>1 DEF PeersInv, LookupTyped, PeersNext, Advertise, LookUp, WriteSerial, WriteMac,
             ScanEntry, CopyMac, NoLookup, peerVars, PeersTyped, PeersTypeOK
<1>3. ASSUME Fit' PROVE TableRight' /\ WriteRight' /\ LookupRight'
  <2>1. advertised \subseteq advertised'
    BY DEF PeersNext, Advertise, LookUp, WriteSerial, WriteMac, ScanEntry, CopyMac, peerVars
  <2>2. Fit
    <3>1. Cardinality(advertised) <= Cardinality(advertised')
      BY <1>1, <2>1, FS_Subset DEF PeersTyped
    <3>2. Cardinality(advertised) \in Nat /\ Cardinality(advertised') \in Nat
      BY <1>1, FS_CardinalityType DEF PeersTyped
    <3> QED BY <1>3, <3>1, <3>2 DEF Fit
  <2>3. TableRight /\ WriteRight /\ LookupRight /\ LookupTyped BY <2>2 DEF PeersInv
  <2>4. PeersTypeOK BY <1>1 DEF PeersTyped
  <2>5. ASSUME NEW l \in Leaves, Advertise(l) PROVE TableRight' /\ WriteRight' /\ LookupRight'
    <3>1. table' = table /\ advertised' = advertised \cup {l}
          /\ lookup' = lookup /\ forwarded' = forwarded
          /\ receiving' = [at |-> "serial", entry |-> EntryFor(l), leaf |-> l]
      BY <2>5 DEF Advertise
    <3>2. EntriesOf(l) = {} => EntriesOf(NoLeaf) # {}
      BY <1>1, <1>3, <2>3, <3>1, NewLeafFindsRoom DEF Fit
    <3>3. \/ table[EntryFor(l)].serial = l
          \/ table[EntryFor(l)].serial = NoLeaf /\ EntriesOf(l) = {}
      <4>1. \/ table[EntryFor(l)].serial = l
            \/ table[EntryFor(l)].serial = NoLeaf /\ EntriesOf(l) = {}
            \/ EntriesOf(l) = {} /\ EntriesOf(NoLeaf) = {}
        BY <2>4, EntryForLeaf
      <4> QED BY <3>2, <4>1
    <3>4. \A i \in Entries : table[i].serial = l => i = EntryFor(l)
      BY <2>3, <2>4, <3>3, EntryForLeaf DEF TableRight, EntriesOf, Filled
    <3>5. TableRight' BY <2>3, <3>1 DEF TableRight, Filled
    <3>6. WriteRight' BY <3>1, <3>3, <3>4 DEF WriteRight
    <3>7. LookupRight' BY <2>3, <3>1 DEF LookupRight
    <3> QED BY <3>5, <3>6, <3>7
  <2>6. CASE WriteSerial
    <3> DEFINE e == receiving.entry
    <3>1. e \in Entries /\ receiving.leaf \in advertised /\ receiving.leaf \in Leaves
      BY <2>3, <2>4, <2>6 DEF WriteSerial, WriteRight, PeersTypeOK
    <3>2. table'[e].serial = receiving.leaf /\ table'[e].mac = table[e].mac
      BY <2>4, <2>6, <3>1 DEF WriteSerial, PeersTypeOK
    <3>3. \A i \in Entries \ {e} : table'[i] = table[i]
      BY <2>4, <2>6 DEF WriteSerial, PeersTypeOK
    <3>4. table[e].serial \in {NoLeaf, receiving.leaf}
          /\ \A i \in Entries : table[i].serial = receiving.leaf => i = e
      BY <2>3, <2>6 DEF WriteSerial, WriteRight
    <3>5. UNCHANGED <<advertised, lookup, forwarded>>
          /\ receiving'.at = "mac" /\ receiving'.entry = e /\ receiving'.leaf = receiving.leaf
      BY <2>4, <2>6 DEF WriteSerial, PeersTypeOK
    <3> HIDE DEF e
    <3>6. TableRight'
      <4>1. \A i \in Entries : /\ Filled(i)' => table'[i].serial \in advertised'
                               /\ table'[i].mac \in {table'[i].serial, NoLeaf}
        BY <2>3, <3>1, <3>2, <3>3, <3>4, <3>5 DEF TableRight, Filled
      <4>2. ASSUME NEW i \in Entries, NEW j \in Entries, Filled(i)',
                   table'[i].serial = table'[j].serial
            PROVE  i = j
        BY <2>3, <3>1, <3>2, <3>3, <3>4, <4>2 DEF TableRight, Filled
      <4> QED BY <4>1, <4>2 DEF TableRight
    <3>7. WriteRight' BY <3>1, <3>2, <3>5 DEF WriteRight
    <3>8. lookup.at = "copy" => lookup.entry \in Entries /\ lookup.leaf # NoLeaf
      BY <2>3, <2>4 DEF LookupTyped, PeersTypeOK
    <3>9. LookupRight' BY <2>3, <3>2, <3>3, <3>4, <3>5, <3>8 DEF LookupRight
    <3> QED BY <3>6, <3>7, <3>9
  <2>7. CASE WriteMac
    <3> DEFINE e == receiving.entry
    <3>1. e \in Entries /\ table[e].serial = receiving.leaf
      BY <2>3, <2>4, <2>7 DEF WriteMac, WriteRight, PeersTypeOK
    <3>2. table'[e].serial = table[e].serial /\ table'[e].mac = receiving.leaf
      BY <2>4, <2>7, <3>1 DEF WriteMac, PeersTypeOK
    <3>3. \A i \in Entries \ {e} : table'[i] = table[i]
      BY <2>4, <2>7 DEF WriteMac, PeersTypeOK
    <3>4. UNCHANGED <<advertised, lookup, forwarded>> /\ receiving'.at = "idle"
      BY <2>7 DEF WriteMac, NotReceiving
    <3> HIDE DEF e
    <3>5. TableRight' BY <2>3, <3>1, <3>2, <3>3, <3>4 DEF TableRight, Filled
    <3>6. WriteRight' BY <3>4 DEF WriteRight
    <3>7. LookupRight' BY <2>3, <2>4, <3>2, <3>3, <3>4 DEF LookupRight, PeersTypeOK
    <3> QED BY <3>5, <3>6, <3>7
  <2>8. CASE ScanEntry
    <3>1. UNCHANGED <<table, advertised, receiving, forwarded>> BY <2>8 DEF ScanEntry
    <3>2. TableRight' /\ WriteRight' BY <2>3, <3>1 DEF TableRight, WriteRight, Filled
    <3>3. ~Torn(lookup.entry) BY <2>3 DEF Torn, WriteRight
    <3>4. Matches(lookup.entry, lookup.leaf) = {table[lookup.entry].serial = lookup.leaf}
      BY <3>3 DEF Matches
    <3>5. lookup'.at = "copy" => table'[lookup'.entry].serial = lookup'.leaf
      <4>1. CASE table[lookup.entry].serial = lookup.leaf
        <5>1. lookup' = [lookup EXCEPT !.at = "copy"]
          BY <2>8, <3>4, <4>1 DEF ScanEntry
        <5> QED BY <2>4, <3>1, <4>1, <5>1 DEF PeersTypeOK
      <4>2. CASE table[lookup.entry].serial # lookup.leaf
        <5>1. lookup' \in {NoLookup, [lookup EXCEPT !.entry = lookup.entry + 1]}
          BY <2>8, <3>4, <4>2 DEF ScanEntry
        <5>2. lookup.at = "scan" BY <2>8 DEF ScanEntry
        <5> QED BY <2>4, <5>1, <5>2 DEF NoLookup, PeersTypeOK
      <4> QED BY <4>1, <4>2
    <3>6. LookupRight' BY <2>3, <3>1, <3>5 DEF LookupRight
    <3> QED BY <3>2, <3>6
  <2>9. CASE CopyMac
    <3>1. UNCHANGED <<table, advertised, receiving>> /\ lookup'.at = "idle"
      BY <2>9 DEF CopyMac, NoLookup
    <3>2. TableRight' /\ WriteRight' BY <2>3, <3>1 DEF TableRight, WriteRight, Filled
    <3>3. lookup.entry \in Entries /\ table[lookup.entry].serial = lookup.leaf
      BY <2>3, <2>4, <2>9 DEF CopyMac, LookupRight, PeersTypeOK
    <3>4. table[lookup.entry].mac \in {lookup.leaf, NoLeaf} BY <2>3, <3>3 DEF TableRight
    <3>5. ~TornMac(lookup.entry) BY <2>3, <3>3, <3>4 DEF TornMac, WriteRight
    <3>6. MacsOf(lookup.entry) \subseteq {lookup.leaf, NoLeaf} BY <3>4, <3>5 DEF MacsOf
    <3>7. LookupRight' BY <2>3, <2>9, <3>1, <3>6 DEF LookupRight, CopyMac
    <3> QED BY <3>2, <3>7
  <2>10. CASE (\E l \in Leaves : LookUp(l)) \/ UNCHANGED peerVars
    <3>1. UNCHANGED <<table, advertised, receiving, forwarded>>
          /\ (lookup'.at = "copy" => lookup' = lookup)
      BY <2>10 DEF LookUp, peerVars
    <3>2. TableRight' /\ WriteRight' BY <2>3, <3>1 DEF TableRight, WriteRight, Filled
    <3>3. LookupRight' BY <2>3, <3>1 DEF LookupRight
    <3> QED BY <3>2, <3>3
  <2> QED BY <2>5, <2>6, <2>7, <2>8, <2>9, <2>10 DEF PeersNext
<1> QED BY <1>1, <1>2, <1>3 DEF PeersInv

\* As long as the leaves heard fit into the table, no command goes to another
\* leaf than the one it is for, although nothing locks the table.
THEOREM CommandFindsItsLeafHolds == PeersSpec => []CommandFindsItsLeaf
<1>1. PeersInit => PeersInv BY PeersInvInit
<1>2. PeersInv /\ [PeersNext]_peerVars => PeersInv' BY PeersInvStep
<1>3. PeersInv => CommandFindsItsLeaf
  BY DEF PeersInv, Fit, LookupRight, CommandFindsItsLeaf
<1> QED BY <1>1, <1>2, <1>3, PTL DEF PeersSpec

\* ----------------------------------------------- SensorScript, ScriptOutput

\* ------------------------------------------------------------------- types

LEMMA CommandTypes ==
  \A c \in Commands \cup {Timer} : c.script \in Scripts \cup {NoScript}
BY DEF Timer, Commands, Command

LEMMA QueueTypes ==
  ASSUME NEW q \in Seq(Commands)
  PROVE  /\ <<>> \in Seq(Commands) /\ Len(<<>>) = 0
         /\ \A c \in Commands : Append(q, c) \in Seq(Commands) /\ Len(Append(q, c)) = Len(q) + 1
         /\ q # <<>> => Head(q) \in Commands /\ Tail(q) \in Seq(Commands) /\ Len(Tail(q)) < Len(q)
OBVIOUS

LEMMA ScriptTypeInit == ScriptInit => ScriptTypeOK
<1> SUFFICES ASSUME ScriptInit PROVE ScriptTypeOK OBVIOUS
<1>1. commands \in Seq(Commands) /\ Len(commands) <= QueueRoom
  BY ScriptAssumption DEF ScriptInit
<1>2. told \in [kind : {"unknown", "installed", "failed", "deleted"},
                script : Scripts \cup {NoScript}]
  BY DEF ScriptInit, Unknown
<1>3. saved \in Programs /\ active \in Programs BY DEF ScriptInit, NoProgram, Program, Programs
<1>4. task \in [at : {"idle", "save", "delete", "lock", "run"}, command : Commands \cup {Timer}]
  BY DEF ScriptInit, Waiting, Doing
<1> QED BY <1>1, <1>2, <1>3, <1>4, ScriptAssumption DEF ScriptInit, ScriptTypeOK

\* An answer that is sent, or not, is well-formed.
LEMMA TellType ==
  ASSUME NEW kind \in {"installed", "failed", "deleted"}, NEW s \in Scripts \cup {NoScript},
         Tell(kind, s)
  PROVE  told' \in [kind : {"unknown", "installed", "failed", "deleted"},
                    script : Scripts \cup {NoScript}]
BY DEF Tell, Told, Unknown

LEMMA ScriptTypeStep == ScriptTypeOK /\ [ScriptNext]_scriptVars => ScriptTypeOK'
<1> SUFFICES ASSUME ScriptTypeOK, [ScriptNext]_scriptVars PROVE ScriptTypeOK'
  OBVIOUS
<1> DEFINE Task == [at : {"idle", "save", "delete", "lock", "run"},
                    command : Commands \cup {Timer}]
           ToldType == [kind : {"unknown", "installed", "failed", "deleted"},
                        script : Scripts \cup {NoScript}]
<1>t. /\ saved \in Programs /\ active \in Programs
      /\ commands \in Seq(Commands) /\ Len(commands) <= QueueRoom
      /\ task \in Task /\ lock \in {"free", "script", "battery"}
      /\ ports \subseteq Ports /\ rails \subseteq {"sensor", "rs485"}
      /\ online \in BOOLEAN /\ told \in ToldType
      /\ sentCommands \in 0..MaxCommands /\ scriptFaults \in 0..MaxScriptFaults
  BY DEF ScriptTypeOK
<1>u. ASSUME saved' \in Programs, active' \in Programs,
             commands' \in Seq(Commands), Len(commands') <= QueueRoom,
             task' \in Task, lock' \in {"free", "script", "battery"},
             ports' \subseteq Ports, rails' \subseteq {"sensor", "rs485"},
             online' \in BOOLEAN, told' \in ToldType,
             sentCommands' \in 0..MaxCommands, scriptFaults' \in 0..MaxScriptFaults
      PROVE  ScriptTypeOK'
  BY <1>u DEF ScriptTypeOK
<1> HIDE DEF Task, ToldType
<1>c. task.command \in Commands \cup {Timer} /\ task.command.script \in Scripts \cup {NoScript}
  BY <1>t, CommandTypes DEF Task
<1>d. \A step \in {"idle", "save", "delete", "lock", "run"}, c \in Commands \cup {Timer} :
        Doing(step, c) \in Task
  BY DEF Doing, Task
<1>w. Waiting \in Task BY <1>d DEF Waiting
<1>p. \A s \in Scripts \cup {NoScript} : Program(s) \in Programs
  BY DEF Program, Programs
<1>n. NoProgram \in Programs BY <1>p DEF NoProgram
<1>k. Unknown \in ToldType BY DEF Unknown, ToldType
<1>s. \A kind \in {"installed", "failed", "deleted"}, s \in Scripts \cup {NoScript} :
        Tell(kind, s) => told' \in ToldType
  BY TellType DEF ToldType
<1>e. <<>> \in Seq(Commands) /\ Len(<<>>) <= QueueRoom BY ScriptAssumption
<1>f. ScriptFault => scriptFaults' \in 0..MaxScriptFaults
  BY <1>t, ScriptAssumption DEF ScriptFault
<1>g. \A works \in BOOLEAN : FinishCommand(works) => task' \in Task /\ told' \in ToldType
  BY <1>t, <1>c, <1>w, <1>s DEF FinishCommand
<1>r. ASSUME NEW port \in Ports PROVE Rail(port) \in {"sensor", "rs485"} BY DEF Rail
<1>1. ASSUME NEW c \in Commands, SendCommand(c) PROVE ScriptTypeOK'
  <2>1. commands' \in Seq(Commands) /\ Len(commands') <= QueueRoom
    BY <1>1, <1>t, QueueTypes, ScriptAssumption DEF SendCommand
  <2>2. sentCommands' \in 0..MaxCommands BY <1>1, <1>t, ScriptAssumption DEF SendCommand
  <2>3. told' \in ToldType BY <1>1, <1>t, <1>k DEF SendCommand
  <2> QED BY <1>1, <2>1, <2>2, <2>3, <1>t, <1>u DEF SendCommand
<1>2. CASE LoseSession BY <1>2, <1>t, <1>u, <1>f DEF LoseSession
<1>3. CASE RegainSession BY <1>3, <1>t, <1>u DEF RegainSession
<1>4. CASE ResetBoard BY <1>4, <1>t, <1>u, <1>f, <1>n, <1>w, <1>e, <1>k DEF ResetBoard
<1>5. CASE ResetInSave
  <2>1. saved' \in Programs BY <1>5, <1>t, <1>c DEF ResetInSave, Programs
  <2> QED BY <1>5, <2>1, <1>t, <1>u, <1>f, <1>w, <1>e, <1>k DEF ResetInSave
<1>6. CASE TakeCommand
  <2>1. Head(commands) \in Commands /\ Tail(commands) \in Seq(Commands)
        /\ Len(Tail(commands)) <= QueueRoom
    BY <1>6, <1>t, ScriptAssumption DEF TakeCommand
  <2>2. task' \in Task BY <1>6, <2>1, <1>d DEF TakeCommand
  <2> QED BY <1>6, <2>1, <2>2, <1>t, <1>u DEF TakeCommand
<1>7. CASE TimerFires BY <1>7, <1>t, <1>u, <1>d DEF TimerFires
<1>8. CASE InstallScript
  <2>1. NotInstalled => task' \in Task /\ told' \in ToldType /\ active' = active
    BY <1>c, <1>w, <1>s DEF NotInstalled
  <2>2. saved' \in Programs BY <1>8, <1>t, <1>c, <1>p DEF InstallScript, Programs
  <2>3. active' \in Programs /\ task' \in Task /\ told' \in ToldType
        /\ scriptFaults' \in 0..MaxScriptFaults
    BY <1>8, <2>1, <1>t, <1>c, <1>d, <1>p, <1>f DEF InstallScript
  <2> QED BY <1>8, <2>2, <2>3, <1>t, <1>u DEF InstallScript
<1>9. CASE DeleteScript
  <2>1. saved' \in Programs BY <1>9, <1>t, <1>n DEF DeleteScript
  <2>2. saved'.source \in Scripts \cup {NoScript} BY <2>1 DEF Programs
  <2>3. told' \in ToldType BY <1>9, <2>2, <1>s DEF DeleteScript
  <2>4. ports' = {} /\ rails' = {} BY <1>9 DEF DeleteScript, CloseAll
  <2> QED BY <1>9, <2>1, <2>3, <2>4, <1>t, <1>u, <1>f, <1>n, <1>w DEF DeleteScript
<1>10. CASE RunNothing BY <1>10, <1>t, <1>u, <1>g DEF RunNothing
<1>11. CASE TakeHardware BY <1>11, <1>t, <1>u, <1>c, <1>d DEF TakeHardware
<1>12. CASE EndRun BY <1>12, <1>t, <1>u, <1>g DEF EndRun, CloseAll
<1>13. ASSUME NEW port \in Ports, OpenPort(port) PROVE ScriptTypeOK'
  <2>1. ports' \subseteq Ports /\ rails' \subseteq {"sensor", "rs485"}
    BY <1>13, <1>t, <1>r DEF OpenPort
  <2> QED BY <1>13, <2>1, <1>t, <1>u DEF OpenPort
<1>14. ASSUME NEW port \in Ports, ClosePort(port) PROVE ScriptTypeOK'
  <2>1. ports' \subseteq Ports /\ rails' \subseteq {"sensor", "rs485"}
    BY <1>14, <1>t DEF ClosePort
  <2> QED BY <1>14, <2>1, <1>t, <1>u DEF ClosePort
<1>15. CASE ReadBattery BY <1>15, <1>t, <1>u DEF ReadBattery
<1>16. CASE BatteryRead BY <1>16, <1>t, <1>u DEF BatteryRead
<1>17. CASE UNCHANGED scriptVars BY <1>17, <1>t, <1>u DEF scriptVars
<1> QED
  BY <1>1, <1>2, <1>3, <1>4, <1>5, <1>6, <1>7, <1>8, <1>9, <1>10, <1>11, <1>12, <1>13,
     <1>14, <1>15, <1>16, <1>17 DEF ScriptNext

\* Every variable of the script engine keeps its type.
THEOREM ScriptTypeCorrect == ScriptSpec => []ScriptTypeOK
<1>1. ScriptInit => ScriptTypeOK BY ScriptTypeInit
<1>2. ScriptTypeOK /\ [ScriptNext]_scriptVars => ScriptTypeOK' BY ScriptTypeStep
<1> QED BY <1>1, <1>2, PTL DEF ScriptSpec

\* ------------------------------------------------------------------- safety

\* A running program holds the hardware; a program that is about to run or runs
\* after it was installed is the one in memory and in NVS.
TaskRight ==
  /\ task.at = "idle" => ~Changes(task.command)
  /\ task.at = "run" => lock = "script"
  /\ task.at = "save" => task.command.action = "set"
  /\ task.at \in {"lock", "run"} => task.command.action # "delete"
  /\ task.at \in {"lock", "run"} /\ task.command.action = "set" =>
       active = Program(task.command.script) /\ saved = active

LEMMA TaskRightInit == ScriptInit => TaskRight
BY DEF ScriptInit, TaskRight, Waiting, Doing, Timer, Command, Changes

LEMMA TaskRightStep == ScriptTypeOK /\ TaskRight /\ [ScriptNext]_scriptVars => TaskRight'
<1> SUFFICES ASSUME ScriptTypeOK, TaskRight, [ScriptNext]_scriptVars PROVE TaskRight'
  OBVIOUS
<1>w. Waiting.at = "idle" /\ ~Changes(Waiting.command)
  BY DEF Waiting, Doing, Timer, Command, Changes
<1>i. ASSUME task' = Waiting PROVE TaskRight'
  BY <1>w, <1>i DEF TaskRight, Changes
<1>1. CASE UNCHANGED <<task, lock, active, saved>>
  BY <1>1 DEF TaskRight, Changes
<1>2. CASE TakeCommand
  <2>1. /\ task'.at \in {"save", "lock", "delete"}
        /\ task'.at = "lock" => task'.command.action = "run"
        /\ task'.at = "save" => task'.command.action = "set"
    BY <1>2 DEF TakeCommand, Doing
  <2> QED BY <2>1 DEF TaskRight
<1>3. CASE TimerFires
  BY <1>3 DEF TimerFires, TaskRight, Doing, Timer, Command
<1>4. CASE InstallScript
  <2>1. CASE NotInstalled BY <2>1, <1>i DEF NotInstalled
  <2>2. CASE ~NotInstalled
    BY <1>4, <2>2 DEF InstallScript, TaskRight, Doing
  <2> QED BY <2>1, <2>2
<1>5. CASE TakeHardware
  BY <1>5 DEF TakeHardware, TaskRight, Doing
<1>6. CASE ReadBattery \/ BatteryRead
  BY <1>6 DEF ReadBattery, BatteryRead, TaskRight, Changes
<1>7. CASE ResetBoard \/ ResetInSave \/ DeleteScript \/ RunNothing \/ EndRun
  BY <1>7, <1>i DEF ResetBoard, ResetInSave, DeleteScript, RunNothing, EndRun, FinishCommand
<1>8. CASE \/ \E c \in Commands : SendCommand(c)
           \/ LoseSession \/ RegainSession \/ UNCHANGED scriptVars
           \/ \E port \in Ports : OpenPort(port) \/ ClosePort(port)
  BY <1>8, <1>1 DEF SendCommand, LoseSession, RegainSession, OpenPort, ClosePort, scriptVars
<1> QED
  BY <1>2, <1>3, <1>4, <1>5, <1>6, <1>7, <1>8 DEF ScriptNext

LEMMA PinsStep ==
  TaskRight /\ PinsExclusive /\ [ScriptNext]_scriptVars => PinsExclusive'
<1> SUFFICES ASSUME TaskRight, PinsExclusive, [ScriptNext]_scriptVars PROVE PinsExclusive'
  OBVIOUS
<1> USE DEF PinsExclusive
<1>1. CASE UNCHANGED <<lock, ports, rails>> BY <1>1
<1>2. CASE CloseAll BY <1>2 DEF CloseAll
<1>3. ASSUME NEW port \in Ports, OpenPort(port) PROVE PinsExclusive'
  <2>1. lock' = "script" BY <1>3 DEF OpenPort, TaskRight
  <2>2. ports' \subseteq (ports \ Rival(port)) \cup {port} BY <1>3 DEF OpenPort
  <2>3. ~({"i2c", "uart"} \subseteq ports') BY <2>2 DEF Rival
  <2> QED BY <2>1, <2>3
<1>4. ASSUME NEW port \in Ports, ClosePort(port) PROVE PinsExclusive'
  <2>1. lock' = "script" BY <1>4 DEF ClosePort, TaskRight
  <2> QED BY <1>4, <2>1 DEF ClosePort
<1>5. CASE ResetBoard \/ ResetInSave BY <1>5 DEF ResetBoard, ResetInSave
<1>6. CASE TakeHardware \/ ReadBattery \/ BatteryRead
  BY <1>6 DEF TakeHardware, ReadBattery, BatteryRead
<1>7. CASE DeleteScript \/ EndRun BY <1>7, <1>2 DEF DeleteScript, EndRun
<1>8. CASE \/ \E c \in Commands : SendCommand(c)
           \/ LoseSession \/ RegainSession \/ UNCHANGED scriptVars
           \/ TakeCommand \/ TimerFires \/ InstallScript \/ RunNothing
  BY <1>8, <1>1 DEF SendCommand, LoseSession, RegainSession, scriptVars, TakeCommand,
                    TimerFires, InstallScript, RunNothing
<1> QED BY <1>3, <1>4, <1>5, <1>6, <1>7, <1>8 DEF ScriptNext

\* No two of I2C, UART and the battery divider use their pins at a time, and
\* outside a run every port and rail is off.
THEOREM PinsExclusiveHolds == ScriptSpec => []PinsExclusive
<1>1. ScriptInit => ScriptTypeOK /\ TaskRight /\ PinsExclusive
  <2>1. ScriptInit => PinsExclusive BY DEF ScriptInit, PinsExclusive
  <2> QED BY <2>1, ScriptTypeInit, TaskRightInit
<1>2. ScriptTypeOK /\ TaskRight /\ PinsExclusive /\ [ScriptNext]_scriptVars
      => (ScriptTypeOK /\ TaskRight /\ PinsExclusive)'
  BY ScriptTypeStep, TaskRightStep, PinsStep
<1> QED BY <1>1, <1>2, PTL DEF ScriptSpec

\* No command in the queue changes the script.
Quiet(queue) == \A i \in DOMAIN queue : ~Changes(queue[i])

LEMMA QuietQueue ==
  ASSUME NEW q \in Seq(Commands)
  PROVE  /\ \A c \in Commands : Quiet(Append(q, c)) => Quiet(q) /\ ~Changes(c)
         /\ q # <<>> /\ Quiet(Tail(q)) /\ ~Changes(Head(q)) => Quiet(q)
<1>1. ASSUME NEW c \in Commands, Quiet(Append(q, c)) PROVE Quiet(q) /\ ~Changes(c)
  <2>1. \A i \in DOMAIN q : Append(q, c)[i] = q[i] /\ i \in DOMAIN Append(q, c) OBVIOUS
  <2>2. Append(q, c)[Len(q) + 1] = c /\ Len(q) + 1 \in DOMAIN Append(q, c) OBVIOUS
  <2> QED BY <1>1, <2>1, <2>2 DEF Quiet
<1>2. ASSUME q # <<>>, Quiet(Tail(q)), ~Changes(Head(q)) PROVE Quiet(q)
  <2> SUFFICES ASSUME NEW i \in DOMAIN q PROVE ~Changes(q[i]) BY DEF Quiet
  <2>1. CASE i = 1 BY <1>2, <2>1
  <2>2. CASE i # 1
    <3>1. i - 1 \in DOMAIN Tail(q) /\ Tail(q)[i - 1] = q[i] BY <1>2, <2>2
    <3> QED BY <1>2, <3>1 DEF Quiet
  <2> QED BY <2>1, <2>2
<1> QED BY <1>1, <1>2

\* ToldIsTrue is kept by a step that changes neither the script nor what was
\* told, unless a change that was under way is over.
LEMMA ToldStep ==
  ScriptTypeOK /\ TaskRight /\ ToldIsTrue /\ [ScriptNext]_scriptVars => ToldIsTrue'
<1> SUFFICES ASSUME ScriptTypeOK, TaskRight, ToldIsTrue, [ScriptNext]_scriptVars
             PROVE  ToldIsTrue'
  OBVIOUS
<1>a. Settled <=> ~Changes(task.command) /\ Quiet(commands) BY DEF Settled, Quiet
<1>b. Settled' <=> ~Changes(task'.command) /\ Quiet(commands') BY DEF Settled, Quiet, Changes
<1>c. commands \in Seq(Commands) BY DEF ScriptTypeOK
<1>w. ~Changes(Waiting.command) BY DEF Waiting, Doing, Timer, Command, Changes
<1>k. ASSUME Settled' => Settled, UNCHANGED <<saved, active, told>> PROVE ToldIsTrue'
  BY <1>k DEF ToldIsTrue
<1>l. ASSUME told'.kind \notin {"installed", "deleted"} PROVE ToldIsTrue'
  BY <1>l DEF ToldIsTrue
<1>u. Unknown.kind = "unknown" BY DEF Unknown
<1>1. ASSUME NEW c \in Commands, SendCommand(c) PROVE ToldIsTrue'
  <2>1. CASE Len(commands) < QueueRoom /\ Changes(c)
    BY <1>1, <2>1, <1>l, <1>u DEF SendCommand
  <2>2. CASE ~(Len(commands) < QueueRoom /\ Changes(c))
    <3>1. Quiet(commands') => Quiet(commands)
      BY <1>1, <2>2, <1>c, QuietQueue DEF SendCommand
    <3> QED BY <1>1, <2>2, <3>1, <1>a, <1>b, <1>k DEF SendCommand
  <2> QED BY <2>1, <2>2
<1>2. CASE ResetBoard
  <2>1. CASE Settled
    <3>1. told' = told /\ saved' = saved
          /\ active' = IF saved.source = NoScript THEN NoProgram ELSE saved
      BY <1>2, <2>1 DEF ResetBoard, Settled
    <3>2. NoProgram = Program(NoScript) /\ NoProgram.source = NoScript
      BY DEF NoProgram, Program
    <3>3. told.kind = "installed" => active' = Program(told.script) /\ saved' = active'
      BY <2>1, <3>1, <3>2 DEF ToldIsTrue, Program
    <3>4. told.kind = "deleted" => /\ saved'.source = told.script
                                   /\ told.script = NoScript => active'.source = NoScript
      BY <2>1, <3>1, <3>2 DEF ToldIsTrue
    <3> QED BY <3>1, <3>3, <3>4 DEF ToldIsTrue
  <2>2. CASE ~Settled
    BY <1>2, <2>2, <1>l, <1>u DEF ResetBoard, Settled
  <2> QED BY <2>1, <2>2
<1>3. CASE ResetInSave BY <1>3, <1>l, <1>u DEF ResetInSave
<1>4. CASE TakeCommand
  <2>1. task'.command = Head(commands) /\ commands' = Tail(commands) /\ commands # <<>>
    BY <1>4 DEF TakeCommand, Doing
  <2>2. Settled' => Settled
    BY <1>4, <2>1, <1>a, <1>b, <1>c, QuietQueue DEF TakeCommand, TaskRight
  <2> QED BY <1>4, <2>2, <1>k DEF TakeCommand
<1>5. CASE TimerFires
  <2>1. Settled' => Settled BY <1>5, <1>a, <1>b DEF TimerFires, TaskRight
  <2> QED BY <1>5, <2>1, <1>k DEF TimerFires
<1>6. CASE InstallScript
  <2>1. CASE NotInstalled BY <2>1, <1>l, <1>u DEF NotInstalled, Tell, Told
  <2>2. CASE ~NotInstalled
    <3>1. task' = Doing("lock", task.command) /\ told' = told
      BY <1>6, <2>2 DEF InstallScript
    <3>3. Changes(task'.command)
      BY <1>6, <3>1 DEF InstallScript, TaskRight, Changes, Doing
    <3> QED BY <3>3, <1>b DEF ToldIsTrue
  <2> QED BY <2>1, <2>2
<1>7. CASE DeleteScript
  <2>1. CASE told' = Told("deleted", saved'.source)
    <3>1. active'.source = NoScript BY <1>7 DEF DeleteScript, NoProgram, Program
    <3> QED BY <2>1, <3>1 DEF Told, ToldIsTrue
  <2>2. CASE told' = Unknown BY <2>2, <1>l, <1>u
  <2> QED BY <1>7, <2>1, <2>2 DEF DeleteScript, Tell
<1>8. ASSUME NEW works \in BOOLEAN, FinishCommand(works), task.at \in {"lock", "run"},
             UNCHANGED <<saved, active, commands>>
      PROVE  ToldIsTrue'
  <2>1. CASE task.command.action = "set"
    <3>1. active' = Program(task.command.script) /\ saved' = active'
      BY <1>8, <2>1 DEF TaskRight
    <3>2. told' \in {Told("installed", task.command.script), Told("failed", task.command.script),
                     Unknown}
      BY <1>8, <2>1 DEF FinishCommand, Tell
    <3> QED BY <3>1, <3>2, <1>l, <1>u DEF Told, ToldIsTrue
  <2>2. CASE task.command.action # "set"
    <3>1. told' = told BY <1>8, <2>2 DEF FinishCommand
    <3>2. Settled' => Settled BY <1>8, <2>2, <1>a, <1>b DEF TaskRight, Changes
    <3> QED BY <1>8, <3>1, <3>2, <1>k
  <2> QED BY <2>1, <2>2
<1>9. CASE RunNothing BY <1>8, <1>9 DEF RunNothing
<1>10. CASE EndRun BY <1>8, <1>10 DEF EndRun
<1>11. CASE UNCHANGED <<saved, active, told, commands>> /\ task'.command = task.command
  BY <1>11, <1>a, <1>b, <1>k
<1>12. CASE \/ LoseSession \/ RegainSession \/ TakeHardware \/ ReadBattery \/ BatteryRead
            \/ \E port \in Ports : OpenPort(port) \/ ClosePort(port)
            \/ UNCHANGED scriptVars
  BY <1>11, <1>12 DEF LoseSession, RegainSession, TakeHardware, ReadBattery, BatteryRead,
                      OpenPort, ClosePort, scriptVars, Doing
<1> QED
  BY <1>1, <1>2, <1>3, <1>4, <1>5, <1>6, <1>7, <1>9, <1>10, <1>12 DEF ScriptNext

\* What the user was told of the script is so, across runs that fail, resets,
\* lost sessions and NVS writes that fail, until a command that changes it.
THEOREM ToldIsTrueHolds == ScriptSpec => []ToldIsTrue
<1>1. ScriptInit => ScriptTypeOK /\ TaskRight /\ ToldIsTrue
  <2>1. ScriptInit => ToldIsTrue BY DEF ScriptInit, ToldIsTrue, Unknown
  <2> QED BY <2>1, ScriptTypeInit, TaskRightInit
<1>2. ScriptTypeOK /\ TaskRight /\ ToldIsTrue /\ [ScriptNext]_scriptVars
      => (ScriptTypeOK /\ TaskRight /\ ToldIsTrue)'
  BY ScriptTypeStep, TaskRightStep, ToldStep
<1> QED BY <1>1, <1>2, PTL DEF ScriptSpec

\* --------------------------------------------------------- the global buffer

\* What the proofs need of the types.
OutputShape ==
  /\ buffer \in Seq(Nat) /\ meant \in Seq(Nat)
  /\ length \in 0..Len(buffer)
  /\ runner \in [at : {"idle", "run", "publish"}, chunk : Nat]
  /\ runner.at = "idle" => runner = NoRun
  /\ execution \in Nat /\ boots \in Nat /\ writes \in Nat

\* The buffer's content, byte by byte.
Content ==
  runner # NoRun => Len(meant) = length /\ \A i \in 1..length : meant[i] = buffer[i]

\* Blobs are those of runs that ended; the one that is published is the last.
BlobsRight ==
  /\ OneBlobEach
  /\ \A b \in blobs : \/ b.boot \in Nat /\ b.boot < boots
                      \/ b.boot = boots /\ b.id \in Nat /\ b.id < execution
                      \/ b.boot = boots /\ b.id = execution /\ runner.at # "run"
  /\ runner.at = "publish" => [boot |-> boots, id |-> execution, blob |-> meant] \in blobs

MessagesRight ==
  \A m \in messages : \E b \in blobs :
    /\ m.boot = b.boot /\ m.id = b.id
    /\ m.data = Piece(b.blob, m.index) /\ m.count = Pieces(b.blob)

OutputInv == OutputShape /\ Content /\ BlobsRight /\ MessagesRight

LEMMA OutputInitRight == OutputInit => OutputInv
BY DEF OutputInit, OutputInv, OutputShape, Content, BlobsRight, MessagesRight, OneBlobEach,
       NoBuffer, NoRun

\* A buffer that a write or util_init_global_buffer finds or makes: it is the
\* one there is, or it is new and empty.
LEMMA BufferFound ==
  ASSUME OutputShape, NEW capacity \in Nat, NEW b \in Ensured(capacity)
  PROVE  /\ b.cells \in Seq(Nat) /\ b.length \in 0..Len(b.cells)
         /\ b = [cells |-> buffer, length |-> length] \/ b.length = 0
<1>1. Allocated(capacity) \in Seq(Nat) /\ Len(Allocated(capacity)) = capacity
  BY OutputAssumption DEF Allocated, Unwritten
<1> QED BY <1>1 DEF Ensured, OutputShape

\* The first write of a run that finds no buffer has none to lose.
LEMMA BufferForWrite ==
  ASSUME OutputShape, NEW b \in ForWrite
  PROVE  /\ b.cells \in Seq(Nat) /\ b.length = length /\ length \in 0..Len(b.cells)
         /\ \A i \in 1..length : b.cells[i] = buffer[i]
<1>1. CASE buffer = NoBuffer
  <2>1. b \in Ensured(BufferSize) BY <1>1 DEF ForWrite
  <2>2. length = 0 BY <1>1 DEF OutputShape, NoBuffer
  <2>3. b.cells \in Seq(Nat) /\ b.length \in 0..Len(b.cells)
        /\ (b = [cells |-> buffer, length |-> length] \/ b.length = 0)
    BY <2>1, BufferFound, OutputAssumption
  <2> QED BY <2>2, <2>3
<1>2. CASE buffer # NoBuffer
  BY <1>2 DEF ForWrite, OutputShape
<1> QED BY <1>1, <1>2

\* memcpy into a part of the buffer.
LEMMA PutRight ==
  ASSUME NEW cells \in Seq(Nat), NEW offset \in Nat, NEW data \in Seq(Nat),
         offset + Len(data) <= Len(cells)
  PROVE  /\ Put(cells, offset, data) \in Seq(Nat)
         /\ Len(Put(cells, offset, data)) = Len(cells)
         /\ \A i \in 1..Len(cells) :
              Put(cells, offset, data)[i] = IF i \in offset + 1 .. offset + Len(data)
                                            THEN data[i - offset] ELSE cells[i]
<1> DEFINE Byte(i) == IF i \in offset + 1 .. offset + Len(data) THEN data[i - offset]
                      ELSE cells[i]
<1>1. Put(cells, offset, data) = [i \in 1..Len(cells) |-> Byte(i)] BY DEF Put
<1>2. \A i \in 1..Len(cells) : Byte(i) \in Nat
  <2> SUFFICES ASSUME NEW i \in 1..Len(cells) PROVE Byte(i) \in Nat OBVIOUS
  <2>1. CASE i \in offset + 1 .. offset + Len(data)
    <3>1. i - offset \in 1..Len(data) BY <2>1
    <3> QED BY <2>1, <3>1
  <2> QED BY <2>1
<1> HIDE DEF Byte
<1>3. /\ Put(cells, offset, data) \in Seq(Nat) /\ Len(Put(cells, offset, data)) = Len(cells)
      /\ \A i \in 1..Len(cells) : Put(cells, offset, data)[i] = Byte(i)
  BY <1>1, <1>2
<1> QED BY <1>3 DEF Byte

LEMMA BytesRight ==
  ASSUME OutputShape, NEW n \in Nat
  PROVE  Bytes(n) \in Seq(Nat) /\ Len(Bytes(n)) = n
BY DEF Bytes, OutputShape

\* A write of a run changes neither blobs nor messages.
LEMMA BlobsKept ==
  ASSUME BlobsRight, MessagesRight, runner.at = "run", runner' = runner,
         UNCHANGED <<execution, boots, blobs, messages>>
  PROVE  BlobsRight' /\ MessagesRight'
BY DEF BlobsRight, MessagesRight, OneBlobEach, Piece, Pieces

LEMMA InitBufferStep ==
  ASSUME OutputInv, NEW capacity \in 1..BufferSize, InitBuffer(capacity)
  PROVE  OutputInv'
<1>1. PICK b \in Ensured(capacity) : buffer' = b.cells BY DEF InitBuffer
<1>2. b.cells \in Seq(Nat) BY <1>1, BufferFound, OutputAssumption DEF OutputInv
<1>3. OutputShape' BY <1>1, <1>2 DEF InitBuffer, OutputInv, OutputShape
<1>4. Content' BY DEF InitBuffer, Content
<1>5. BlobsRight' /\ MessagesRight' BY BlobsKept DEF InitBuffer, OutputInv
<1> QED BY <1>3, <1>4, <1>5 DEF OutputInv

LEMMA AppendStep ==
  ASSUME OutputInv, NEW n \in 1..MaxWriteSize, AppendBytes(n)
  PROVE  OutputInv'
<1> USE DEF OutputInv
<1>1. PICK b \in ForWrite : /\ n <= Len(b.cells) - b.length
                            /\ buffer' = Put(b.cells, b.length, Bytes(n))
                            /\ length' = b.length + n
  BY DEF AppendBytes
<1>2. /\ b.cells \in Seq(Nat) /\ b.length = length /\ length \in 0..Len(b.cells)
      /\ \A i \in 1..length : b.cells[i] = buffer[i]
  BY BufferForWrite
<1>3. n \in Nat /\ Bytes(n) \in Seq(Nat) /\ Len(Bytes(n)) = n
  BY BytesRight, OutputAssumption
<1>4. /\ buffer' \in Seq(Nat) /\ Len(buffer') = Len(b.cells)
      /\ \A i \in 1..Len(b.cells) : buffer'[i] = IF i \in length + 1 .. length + n
                                                 THEN Bytes(n)[i - length] ELSE b.cells[i]
  <2>1. length \in Nat /\ length + Len(Bytes(n)) <= Len(b.cells) BY <1>1, <1>2, <1>3
  <2>2. buffer' = Put(b.cells, length, Bytes(n)) BY <1>1, <1>2
  <2>3. /\ Put(b.cells, length, Bytes(n)) \in Seq(Nat)
        /\ Len(Put(b.cells, length, Bytes(n))) = Len(b.cells)
        /\ \A i \in 1..Len(b.cells) : Put(b.cells, length, Bytes(n))[i] =
             IF i \in length + 1 .. length + Len(Bytes(n)) THEN Bytes(n)[i - length]
             ELSE b.cells[i]
    BY <2>1, <1>2, <1>3, PutRight, Zenon
  <2> QED BY <2>2, <2>3, <1>3
<1>5. /\ meant' = meant \o Bytes(n) /\ runner' = runner /\ runner.at = "run"
      /\ writes' = writes + 1 /\ UNCHANGED <<execution, boots>>
  BY DEF AppendBytes, Write
<1>6. Len(meant) = length /\ \A i \in 1..length : meant[i] = buffer[i]
  BY <1>5 DEF Content, NoRun
<1>7. meant' \in Seq(Nat) /\ Len(meant') = length + n
      /\ \A i \in 1..length + n : meant'[i] = IF i <= length THEN meant[i]
                                              ELSE Bytes(n)[i - length]
  <2>1. meant \in Seq(Nat) BY DEF OutputShape
  <2>2. /\ meant \o Bytes(n) \in Seq(Nat)
        /\ Len(meant \o Bytes(n)) = Len(meant) + Len(Bytes(n))
        /\ \A i \in 1 .. Len(meant) + Len(Bytes(n)) :
             (meant \o Bytes(n))[i] = IF i <= Len(meant) THEN meant[i]
                                      ELSE Bytes(n)[i - Len(meant)]
    BY <2>1, <1>3, ConcatProperties, Zenon
  <2> QED BY <2>2, <1>3, <1>5, <1>6
<1>8. OutputShape'
  <2>1. length' \in 0..Len(buffer')
    BY <1>1, <1>2, <1>3, <1>4
  <2> QED BY <1>4, <1>5, <1>7, <2>1 DEF OutputShape
<1>9. Content'
  <2>1. SUFFICES ASSUME NEW i \in 1..length + n PROVE meant'[i] = buffer'[i]
    BY <1>1, <1>2, <1>7 DEF Content
  <2>2. i \in 1..Len(b.cells) /\ length \in Nat /\ i \in Nat BY <1>1, <1>2, <1>3
  <2>3. CASE i <= length
    <3>1. i \in 1..length /\ i \notin length + 1 .. length + n BY <2>2, <2>3
    <3>2. buffer'[i] = b.cells[i] BY <2>2, <3>1, <1>4
    <3>3. meant'[i] = meant[i] BY <2>3, <1>7
    <3> QED BY <3>1, <3>2, <3>3, <1>2, <1>6
  <2>4. CASE ~(i <= length)
    <3>1. i \in length + 1 .. length + n BY <2>2, <2>4
    <3>2. buffer'[i] = Bytes(n)[i - length] BY <2>2, <3>1, <1>4
    <3>3. meant'[i] = Bytes(n)[i - length] BY <2>4, <1>7
    <3> QED BY <3>2, <3>3
  <2> QED BY <2>3, <2>4
<1>10. BlobsRight' /\ MessagesRight' BY <1>5, BlobsKept DEF AppendBytes
<1> QED BY <1>8, <1>9, <1>10

LEMMA ZeroFilledRight ==
  ASSUME NEW b, NEW offset \in Nat, b.cells \in Seq(Nat)
  PROVE  /\ ZeroFilled(b, offset) \in Seq(Nat) /\ Len(ZeroFilled(b, offset)) = Len(b.cells)
         /\ \A i \in 1..Len(b.cells) :
              ZeroFilled(b, offset)[i] = IF i \in b.length + 1 .. offset THEN 0 ELSE b.cells[i]
BY DEF ZeroFilled, Zero

LEMMA OverlaidRight ==
  ASSUME OutputShape, NEW offset \in Nat, NEW data \in Seq(Nat)
  PROVE  LET end == IF offset + Len(data) > Len(meant) THEN offset + Len(data) ELSE Len(meant)
         IN /\ Overlaid(offset, data) \in Seq(Nat) /\ Len(Overlaid(offset, data)) = end
            /\ \A i \in 1..end :
                 Overlaid(offset, data)[i] = IF i \in offset + 1 .. offset + Len(data)
                                             THEN data[i - offset]
                                             ELSE IF i <= Len(meant) THEN meant[i] ELSE 0
<1> DEFINE end == IF offset + Len(data) > Len(meant) THEN offset + Len(data) ELSE Len(meant)
           Byte(i) == IF i \in offset + 1 .. offset + Len(data) THEN data[i - offset]
                      ELSE IF i <= Len(meant) THEN meant[i] ELSE 0
<1>1. meant \in Seq(Nat) BY DEF OutputShape
<1>2. end \in Nat /\ Overlaid(offset, data) = [i \in 1..end |-> Byte(i)]
  BY <1>1 DEF Overlaid, Zero
<1>3. \A i \in 1..end : Byte(i) \in Nat BY <1>1
<1> HIDE DEF end, Byte
<1>4. Overlaid(offset, data) \in Seq(Nat) /\ Len(Overlaid(offset, data)) = end
      /\ \A i \in 1..end : Overlaid(offset, data)[i] = Byte(i)
  BY <1>2, <1>3
<1> QED BY <1>4 DEF end, Byte

LEMMA WriteAtStep ==
  ASSUME OutputInv, NEW n \in 1..MaxWriteSize, NEW offset \in 0..BufferSize - 1,
         WriteAt(offset, n)
  PROVE  OutputInv'
<1> USE DEF OutputInv
<1>1. PICK b \in ForWrite :
        /\ offset < Len(b.cells) /\ n <= Len(b.cells) - offset
        /\ buffer' = Put(ZeroFilled(b, offset), offset, Bytes(n))
        /\ length' = IF offset + n > b.length THEN offset + n ELSE b.length
  BY DEF WriteAt
<1>2. /\ b.cells \in Seq(Nat) /\ b.length = length /\ length \in 0..Len(b.cells)
      /\ \A i \in 1..length : b.cells[i] = buffer[i]
  BY BufferForWrite
<1>3. n \in Nat /\ offset \in Nat /\ Bytes(n) \in Seq(Nat) /\ Len(Bytes(n)) = n
  BY BytesRight, OutputAssumption
<1>4. /\ ZeroFilled(b, offset) \in Seq(Nat) /\ Len(ZeroFilled(b, offset)) = Len(b.cells)
      /\ \A i \in 1..Len(b.cells) :
           ZeroFilled(b, offset)[i] = IF i \in length + 1 .. offset THEN 0 ELSE b.cells[i]
  BY <1>2, <1>3, ZeroFilledRight
<1>5. /\ buffer' \in Seq(Nat) /\ Len(buffer') = Len(b.cells)
      /\ \A i \in 1..Len(b.cells) :
           buffer'[i] = IF i \in offset + 1 .. offset + n THEN Bytes(n)[i - offset]
                        ELSE ZeroFilled(b, offset)[i]
  <2> DEFINE filled == ZeroFilled(b, offset)
             put == Put(filled, offset, Bytes(n))
  <2>1. filled \in Seq(Nat) /\ offset + Len(Bytes(n)) <= Len(filled)
    BY <1>1, <1>2, <1>3, <1>4
  <2>2. /\ put \in Seq(Nat) /\ Len(put) = Len(filled)
        /\ \A i \in 1..Len(filled) : put[i] =
             IF i \in offset + 1 .. offset + Len(Bytes(n)) THEN Bytes(n)[i - offset]
             ELSE filled[i]
    <3> HIDE DEF filled
    <3> QED BY <2>1, <1>3, PutRight, Zenon
  <2> QED BY <2>2, <1>1, <1>3, <1>4
<1>6. /\ meant' = Overlaid(offset, Bytes(n)) /\ runner' = runner /\ runner.at = "run"
      /\ writes' = writes + 1 /\ UNCHANGED <<execution, boots>>
  BY DEF WriteAt, Write
<1>7. Len(meant) = length /\ \A i \in 1..length : meant[i] = buffer[i]
  BY <1>6 DEF Content, NoRun
<1>8. /\ meant' \in Seq(Nat) /\ Len(meant') = length'
      /\ \A i \in 1..length' :
           meant'[i] = IF i \in offset + 1 .. offset + n THEN Bytes(n)[i - offset]
                       ELSE IF i <= length THEN meant[i] ELSE 0
  <2>1. length' = IF offset + Len(Bytes(n)) > Len(meant) THEN offset + Len(Bytes(n))
                  ELSE Len(meant)
    BY <1>1, <1>2, <1>3, <1>7
  <2> QED BY <2>1, <1>3, <1>6, <1>7, OverlaidRight
<1>9. length' \in 0..Len(buffer') BY <1>1, <1>2, <1>3, <1>5
<1>10. OutputShape' BY <1>5, <1>6, <1>8, <1>9 DEF OutputShape
<1>11. Content'
  <2>1. SUFFICES ASSUME NEW i \in 1..length' PROVE meant'[i] = buffer'[i]
    BY <1>8 DEF Content
  <2>2. i \in 1..Len(b.cells) /\ i \in Nat BY <1>5, <1>9
  <2>3. CASE i \in offset + 1 .. offset + n BY <2>2, <2>3, <1>5, <1>8
  <2>4. CASE i \notin offset + 1 .. offset + n /\ i <= length
    <3>1. i \in 1..length /\ i \notin length + 1 .. offset BY <2>2, <2>4, <1>2, <1>3
    <3>2. meant'[i] = buffer[i] BY <2>4, <3>1, <1>7, <1>8
    <3>3. buffer'[i] = b.cells[i] BY <2>2, <2>4, <3>1, <1>4, <1>5
    <3> QED BY <3>1, <3>2, <3>3, <1>2
  <2>5. CASE i \notin offset + 1 .. offset + n /\ i > length
    <3>1. i \in length + 1 .. offset BY <2>2, <2>5, <1>1, <1>2, <1>3
    <3>2. meant'[i] = 0
      <4>1. ~(i <= length) BY <2>2, <2>5, <1>2
      <4> QED BY <4>1, <2>5, <1>8
    <3>3. buffer'[i] = 0 BY <2>2, <2>5, <3>1, <1>4, <1>5
    <3> QED BY <3>2, <3>3
  <2> QED BY <2>2, <2>3, <2>4, <2>5, <1>2
<1>12. BlobsRight' /\ MessagesRight' BY <1>6, BlobsKept DEF WriteAt
<1> QED BY <1>10, <1>11, <1>12

LEMMA BeginRunStep ==
  ASSUME OutputInv, BeginRun
  PROVE  OutputInv'
<1> USE DEF OutputInv, BeginRun
<1>1. OutputShape' BY EmptySeq DEF OutputShape, NoRun
<1>2. Content' BY DEF Content
<1>3. BlobsRight' BY DEF BlobsRight, OneBlobEach, OutputShape, NoRun
<1>4. MessagesRight' BY DEF MessagesRight, Piece, Pieces
<1> QED BY <1>1, <1>2, <1>3, <1>4

LEMMA RunReturnsStep ==
  ASSUME OutputInv, RunReturns
  PROVE  OutputInv'
<1> USE DEF OutputInv, RunReturns
<1>1. OutputShape' BY DEF OutputShape, NoRun
<1>2. Content' BY DEF Content, NoRun
<1>3. CASE UNCHANGED blobs /\ runner' = NoRun
  <2>1. BlobsRight' BY <1>3 DEF BlobsRight, OneBlobEach, OutputShape, NoRun
  <2>2. MessagesRight' BY <1>3 DEF MessagesRight, Piece, Pieces
  <2> QED BY <1>1, <1>2, <2>1, <2>2
<1>4. CASE /\ runner' = [at |-> "publish", chunk |-> 0]
           /\ blobs' = blobs \cup {[boot |-> boots, id |-> execution, blob |-> meant]}
  <2>1. \A b \in blobs : ~(b.boot = boots /\ b.id = execution)
    BY DEF BlobsRight, OutputShape
  <2>2. OneBlobEach' BY <1>4, <2>1 DEF BlobsRight, OneBlobEach
  <2>3. BlobsRight' BY <1>4, <2>2 DEF BlobsRight, OutputShape
  <2>4. MessagesRight' BY <1>4 DEF MessagesRight, Piece, Pieces
  <2> QED BY <1>1, <1>2, <2>3, <2>4
<1> QED BY <1>3, <1>4

\* A part of the buffer that is filled is that part of what was meant.
LEMMA PartIsMeant ==
  ASSUME OutputShape, Content, runner # NoRun,
         NEW low \in Nat \ {0}, NEW high \in Int, high <= length
  PROVE  SubSeq(buffer, low, high) = SubSeq(meant, low, high)
<1>1. buffer \in Seq(Nat) /\ meant \in Seq(Nat) /\ length \in 0..Len(buffer)
      /\ Len(meant) = length /\ \A i \in 1..length : meant[i] = buffer[i]
  BY DEF OutputShape, Content
<1>2. \A i \in 1 .. high - low + 1 : buffer[i + low - 1] = meant[i + low - 1]
  <2> SUFFICES ASSUME NEW i \in 1 .. high - low + 1
               PROVE  buffer[i + low - 1] = meant[i + low - 1]
    OBVIOUS
  <2>1. i + low - 1 \in 1..length BY <1>1
  <2> QED BY <1>1, <2>1
<1> QED BY <1>1, <1>2

LEMMA PublishStep ==
  ASSUME OutputInv, PublishChunk
  PROVE  OutputInv'
<1> USE DEF OutputInv
<1> DEFINE blob == [boot |-> boots, id |-> execution, blob |-> meant]
           m == Chunk(runner.chunk)
<1>1. /\ runner.at = "publish" /\ blob \in blobs /\ runner # NoRun /\ runner.chunk \in Nat
      /\ Len(meant) = length
  BY DEF PublishChunk, BlobsRight, NoRun, OutputShape, Content
<1>2. OutputShape' BY <1>1 DEF PublishChunk, NextChunk, OutputShape, NoRun
<1>3. Content' BY <1>1 DEF PublishChunk, Content
<1>4. BlobsRight'
  BY <1>1 DEF PublishChunk, NextChunk, BlobsRight, OneBlobEach, NoRun
<1>5. m.boot = blob.boot /\ m.id = blob.id /\ m.index = runner.chunk
  BY DEF Chunk
<1>6. m.count = Pieces(blob.blob) BY <1>1 DEF Chunk, ChunkCount, Pieces
<1>7. m.data = Piece(blob.blob, m.index)
  <2> DEFINE end == (runner.chunk + 1) * ChunkSize
             low == runner.chunk * ChunkSize + 1
             high == IF end > length THEN length ELSE end
  <2>1. low \in Nat \ {0} /\ end \in Nat BY <1>1, OutputAssumption
  <2>2. high \in Int /\ high <= length BY <2>1 DEF OutputShape
  <2>3. m.data = SubSeq(buffer, low, high) BY DEF Chunk
  <2>4. Piece(blob.blob, m.index) = SubSeq(meant, low, high) BY <1>1, <1>5 DEF Piece
  <2> HIDE DEF low, high
  <2> QED BY <1>1, <2>1, <2>2, <2>3, <2>4, PartIsMeant
<1> HIDE DEF m, blob
<1>8. messages' \subseteq messages \cup {m} /\ blobs' = blobs BY DEF PublishChunk, m
<1>9. MessagesRight'
  BY <1>1, <1>5, <1>6, <1>7, <1>8 DEF MessagesRight, Piece, Pieces
<1> QED BY <1>2, <1>3, <1>4, <1>9

\* A run that fails, a session that is lost, a reset.
LEMMA EndStep ==
  ASSUME OutputInv, RunFails \/ StopPublishing \/ ResetOutput
  PROVE  OutputInv'
<1> USE DEF OutputInv, RunFails, StopPublishing, ResetOutput
<1>1. <<>> \in Seq(Nat) /\ Len(<<>>) = 0 OBVIOUS
<1>2. OutputShape' /\ Content'
  <2>1. CASE RunFails \/ StopPublishing BY <2>1 DEF OutputShape, Content, NoRun
  <2>2. CASE ResetOutput BY <1>1, <2>2 DEF OutputShape, Content, NoRun, NoBuffer
  <2> QED BY <2>1, <2>2
<1>3. BlobsRight'
  <2>1. CASE RunFails \/ StopPublishing
    BY <2>1 DEF BlobsRight, OneBlobEach, OutputShape, NoRun
  <2>2. CASE ResetOutput
    BY <2>2 DEF BlobsRight, OneBlobEach, OutputShape, NoRun
  <2> QED BY <2>1, <2>2
<1>4. MessagesRight' BY DEF MessagesRight, Piece, Pieces
<1> QED BY <1>2, <1>3, <1>4

LEMMA OutputStep == OutputInv /\ [OutputNext]_outputVars => OutputInv'
<1> SUFFICES ASSUME OutputInv, [OutputNext]_outputVars PROVE OutputInv'
  OBVIOUS
<1>1. CASE BeginRun BY <1>1, BeginRunStep
<1>2. CASE RunReturns BY <1>2, RunReturnsStep
<1>3. CASE PublishChunk BY <1>3, PublishStep
<1>4. CASE RunFails \/ StopPublishing \/ ResetOutput BY <1>4, EndStep
<1>5. ASSUME NEW capacity \in 1..BufferSize, InitBuffer(capacity) PROVE OutputInv'
  BY <1>5, InitBufferStep
<1>6. ASSUME NEW n \in 1..MaxWriteSize, AppendBytes(n) PROVE OutputInv'
  BY <1>6, AppendStep
<1>7. ASSUME NEW n \in 1..MaxWriteSize, NEW offset \in 0..BufferSize - 1, WriteAt(offset, n)
      PROVE OutputInv'
  BY <1>7, WriteAtStep
<1>8. CASE UNCHANGED outputVars
  BY <1>8 DEF outputVars, OutputInv, OutputShape, Content, BlobsRight, OneBlobEach,
              MessagesRight, Piece, Pieces
<1> QED BY <1>1, <1>2, <1>3, <1>4, <1>5, <1>6, <1>7, <1>8 DEF OutputNext

\* What is published in the name of a run is what that run wrote: for buffers,
\* chunks and writes of any size, and any number of runs, failures, lost chunks
\* and resets.
THEOREM BlobIsOfItsRunHolds == OutputSpec => []BlobIsOfItsRun
<1>1. OutputInv => BlobIsOfItsRun
  <2> SUFFICES ASSUME OutputInv PROVE BlobIsOfItsRun OBVIOUS
  <2>1. ContentIsMeant
    <3> SUFFICES ASSUME runner # NoRun PROVE SubSeq(buffer, 1, length) = meant
      BY DEF ContentIsMeant
    <3>1. SubSeq(buffer, 1, length) = SubSeq(meant, 1, length)
      <4>1. length \in Int /\ length <= length /\ 1 \in Nat \ {0}
        BY DEF OutputInv, OutputShape
      <4> QED BY <4>1, PartIsMeant DEF OutputInv
    <3>2. meant \in Seq(Nat) /\ Len(meant) = length
      BY DEF OutputInv, OutputShape, Content
    <3> QED BY <3>1, <3>2
  <2> QED BY <2>1 DEF OutputInv, BlobsRight, MessagesRight, BlobIsOfItsRun
<1> QED BY <1>1, OutputInitRight, OutputStep, PTL DEF OutputSpec

\* ------------------------------------------------------- types of the buffer
InRange(s) == \A i \in 1..Len(s) : s[i] \in 0 .. MaxWrites + 1

OutputBounds ==
  /\ Len(buffer) <= BufferSize /\ InRange(buffer) /\ InRange(meant)
  /\ execution <= MaxExecutions /\ boots <= MaxBoots /\ writes <= MaxWrites
  /\ \/ runner.at = "publish" /\ runner.chunk < ChunkCount
     \/ runner.at # "publish" /\ runner.chunk = 0

PublishedBounds ==
  /\ \A b \in blobs : b.blob \in Blob
  /\ \A m \in messages : m.data \in Blob /\ Len(m.data) \in 1..ChunkSize

LEMMA InBlob ==
  ASSUME NEW s \in Seq(Nat), InRange(s)
  PROVE  s \in Blob
<1>1. s = [i \in 1..Len(s) |-> s[i]] /\ Len(s) \in Nat OBVIOUS
<1>2. \A i \in 1..Len(s) : s[i] \in 0 .. MaxWrites + 1 BY DEF InRange
<1>3. s \in [1..Len(s) -> 0 .. MaxWrites + 1] BY <1>1, <1>2, Zenon
<1> DEFINE Byte == 0 .. MaxWrites + 1
<1>4. Seq(Byte) = UNION {[1..n -> Byte] : n \in Nat} BY SeqDef
<1> HIDE DEF Byte
<1>5. s \in [1..Len(s) -> Byte] BY <1>3 DEF Byte
<1>6. s \in UNION {[1..n -> Byte] : n \in Nat} BY <1>1, <1>5, Zenon
<1> QED BY <1>4, <1>6 DEF Blob, Byte

\* A chunk that is next begins within what was written.
LEMMA ChunkWithin ==
  ASSUME OutputShape, NEW chunk \in Nat, chunk < ChunkCount
  PROVE  chunk * ChunkSize < length /\ chunk < length
<1> DEFINE count == ChunkCount
<1>1. length \in Nat /\ ChunkSize \in Nat /\ ChunkSize >= 1
  BY OutputAssumption DEF OutputShape
<1>2. count \in Int /\ count * ChunkSize <= length + ChunkSize - 1
  BY <1>1 DEF ChunkCount
<1> HIDE DEF count
<1>3. chunk + 1 <= count BY <1>2 DEF count
<1>4. (chunk + 1) * ChunkSize <= count * ChunkSize BY <1>1, <1>2, <1>3
<1>5. (chunk + 1) * ChunkSize = chunk * ChunkSize + ChunkSize BY <1>1
<1>6. chunk * ChunkSize \in Nat /\ count * ChunkSize \in Int BY <1>1, <1>2
<1>7. chunk * ChunkSize < length BY <1>1, <1>2, <1>4, <1>5, <1>6
<1>8. chunk <= chunk * ChunkSize BY <1>1
<1> QED BY <1>1, <1>6, <1>7, <1>8

LEMMA OneChunkAtLeast ==
  ASSUME OutputShape, length > 0
  PROVE  ChunkCount > 0
<1>1. length \in Nat /\ ChunkSize \in Nat /\ ChunkSize >= 1
  BY OutputAssumption DEF OutputShape
<1> QED BY <1>1 DEF ChunkCount

LEMMA BufferFoundInRange ==
  ASSUME OutputShape, OutputBounds, NEW capacity \in 1..BufferSize, NEW b \in Ensured(capacity)
  PROVE  Len(b.cells) <= BufferSize /\ InRange(b.cells)
<1>1. CASE Len(buffer) = capacity
  BY <1>1 DEF Ensured, OutputBounds
<1>2. CASE Len(buffer) # capacity
  <2>1. b.cells = Allocated(capacity) BY <1>2 DEF Ensured
  <2>2. capacity \in Nat /\ capacity <= BufferSize /\ MaxWrites \in Nat BY OutputAssumption
  <2> QED BY <2>1, <2>2 DEF Allocated, Unwritten, InRange
<1> QED BY <1>1, <1>2

LEMMA BufferForWriteInRange ==
  ASSUME OutputShape, OutputBounds, NEW b \in ForWrite
  PROVE  Len(b.cells) <= BufferSize /\ InRange(b.cells)
<1>1. CASE buffer = NoBuffer
  <2>1. b \in Ensured(BufferSize) /\ BufferSize \in 1..BufferSize
    BY <1>1, OutputAssumption DEF ForWrite
  <2> QED BY <2>1, BufferFoundInRange
<1>2. CASE buffer # NoBuffer BY <1>2 DEF ForWrite, OutputBounds
<1> QED BY <1>1, <1>2

LEMMA BytesInRange ==
  ASSUME OutputShape, writes < MaxWrites, NEW n \in Nat
  PROVE  /\ Bytes(n) \in Seq(Nat) /\ Len(Bytes(n)) = n
         /\ \A i \in 1..n : Bytes(n)[i] \in 0 .. MaxWrites + 1
<1>1. writes + 1 \in 0 .. MaxWrites + 1 BY OutputAssumption DEF OutputShape
<1> QED BY <1>1, BytesRight DEF Bytes

\* Copying bytes that are in range into a buffer that is.
LEMMA PutInRange ==
  ASSUME NEW cells \in Seq(Nat), InRange(cells), NEW offset \in Nat,
         NEW data \in Seq(Nat), InRange(data), offset + Len(data) <= Len(cells)
  PROVE  Len(Put(cells, offset, data)) = Len(cells) /\ InRange(Put(cells, offset, data))
<1> DEFINE put == Put(cells, offset, data)
<1>1. Len(put) = Len(cells)
      /\ \A i \in 1..Len(cells) : put[i] = IF i \in offset + 1 .. offset + Len(data)
                                           THEN data[i - offset] ELSE cells[i]
  BY PutRight
<1> HIDE DEF put
<1>2. ASSUME NEW i \in 1..Len(cells) PROVE put[i] \in 0 .. MaxWrites + 1
  <2>1. CASE i \in offset + 1 .. offset + Len(data)
    <3>1. i - offset \in 1..Len(data) BY <2>1
    <3> QED BY <1>1, <2>1, <3>1 DEF InRange
  <2>2. CASE i \notin offset + 1 .. offset + Len(data) BY <1>1, <2>2 DEF InRange
  <2> QED BY <2>1, <2>2
<1>3. InRange(put) BY <1>1, <1>2 DEF InRange
<1> QED BY <1>1, <1>3 DEF put

LEMMA AppendBounds ==
  ASSUME OutputInv, OutputBounds, NEW n \in 1..MaxWriteSize, AppendBytes(n)
  PROVE  Len(buffer') <= BufferSize /\ InRange(buffer') /\ InRange(meant')
<1>1. PICK b \in ForWrite : /\ n <= Len(b.cells) - b.length
                            /\ buffer' = Put(b.cells, b.length, Bytes(n))
  BY DEF AppendBytes
<1>2. /\ b.cells \in Seq(Nat) /\ b.length \in 0..Len(b.cells)
      /\ Len(b.cells) <= BufferSize /\ InRange(b.cells)
  BY BufferForWrite, BufferForWriteInRange DEF OutputInv
<1>3. n \in Nat /\ Bytes(n) \in Seq(Nat) /\ Len(Bytes(n)) = n /\ InRange(Bytes(n))
  BY BytesInRange, OutputAssumption DEF InRange, AppendBytes, Write, OutputInv
<1>4. b.length + Len(Bytes(n)) <= Len(b.cells) /\ b.length \in Nat BY <1>1, <1>2, <1>3
<1>5. Len(buffer') = Len(b.cells) /\ InRange(buffer')
  BY <1>1, <1>2, <1>3, <1>4, PutInRange
<1>6. InRange(meant')
  <2>1. meant \in Seq(Nat) /\ InRange(meant) BY DEF OutputInv, OutputShape, OutputBounds
  <2>2. meant' = meant \o Bytes(n) BY DEF AppendBytes
  <2>3. Len(meant') = Len(meant) + Len(Bytes(n))
        /\ \A i \in 1..Len(meant') : meant'[i] = IF i <= Len(meant) THEN meant[i]
                                                 ELSE Bytes(n)[i - Len(meant)]
    BY <1>3, <2>1, <2>2, ConcatProperties
  <2>4. SUFFICES ASSUME NEW i \in 1..Len(meant') PROVE meant'[i] \in 0 .. MaxWrites + 1
    BY DEF InRange
  <2>5. CASE i <= Len(meant) BY <2>1, <2>3, <2>5 DEF InRange
  <2>6. CASE ~(i <= Len(meant))
    <3>1. i - Len(meant) \in 1..Len(Bytes(n)) BY <1>3, <2>1, <2>3, <2>6
    <3> QED BY <1>3, <2>3, <2>6, <3>1 DEF InRange
  <2> QED BY <2>5, <2>6
<1> QED BY <1>2, <1>5, <1>6

LEMMA WriteAtBounds ==
  ASSUME OutputInv, OutputBounds, NEW n \in 1..MaxWriteSize,
         NEW offset \in 0..BufferSize - 1, WriteAt(offset, n)
  PROVE  Len(buffer') <= BufferSize /\ InRange(buffer') /\ InRange(meant')
<1>1. PICK b \in ForWrite : /\ n <= Len(b.cells) - offset
                            /\ buffer' = Put(ZeroFilled(b, offset), offset, Bytes(n))
  BY DEF WriteAt
<1>2. b.cells \in Seq(Nat) /\ Len(b.cells) <= BufferSize /\ InRange(b.cells)
  BY BufferForWrite, BufferForWriteInRange DEF OutputInv
<1>3. n \in Nat /\ Bytes(n) \in Seq(Nat) /\ Len(Bytes(n)) = n /\ InRange(Bytes(n))
  BY BytesInRange, OutputAssumption DEF InRange, WriteAt, Write, OutputInv
<1>4. offset \in Nat /\ 0 \in 0 .. MaxWrites + 1 BY OutputAssumption
<1> DEFINE filled == ZeroFilled(b, offset)
<1>5. /\ filled \in Seq(Nat) /\ Len(filled) = Len(b.cells)
      /\ \A i \in 1..Len(b.cells) :
           filled[i] = IF i \in b.length + 1 .. offset THEN 0 ELSE b.cells[i]
  BY <1>2, <1>4, ZeroFilledRight
<1> HIDE DEF filled
<1>6. InRange(filled) BY <1>2, <1>4, <1>5 DEF InRange
<1>7. offset + Len(Bytes(n)) <= Len(filled) BY <1>1, <1>2, <1>3, <1>4, <1>5
<1>8. buffer' = Put(filled, offset, Bytes(n)) BY <1>1 DEF filled
<1>9. Len(buffer') = Len(filled) /\ InRange(buffer')
  BY <1>3, <1>4, <1>5, <1>6, <1>7, <1>8, PutInRange
<1>10. InRange(meant')
  <2>1. meant \in Seq(Nat) /\ InRange(meant) BY DEF OutputInv, OutputShape, OutputBounds
  <2> DEFINE end == IF offset + Len(Bytes(n)) > Len(meant) THEN offset + Len(Bytes(n))
                    ELSE Len(meant)
  <2>2. meant' = Overlaid(offset, Bytes(n)) BY DEF WriteAt
  <2>3. /\ Len(meant') = end
        /\ \A i \in 1..end :
             meant'[i] = IF i \in offset + 1 .. offset + Len(Bytes(n))
                         THEN Bytes(n)[i - offset]
                         ELSE IF i <= Len(meant) THEN meant[i] ELSE 0
    BY <1>3, <1>4, <2>2, OverlaidRight DEF OutputInv
  <2>4. end \in Nat BY <1>3, <1>4, <2>1
  <2> HIDE DEF end
  <2>5. SUFFICES ASSUME NEW i \in 1..end PROVE meant'[i] \in 0 .. MaxWrites + 1
    BY <2>3 DEF InRange
  <2>6. CASE i \in offset + 1 .. offset + Len(Bytes(n))
    <3>1. i - offset \in 1..Len(Bytes(n)) BY <1>3, <1>4, <2>6
    <3> QED BY <1>3, <2>3, <2>6, <3>1 DEF InRange
  <2>7. CASE i \notin offset + 1 .. offset + Len(Bytes(n)) /\ i <= Len(meant)
    <3>1. i \in 1..Len(meant) BY <2>1, <2>4, <2>7
    <3> QED BY <2>1, <2>3, <2>7, <3>1 DEF InRange
  <2>8. CASE i \notin offset + 1 .. offset + Len(Bytes(n)) /\ ~(i <= Len(meant))
    BY <1>4, <2>3, <2>8
  <2> QED BY <2>6, <2>7, <2>8
<1> QED BY <1>2, <1>5, <1>9, <1>10

\* What a chunk holds: at least a byte, at most ChunkSize, all in range.
LEMMA ChunkInRange ==
  ASSUME OutputInv, OutputBounds, PublishChunk
  PROVE  LET data == Chunk(runner.chunk).data
         IN data \in Blob /\ Len(data) \in 1..ChunkSize
<1> DEFINE low == runner.chunk * ChunkSize
           end == (runner.chunk + 1) * ChunkSize
           high == IF end > length THEN length ELSE end
           data == SubSeq(buffer, low + 1, high)
<1>1. runner.chunk \in Nat /\ runner.chunk < ChunkCount /\ OutputShape
  BY DEF PublishChunk, OutputInv, OutputShape, OutputBounds
<1>2. low < length BY <1>1, ChunkWithin
<1>3. ChunkSize \in Nat /\ ChunkSize >= 1 BY OutputAssumption
<1>4. low \in Nat /\ end = low + ChunkSize BY <1>1, <1>3
<1>5. buffer \in Seq(Nat) /\ length \in 0..Len(buffer) /\ InRange(buffer)
  BY DEF OutputInv, OutputShape, OutputBounds
<1>6. Chunk(runner.chunk).data = data BY DEF Chunk
<1> HIDE DEF low, end
<1>7. high \in low + 1 .. Len(buffer) /\ high - low \in 1..ChunkSize
  BY <1>2, <1>3, <1>4, <1>5
<1> HIDE DEF high
<1>8. /\ data \in Seq(Nat) /\ Len(data) = high - low
      /\ \A i \in 1 .. high - low : data[i] = buffer[low + i]
  BY <1>4, <1>5, <1>7
<1>9. InRange(data)
  <2> SUFFICES ASSUME NEW i \in 1 .. high - low PROVE data[i] \in 0 .. MaxWrites + 1
    BY <1>8 DEF InRange
  <2>1. low + i \in 1..Len(buffer) BY <1>4, <1>5, <1>7
  <2> QED BY <1>5, <1>8, <2>1 DEF InRange
<1>10. data \in Blob BY <1>8, <1>9, InBlob
<1> QED BY <1>6, <1>7, <1>8, <1>10

LEMMA OutputBoundsInit == OutputInit => OutputBounds /\ PublishedBounds
BY OutputAssumption DEF OutputInit, OutputBounds, PublishedBounds, InRange, NoBuffer, NoRun

LEMMA OutputBoundsStep ==
  ASSUME OutputInv, OutputBounds, PublishedBounds, [OutputNext]_outputVars
  PROVE  OutputBounds' /\ PublishedBounds'
<1>0. <<>> \in Seq(Nat) /\ Len(<<>>) = 0 /\ BufferSize >= 0 BY OutputAssumption
<1>1. CASE BeginRun
  <2>1. execution' <= MaxExecutions
    BY <1>1, OutputAssumption DEF BeginRun, OutputInv, OutputShape
  <2>2. InRange(meant') BY <1>1 DEF BeginRun, InRange
  <2>3. runner'.at # "publish" /\ runner'.chunk = 0 BY <1>1 DEF BeginRun, NoRun
  <2>4. Len(buffer') <= BufferSize /\ InRange(buffer') /\ boots' <= MaxBoots
        /\ writes' <= MaxWrites
    BY <1>1 DEF BeginRun, OutputBounds, InRange
  <2>5. OutputBounds' BY <2>1, <2>2, <2>3, <2>4 DEF OutputBounds, InRange
  <2>6. PublishedBounds' BY <1>1 DEF BeginRun, PublishedBounds, Blob
  <2> QED BY <2>5, <2>6
<1>2. CASE RunFails \/ StopPublishing
  <2>1. OutputBounds' BY <1>2 DEF RunFails, StopPublishing, OutputBounds, InRange, NoRun
  <2>2. PublishedBounds' BY <1>2 DEF RunFails, StopPublishing, PublishedBounds, Blob
  <2> QED BY <2>1, <2>2
<1>3. CASE RunReturns
  <2>1. Len(buffer') <= BufferSize /\ InRange(buffer') /\ InRange(meant')
        /\ execution' <= MaxExecutions /\ boots' <= MaxBoots /\ writes' <= MaxWrites
    BY <1>3 DEF RunReturns, OutputBounds, InRange
  <2>2. ChunkCount' = ChunkCount BY <1>3 DEF RunReturns, ChunkCount
  <2>3. \/ runner'.at = "publish" /\ runner'.chunk < ChunkCount'
        \/ runner'.at # "publish" /\ runner'.chunk = 0
    <3>1. CASE runner' = NoRun BY <3>1 DEF NoRun
    <3>2. CASE length > 0 /\ runner' = [at |-> "publish", chunk |-> 0]
      BY <2>2, <3>2, OneChunkAtLeast DEF OutputInv
    <3> QED BY <1>3, <3>1, <3>2 DEF RunReturns
  <2>4. OutputBounds' BY <2>1, <2>3 DEF OutputBounds, InRange
  <2>5. meant \in Blob BY InBlob DEF OutputInv, OutputShape, OutputBounds
  <2>6. PublishedBounds'
    BY <1>3, <2>5 DEF RunReturns, PublishedBounds, Blob
  <2> QED BY <2>4, <2>6
<1>4. CASE PublishChunk
  <2> DEFINE data == Chunk(runner.chunk).data
  <2>1. data \in Blob /\ Len(data) \in 1..ChunkSize BY <1>4, ChunkInRange
  <2> HIDE DEF data
  <2>2. messages' \subseteq messages \cup {Chunk(runner.chunk)} /\ blobs' = blobs
    BY <1>4 DEF PublishChunk
  <2>3. PublishedBounds' BY <2>1, <2>2 DEF PublishedBounds, Blob, data
  <2>4. Len(buffer') <= BufferSize /\ InRange(buffer') /\ InRange(meant')
        /\ execution' <= MaxExecutions /\ boots' <= MaxBoots /\ writes' <= MaxWrites
    BY <1>4 DEF PublishChunk, OutputBounds, InRange
  <2>5. ChunkCount' = ChunkCount BY <1>4 DEF PublishChunk, ChunkCount
  <2>6. runner \in [at : {"idle", "run", "publish"}, chunk : Nat]
        /\ runner.at = "publish" /\ runner.chunk < ChunkCount
    BY <1>4 DEF PublishChunk, OutputInv, OutputShape, OutputBounds
  <2>7. ChunkCount \in Int
    <3>1. length \in Nat /\ ChunkSize \in Nat \ {0} BY OutputAssumption DEF OutputInv, OutputShape
    <3> QED BY <3>1 DEF ChunkCount
  <2>8. \/ runner'.at = "publish" /\ runner'.chunk < ChunkCount'
        \/ runner'.at # "publish" /\ runner'.chunk = 0
    <3>1. CASE runner.chunk + 1 = ChunkCount BY <1>4, <3>1 DEF PublishChunk, NextChunk, NoRun
    <3>2. CASE runner.chunk + 1 # ChunkCount
      <4>1. runner' = [runner EXCEPT !.chunk = @ + 1]
        BY <1>4, <3>2 DEF PublishChunk, NextChunk
      <4>2. runner'.at = "publish" /\ runner'.chunk = runner.chunk + 1 BY <4>1, <2>6
      <4> QED BY <2>5, <2>6, <2>7, <3>2, <4>2
    <3> QED BY <3>1, <3>2
  <2>9. OutputBounds' BY <2>4, <2>8 DEF OutputBounds, InRange
  <2> QED BY <2>3, <2>9
<1>5. CASE ResetOutput
  <2>1. OutputBounds'
    BY <1>0, <1>5, OutputAssumption
    DEF ResetOutput, OutputBounds, OutputInv, OutputShape, InRange, NoRun, NoBuffer
  <2>2. PublishedBounds' BY <1>5 DEF ResetOutput, PublishedBounds, Blob
  <2> QED BY <2>1, <2>2
<1>6. ASSUME NEW capacity \in 1..BufferSize, InitBuffer(capacity)
      PROVE  OutputBounds' /\ PublishedBounds'
  <2>1. PICK b \in Ensured(capacity) : buffer' = b.cells BY <1>6 DEF InitBuffer
  <2>2. Len(buffer') <= BufferSize /\ InRange(buffer')
    BY <2>1, BufferFoundInRange DEF OutputInv
  <2>3. meant' = <<>> /\ runner' = runner /\ runner.at = "run"
        /\ UNCHANGED <<execution, boots, writes, blobs, messages>>
    BY <1>6 DEF InitBuffer
  <2>4. OutputBounds' BY <2>2, <2>3, <1>0 DEF OutputBounds, InRange
  <2>5. PublishedBounds' BY <2>3 DEF PublishedBounds, Blob
  <2> QED BY <2>4, <2>5
<1>7. ASSUME Write, runner' = runner, UNCHANGED <<execution, boots, blobs, messages>>,
             Len(buffer') <= BufferSize, InRange(buffer'), InRange(meant')
      PROVE  OutputBounds' /\ PublishedBounds'
  <2>1. writes' <= MaxWrites BY <1>7, OutputAssumption DEF Write, OutputInv, OutputShape
  <2>2. OutputBounds' BY <1>7, <2>1 DEF Write, OutputBounds, InRange
  <2>3. PublishedBounds' BY <1>7 DEF PublishedBounds, Blob
  <2> QED BY <2>2, <2>3
<1>8. ASSUME NEW n \in 1..MaxWriteSize, AppendBytes(n)
      PROVE  OutputBounds' /\ PublishedBounds'
  BY <1>7, <1>8, AppendBounds DEF AppendBytes
<1>9. ASSUME NEW n \in 1..MaxWriteSize, NEW offset \in 0..BufferSize - 1, WriteAt(offset, n)
      PROVE  OutputBounds' /\ PublishedBounds'
  BY <1>7, <1>9, WriteAtBounds DEF WriteAt
<1>10. CASE UNCHANGED outputVars
  BY <1>10 DEF outputVars, OutputBounds, PublishedBounds, InRange, Blob, ChunkCount
<1> QED
  BY <1>1, <1>2, <1>3, <1>4, <1>5, <1>6, <1>8, <1>9, <1>10 DEF OutputNext

\* Every variable of the buffer keeps its type: a chunk has a byte at least and
\* ChunkSize at most, and none is cut from what lies behind the end.
THEOREM OutputTypeCorrect == OutputSpec => []OutputTypeOK
<1>1. OutputInv /\ OutputBounds /\ PublishedBounds => OutputTypeOK
  <2> SUFFICES ASSUME OutputInv, OutputBounds, PublishedBounds PROVE OutputTypeOK
    OBVIOUS
  <2>1. buffer \in Blob /\ meant \in Blob BY InBlob DEF OutputInv, OutputShape, OutputBounds
  <2>2. runner \in [at : {"idle", "run", "publish"}, chunk : 0..BufferSize]
    <3>1. runner \in [at : {"idle", "run", "publish"}, chunk : Nat]
          /\ length \in 0..Len(buffer) /\ Len(buffer) \in Nat /\ Len(buffer) <= BufferSize
      BY DEF OutputInv, OutputShape, OutputBounds
    <3>2. runner.chunk = 0 \/ runner.chunk < length
      BY <3>1, ChunkWithin DEF OutputInv, OutputBounds
    <3>3. runner.chunk \in 0..BufferSize BY <3>1, <3>2, OutputAssumption
    <3> QED BY <3>1, <3>3
  <2> QED
    BY <2>1, <2>2, OutputAssumption
    DEF OutputInv, OutputShape, OutputBounds, PublishedBounds, OutputTypeOK
<1>2. OutputInit => OutputInv /\ OutputBounds /\ PublishedBounds
  BY OutputInitRight, OutputBoundsInit
<1>3. OutputInv /\ OutputBounds /\ PublishedBounds /\ [OutputNext]_outputVars
      => (OutputInv /\ OutputBounds /\ PublishedBounds)'
  BY OutputStep, OutputBoundsStep
<1> QED BY <1>1, <1>2, <1>3, PTL DEF OutputSpec
===============================================================================
