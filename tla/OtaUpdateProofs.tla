--------------------------- MODULE OtaUpdateProofs ---------------------------
(***************************************************************************)
(* The theorems about OTA updates, for any number of requests, repeated    *)
(* commands, lost sessions and resets and whatever NVS and publishes do:   *)
(* the types, SucceededWasInstalled and PendingIsUnderWay.  They rest on   *)
(* the inductive invariant Inv, which adds to them where the two tasks     *)
(* are when an image is installed or a request is pending.                 *)
(*                                                                         *)
(* The last two are about boards without repeated commands, resets and NVS *)
(* failures.  FailedNotInstalled extends Inv by where requests wait, and   *)
(* ResultKeptUntilReported, of users who ask for one update at a time, by  *)
(* what was told of the requests that are no longer under way.             *)
(***************************************************************************)
EXTENDS OtaUpdate, SequenceTheorems, TLAPS

\* ------------------------------------------------------ the inductive invariant

\* A task that works on a request names it.
TasksNameRequests ==
  /\ mqttTask.at \in MqttSteps \ {"idle", "publish"} => mqttTask.request \in Requests
  /\ otaTask.at # "idle" => otaTask.request \in Requests

\* ota_task records a success only for an image it has installed.
SavesWhatIsInstalled ==
  otaTask.at = "saveSucceeded" => otaTask.request \in installed

\* With NVS working, a pending record is its own update's: the request waits in the
\* queue, or is about to, or ota_task has not got as far as to record its result.
PendingAdvances ==
  ~NvsMayFail /\ record.state = "pending" =>
    \/ record.request \in {queue[i] : i \in DOMAIN queue}
    \/ /\ otaTask.request = record.request
       /\ otaTask.at \in {"announce", "download", "saveSucceeded", "saveFailed"}
    \/ mqttTask = At("enqueue", record.request)

Inv ==
  /\ TypeOK
  /\ TasksNameRequests
  /\ SavesWhatIsInstalled
  /\ SucceededWasInstalled
  /\ PendingAdvances

-----------------------------------------------------------------------------
\* Counting faults, publishing.

Losses == [redeliveries : 0..MaxRedeliveries, disconnects : 0..MaxDisconnects,
           crashes : 0..MaxCrashes]

\* A fault that is counted within its bound keeps the counters in theirs.
LEMMA LoseCounts ==
  ASSUME losses \in Losses,
         \/ losses.redeliveries < MaxRedeliveries /\ Lose("redeliveries")
         \/ losses.disconnects < MaxDisconnects /\ Lose("disconnects")
         \/ losses.crashes < MaxCrashes /\ Lose("crashes")
  PROVE  losses' \in Losses
<1> USE OtaAssumption DEF Losses, Lose
<1>1. CASE losses.redeliveries < MaxRedeliveries /\ Lose("redeliveries")
  <2>1. losses.redeliveries + 1 \in 0..MaxRedeliveries
    BY <1>1
  <2> QED
    BY <1>1, <2>1
<1>2. CASE losses.disconnects < MaxDisconnects /\ Lose("disconnects")
  <2>1. losses.disconnects + 1 \in 0..MaxDisconnects
    BY <1>2
  <2> QED
    BY <1>2, <2>1
<1>3. CASE losses.crashes < MaxCrashes /\ Lose("crashes")
  <2>1. losses.crashes + 1 \in 0..MaxCrashes
    BY <1>3
  <2> QED
    BY <1>3, <2>1
<1> QED
  BY <1>1, <1>2, <1>3

\* A report that is published is the only thing that is new in the outbox.
LEMMA PublishAdds ==
  ASSUME NEW r \in Requests, NEW status \in Statuses, NEW works,
         outbox \in Seq(Requests \X Statuses), Publish(r, status, works)
  PROVE  /\ outbox' \in Seq(Requests \X Statuses)
         /\ Sent' \subseteq Sent \cup {<<r, status>>}
<1>1. <<r, status>> \in Requests \X Statuses
  OBVIOUS
<1>2. CASE outbox' = Append(outbox, <<r, status>>)
  BY <1>1, <1>2 DEF Sent
<1>3. CASE outbox' = outbox
  BY <1>3 DEF Sent
<1> QED
  BY <1>2, <1>3 DEF Publish

\* What any report but a success does to the claims about reports: nothing.
LEMMA PublishOther ==
  ASSUME NEW r \in Requests, NEW status \in Statuses \ {"succeeded"}, NEW works,
         TypeOK, SucceededWasInstalled, Publish(r, status, works),
         reported' = reported, installed \subseteq installed'
  PROVE  /\ outbox' \in Seq(Requests \X Statuses)
         /\ \A q \in Requests :
              <<q, "succeeded">> \in reported' \cup Sent' => q \in installed'
<1>1. /\ outbox' \in Seq(Requests \X Statuses)
      /\ Sent' \subseteq Sent \cup {<<r, status>>}
  BY PublishAdds DEF TypeOK
<1>2. \A q : <<q, "succeeded">> # <<r, status>>
  OBVIOUS
<1> QED
  BY <1>1, <1>2 DEF SucceededWasInstalled

\* publish_saved_ota_result, as either task runs it.
LEMMA PublishSavedKeeps ==
  ASSUME NEW works, TypeOK, SucceededWasInstalled, record.state \in Final,
         Publish(record.request, record.state, works),
         UNCHANGED <<reported, installed>>
  PROVE  /\ outbox' \in Seq(Requests \X Statuses)
         /\ \A q \in Requests :
              <<q, "succeeded">> \in reported' \cup Sent' => q \in installed'
<1>1. record.request \in Requests /\ record.state \in Statuses
  BY DEF TypeOK, NoRecord, Final, Statuses
<1>2. /\ outbox' \in Seq(Requests \X Statuses)
      /\ Sent' \subseteq Sent \cup {<<record.request, record.state>>}
  BY <1>1, PublishAdds DEF TypeOK
<1>3. ASSUME NEW q \in Requests, <<q, "succeeded">> = <<record.request, record.state>>
      PROVE  q \in installed
  BY <1>3 DEF SucceededWasInstalled
<1> QED
  BY <1>2, <1>3 DEF SucceededWasInstalled

-----------------------------------------------------------------------------
\* The steps.

\* Nothing is recorded, queued or reported at the start.
LEMMA InvInit == Init => Inv
<1> SUFFICES ASSUME Init PROVE Inv
  OBVIOUS
<1>1. TypeOK
  <2>1. queue \in Seq(Requests) /\ Len(queue) <= QueueDepth /\ outbox \in Seq(Requests \X Statuses)
    BY EmptySeq DEF Init, QueueDepth
  <2>2. losses \in Losses
    BY OtaAssumption DEF Init, Losses
  <2> QED
    BY <2>1, <2>2 DEF Init, TypeOK, Losses, Idle, At, MqttSteps, OtaSteps
<1>2. TasksNameRequests /\ SavesWhatIsInstalled /\ SucceededWasInstalled /\ PendingAdvances
  BY DEF Init, TasksNameRequests, SavesWhatIsInstalled, SucceededWasInstalled, Sent,
         PendingAdvances, Idle, At, NoRecord
<1> QED
  BY <1>1, <1>2 DEF Inv

\* Users, the broker and the link.
LEMMA OutsideKeeps ==
  ASSUME Inv,
         \/ \E r \in Requests : Request(r)
         \/ Acknowledge \/ Connect \/ Disconnect
  PROVE  Inv'
<1> USE DEF Inv
<1>1. ASSUME NEW r \in Requests, Request(r) PROVE Inv'
  BY <1>1 DEF Request, TypeOK, TasksNameRequests, SavesWhatIsInstalled,
              SucceededWasInstalled, Sent, PendingAdvances
<1>2. CASE Acknowledge
  <2>1. Head(outbox) \in Requests \X Statuses /\ Tail(outbox) \in Seq(Requests \X Statuses)
    BY <1>2 DEF Acknowledge, TypeOK
  <2>2. reported' \cup Sent' \subseteq reported \cup Sent
    <3>1. Head(outbox) \in Sent
      BY <1>2 DEF Acknowledge, TypeOK, Sent
    <3>2. Sent' \subseteq Sent
      BY <1>2 DEF Acknowledge, TypeOK, Sent
    <3> QED
      BY <1>2, <3>1, <3>2 DEF Acknowledge
  <2>3. TypeOK'
    BY <1>2, <2>1 DEF Acknowledge, TypeOK
  <2>4. SucceededWasInstalled'
    BY <1>2, <2>2 DEF Acknowledge, SucceededWasInstalled
  <2> QED
    BY <1>2, <2>3, <2>4 DEF Acknowledge, TasksNameRequests, SavesWhatIsInstalled,
                            PendingAdvances
<1>3. CASE Connect
  BY <1>3 DEF Connect, AfterConnect, At, mqttFrame, MqttSteps, Idle, TypeOK,
              TasksNameRequests, SavesWhatIsInstalled, SucceededWasInstalled, Sent,
              PendingAdvances
<1>4. CASE Disconnect
  <2>1. losses' \in Losses
    BY <1>4, LoseCounts DEF Disconnect, TypeOK, Losses
  <2> QED
    BY <1>4, <2>1 DEF Disconnect, mqttFrame, Losses, TypeOK, TasksNameRequests,
       SavesWhatIsInstalled, SucceededWasInstalled, Sent, PendingAdvances
<1> QED
  BY <1>1, <1>2, <1>3, <1>4

\* The MQTT client's task.
LEMMA MqttTaskKeeps ==
  ASSUME Inv, (\E r \in commands : TakeCommand(r)) \/ MqttTaskStep
  PROVE  Inv'
<1> USE DEF Inv
<1>1. ASSUME NEW r \in commands, TakeCommand(r) PROVE Inv'
  <2>1. r \in Requests
    BY DEF TypeOK
  <2>2. TypeOK'
    <3>1. losses' \in Losses
      BY <1>1, LoseCounts DEF TakeCommand, TypeOK, Losses
    <3> QED
      BY <1>1, <2>1, <3>1 DEF TakeCommand, At, mqttFrame, MqttSteps, TypeOK, Losses
  <2> QED
    BY <1>1, <2>1, <2>2 DEF TakeCommand, At, Idle, mqttFrame, TasksNameRequests,
       MqttSteps, SavesWhatIsInstalled, SucceededWasInstalled, Sent, PendingAdvances
<1>2. CASE CheckPending
  <2>1. mqttTask.request \in Requests
    BY <1>2 DEF CheckPending, TasksNameRequests, MqttSteps
  <2>2. /\ outbox' \in Seq(Requests \X Statuses)
        /\ \A q \in Requests :
             <<q, "succeeded">> \in reported' \cup Sent' => q \in installed'
    <3>1. CASE IsPending(record)
      <4>1. PICK works \in PublishOutcomes : Publish(mqttTask.request, "busy", works)
        BY <1>2, <3>1 DEF CheckPending
      <4> QED
        BY <1>2, <2>1, <4>1, PublishOther DEF CheckPending, mqttFrame, Statuses
    <3>2. CASE ~IsPending(record)
      BY <1>2, <3>2 DEF CheckPending, mqttFrame, TypeOK, SucceededWasInstalled, Sent
    <3> QED
      BY <3>1, <3>2
  <2>3. mqttTask' \in {Idle, At("save", mqttTask.request)}
    BY <1>2 DEF CheckPending
  <2>4. TypeOK' /\ TasksNameRequests'
    BY <1>2, <2>1, <2>2, <2>3 DEF CheckPending, mqttFrame, TypeOK, TasksNameRequests,
                                  At, Idle, MqttSteps
  <2> QED
    BY <1>2, <2>2, <2>4 DEF CheckPending, mqttFrame, SavesWhatIsInstalled,
                            SucceededWasInstalled, PendingAdvances, At
<1>3. CASE SavePending
  <2>1. mqttTask.request \in Requests
    BY <1>3 DEF SavePending, TasksNameRequests, MqttSteps
  <2>2. CASE /\ record' = Recorded("pending", mqttTask.request)
             /\ mqttTask' = At("enqueue", mqttTask.request)
             /\ UNCHANGED outbox
    <3>1. TypeOK'
      BY <1>3, <2>1, <2>2 DEF SavePending, mqttFrame, TypeOK, Recorded, At, MqttSteps
    <3> QED
      BY <1>3, <2>1, <2>2, <3>1 DEF SavePending, mqttFrame, Recorded, At, TasksNameRequests,
         SavesWhatIsInstalled, SucceededWasInstalled, Sent, PendingAdvances
  <2>3. CASE /\ NvsMayFail
             /\ mqttTask' = Idle
             /\ \E works \in PublishOutcomes : Publish(mqttTask.request, "failed", works)
             /\ record' \in {record, Recorded("pending", mqttTask.request)}
    <3>1. /\ outbox' \in Seq(Requests \X Statuses)
          /\ \A q \in Requests :
               <<q, "succeeded">> \in reported' \cup Sent' => q \in installed'
      BY <1>3, <2>1, <2>3, PublishOther DEF SavePending, mqttFrame, Statuses, Final
    <3>2. TypeOK'
      BY <1>3, <2>1, <2>3, <3>1 DEF SavePending, mqttFrame, TypeOK, Recorded, At, Idle, MqttSteps
    <3> QED
      BY <1>3, <2>3, <3>1, <3>2 DEF SavePending, mqttFrame, Recorded, At, Idle,
         TasksNameRequests, SavesWhatIsInstalled, SucceededWasInstalled, PendingAdvances
  <2> QED
    BY <1>3, <2>2, <2>3 DEF SavePending
<1>4. CASE Enqueue
  <2>1. mqttTask.request \in Requests
    BY <1>4 DEF Enqueue, TasksNameRequests, MqttSteps
  <2>2. CASE /\ QueueHasRoom
             /\ queue' = Append(queue, mqttTask.request)
             /\ mqttTask' = At("accept", mqttTask.request)
             /\ UNCHANGED <<record, outbox>>
    <3>1. TypeOK'
      BY <1>4, <2>1, <2>2 DEF Enqueue, mqttFrame, QueueHasRoom, QueueDepth, TypeOK, At,
                              MqttSteps
    <3>2. {queue'[i] : i \in DOMAIN queue'}
            = {queue[i] : i \in DOMAIN queue} \cup {mqttTask.request}
      <4>1. /\ DOMAIN queue = 1..Len(queue) /\ Len(queue) \in Nat
            /\ DOMAIN queue' = 1..Len(queue) + 1
            /\ \A i \in 1..Len(queue) : queue'[i] = queue[i]
            /\ queue'[Len(queue) + 1] = mqttTask.request
        BY <2>1, <2>2, AppendProperties, LenProperties DEF TypeOK
      <4> QED
        BY <4>1
    <3>3. PendingAdvances'
      BY <1>4, <2>2, <3>2 DEF Enqueue, mqttFrame, PendingAdvances, At
    <3> QED
      BY <1>4, <2>1, <2>2, <3>1, <3>3 DEF Enqueue, mqttFrame, At, TasksNameRequests,
         SavesWhatIsInstalled, SucceededWasInstalled, Sent
  <2>3. CASE /\ ClearResult
             /\ mqttTask' = Idle
             /\ \E works \in PublishOutcomes : Publish(mqttTask.request, "busy", works)
             /\ UNCHANGED queue
    <3>1. /\ outbox' \in Seq(Requests \X Statuses)
          /\ \A q \in Requests :
               <<q, "succeeded">> \in reported' \cup Sent' => q \in installed'
      BY <1>4, <2>1, <2>3, PublishOther DEF Enqueue, mqttFrame, Statuses
    <3>2. TypeOK'
      BY <1>4, <2>3, <3>1 DEF Enqueue, ClearResult, mqttFrame, TypeOK, At, Idle, MqttSteps
    <3> QED
      BY <1>4, <2>3, <3>1, <3>2 DEF Enqueue, ClearResult, mqttFrame, At, Idle, NoRecord,
         TasksNameRequests, SavesWhatIsInstalled, SucceededWasInstalled, PendingAdvances
  <2> QED
    BY <1>4, <2>2, <2>3 DEF Enqueue
<1>5. CASE Accept
  <2>1. mqttTask.request \in Requests
    BY <1>5 DEF Accept, TasksNameRequests, MqttSteps
  <2>2. /\ outbox' \in Seq(Requests \X Statuses)
        /\ \A q \in Requests :
             <<q, "succeeded">> \in reported' \cup Sent' => q \in installed'
    BY <1>5, <2>1, PublishOther DEF Accept, mqttFrame, Statuses
  <2>3. TypeOK'
    BY <1>5, <2>2 DEF Accept, mqttFrame, TypeOK, At, Idle, MqttSteps
  <2> QED
    BY <1>5, <2>2, <2>3 DEF Accept, mqttFrame, At, Idle, TasksNameRequests,
       SavesWhatIsInstalled, SucceededWasInstalled, PendingAdvances
<1>6. CASE PublishSavedOnConnect
  <2>1. /\ outbox' \in Seq(Requests \X Statuses)
        /\ \A q \in Requests :
             <<q, "succeeded">> \in reported' \cup Sent' => q \in installed'
    <3>1. CASE record.state \in Final
      BY <1>6, <3>1, PublishSavedKeeps DEF PublishSavedOnConnect, PublishSaved, mqttFrame
    <3>2. CASE record.state \notin Final
      BY <1>6, <3>2 DEF PublishSavedOnConnect, PublishSaved, mqttFrame, TypeOK,
                        SucceededWasInstalled, Sent
    <3> QED
      BY <3>1, <3>2
  <2>2. /\ mqttTask' \in {Idle, At("clear", record.request)}
        /\ mqttTask' # Idle => record.request \in Requests
    BY <1>6 DEF PublishSavedOnConnect, PublishSaved, TypeOK, NoRecord, Final
  <2>3. TypeOK' /\ TasksNameRequests'
    BY <1>6, <2>1, <2>2 DEF PublishSavedOnConnect, mqttFrame, TypeOK, TasksNameRequests, At,
                            Idle, MqttSteps
  <2> QED
    BY <1>6, <2>1, <2>3 DEF PublishSavedOnConnect, mqttFrame, SavesWhatIsInstalled,
                            SucceededWasInstalled, PendingAdvances, At
<1>7. CASE ClearOnConnect
  BY <1>7 DEF ClearOnConnect, ClearResult, mqttFrame, TypeOK, TasksNameRequests, At, Idle, NoRecord,
              MqttSteps, SavesWhatIsInstalled, SucceededWasInstalled, Sent, PendingAdvances
<1> QED
  BY <1>1, <1>2, <1>3, <1>4, <1>5, <1>6, <1>7 DEF MqttTaskStep

\* A restart with what may be in NVS: what was pending has failed, what was recorded
\* stays.
LEMMA RebootKeeps ==
  ASSUME Inv, losses' \in Losses,
         NEW rec \in {NoRecord} \cup [state : Final \cup {"pending"}, request : Requests],
         rec.state = "succeeded" => rec.request \in installed,
         RebootWith(rec)
  PROVE  Inv'
<1> USE DEF Inv
<1>1. record' \in {NoRecord} \cup [state : Final \cup {"pending"}, request : Requests]
  BY DEF RebootWith, Recovered, Recorded, NoRecord, TypeOK, Final
<1>2. TypeOK'
  <2>1. /\ queue' \in Seq(Requests) /\ Len(queue') <= QueueDepth
        /\ outbox' \in Seq(Requests \X Statuses)
    BY EmptySeq DEF RebootWith, QueueDepth
  <2> QED
    BY <1>1, <2>1 DEF RebootWith, TypeOK, Losses, Idle, At, MqttSteps, OtaSteps
<1>3. SucceededWasInstalled'
  BY DEF RebootWith, Recovered, Recorded, SucceededWasInstalled, Sent
<1> QED
  BY <1>2, <1>3 DEF RebootWith, Recovered, Recorded, Idle, At, TasksNameRequests,
                    SavesWhatIsInstalled, PendingAdvances

\* ota_task.
LEMMA OtaTaskKeeps ==
  ASSUME Inv, OtaTaskStep
  PROVE  Inv'
<1> USE DEF Inv
<1>1. CASE TakeUpdate
  <2>1. Head(queue) \in Requests /\ Tail(queue) \in Seq(Requests) /\ Len(Tail(queue)) = 0
    <3>1. queue \in Seq(Requests) /\ Len(queue) <= 1 /\ queue # <<>>
      BY <1>1 DEF TakeUpdate, TypeOK, QueueDepth
    <3>2. Len(queue) \in Nat \ {0}
      BY <3>1, EmptySeq
    <3>3. /\ Head(queue) \in Requests /\ Tail(queue) \in Seq(Requests)
          /\ Len(Tail(queue)) = Len(queue) - 1
      BY <3>1, HeadTailProperties
    <3> QED
      BY <3>1, <3>2, <3>3
  <2>2. TypeOK'
    BY <1>1, <2>1 DEF TakeUpdate, otaFrame, TypeOK, At, OtaSteps, QueueDepth
  <2>3. \A i \in DOMAIN queue : queue[i] = Head(queue)
    BY <1>1 DEF TakeUpdate, TypeOK, QueueDepth
  <2>4. PendingAdvances'
    <3> SUFFICES ASSUME ~NvsMayFail, record'.state = "pending",
                        mqttTask' # At("enqueue", record'.request)
                 PROVE  otaTask'.request = record'.request /\ otaTask'.at = "announce"
      BY DEF PendingAdvances
    <3>1. otaTask.at = "idle"
      BY <1>1 DEF TakeUpdate, Idle, At
    <3>2. record.request = Head(queue)
      BY <1>1, <2>3, <3>1 DEF TakeUpdate, otaFrame, PendingAdvances
    <3> QED
      BY <1>1, <3>2 DEF TakeUpdate, otaFrame, At
  <2> QED
    BY <1>1, <2>1, <2>2, <2>4 DEF TakeUpdate, otaFrame, At, TasksNameRequests,
       SavesWhatIsInstalled, SucceededWasInstalled, Sent
<1>2. CASE Announce
  <2>1. otaTask.request \in Requests
    BY <1>2 DEF Announce, TasksNameRequests
  <2>2. /\ outbox' \in Seq(Requests \X Statuses)
        /\ \A q \in Requests :
             <<q, "succeeded">> \in reported' \cup Sent' => q \in installed'
    BY <1>2, <2>1, PublishOther DEF Announce, otaFrame, Statuses
  <2>3. TypeOK'
    BY <1>2, <2>1, <2>2 DEF Announce, otaFrame, TypeOK, At, OtaSteps
  <2> QED
    BY <1>2, <2>1, <2>2, <2>3 DEF Announce, otaFrame, At, TasksNameRequests,
       SavesWhatIsInstalled, SucceededWasInstalled, PendingAdvances
<1>3. CASE Download
  <2>1. otaTask.request \in Requests
    BY <1>3 DEF Download, TasksNameRequests
  <2>2. TypeOK'
    BY <1>3, <2>1 DEF Download, otaFrame, TypeOK, At, OtaSteps
  <2> QED
    BY <1>3, <2>1, <2>2 DEF Download, otaFrame, At, TasksNameRequests,
       SavesWhatIsInstalled, SucceededWasInstalled, Sent, PendingAdvances
<1>4. CASE SaveResult
  <2>1. otaTask.request \in Requests
    BY <1>4 DEF SaveResult, TasksNameRequests
  <2>2. TypeOK'
    BY <1>4, <2>1 DEF SaveResult, otaFrame, TypeOK, At, Recorded, Final, OtaSteps
  <2> QED
    BY <1>4, <2>1, <2>2 DEF SaveResult, otaFrame, At, Recorded, TasksNameRequests,
       SavesWhatIsInstalled, SucceededWasInstalled, Sent, PendingAdvances
<1>5. CASE PublishFailure
  <2>1. /\ outbox' \in Seq(Requests \X Statuses)
        /\ \A q \in Requests :
             <<q, "succeeded">> \in reported' \cup Sent' => q \in installed'
    <3>1. CASE record.state \in Final
      BY <1>5, <3>1, PublishSavedKeeps DEF PublishFailure, PublishSaved, otaFrame
    <3>2. CASE record.state \notin Final
      BY <1>5, <3>2 DEF PublishFailure, PublishSaved, otaFrame, TypeOK,
                        SucceededWasInstalled, Sent
    <3> QED
      BY <3>1, <3>2
  <2>2. /\ otaTask' \in {Idle, At("clear", record.request)}
        /\ otaTask' # Idle => record.request \in Requests
    BY <1>5 DEF PublishFailure, PublishSaved, TypeOK, NoRecord, Final
  <2>3. TypeOK' /\ TasksNameRequests'
    BY <1>5, <2>1, <2>2 DEF PublishFailure, otaFrame, TypeOK, TasksNameRequests, At, Idle,
                            OtaSteps
  <2> QED
    BY <1>5, <2>1, <2>2, <2>3 DEF PublishFailure, otaFrame, SavesWhatIsInstalled,
       SucceededWasInstalled, PendingAdvances, At, Idle
<1>6. CASE ClearFailure
  BY <1>6 DEF ClearFailure, ClearResult, otaFrame, TypeOK, TasksNameRequests, At, Idle, NoRecord,
              OtaSteps, SavesWhatIsInstalled, SucceededWasInstalled, Sent, PendingAdvances
<1>7. CASE Restart \/ (Reboot /\ UNCHANGED losses)
  BY <1>7, RebootKeeps DEF Restart, Reboot, TypeOK, Losses, SucceededWasInstalled
<1>8. CASE NvsAbort
  <2>1. CASE otaTask.at = "saveSucceeded" /\ RebootWith(Recorded("succeeded", otaTask.request))
    <3> DEFINE rec == Recorded("succeeded", otaTask.request)
    <3>1. /\ rec \in {NoRecord} \cup [state : Final \cup {"pending"}, request : Requests]
          /\ rec.state = "succeeded" => rec.request \in installed
      BY <2>1 DEF TasksNameRequests, SavesWhatIsInstalled, Recorded, Final
    <3> QED
      BY <1>8, <2>1, <3>1, RebootKeeps DEF NvsAbort, TypeOK, Losses
  <2>2. CASE otaTask.at = "saveFailed" /\ RebootWith(Recorded("failed", otaTask.request))
    <3> DEFINE rec == Recorded("failed", otaTask.request)
    <3>1. /\ rec \in {NoRecord} \cup [state : Final \cup {"pending"}, request : Requests]
          /\ rec.state # "succeeded"
      BY <2>2 DEF TasksNameRequests, Recorded, Final
    <3> QED
      BY <1>8, <2>2, <3>1, RebootKeeps DEF NvsAbort, TypeOK, Losses
  <2> QED
    BY <1>7, <1>8, <2>1, <2>2 DEF NvsAbort
<1> QED
  BY <1>1, <1>2, <1>3, <1>4, <1>5, <1>6, <1>7, <1>8 DEF OtaTaskStep

\* Every step keeps Inv.
LEMMA InvNext == Inv /\ [Next]_vars => Inv'
<1> SUFFICES ASSUME Inv, [Next]_vars PROVE Inv'
  OBVIOUS
<1>1. CASE Crash
  BY <1>1, RebootKeeps, LoseCounts DEF Crash, Reboot, Inv, TypeOK, Losses, SucceededWasInstalled
<1>2. CASE UNCHANGED vars
  BY <1>2 DEF vars, Inv, TypeOK, TasksNameRequests, SavesWhatIsInstalled,
              SucceededWasInstalled, Sent, PendingAdvances
<1> QED
  BY <1>1, <1>2, OutsideKeeps, MqttTaskKeeps, OtaTaskKeeps DEF Next

-----------------------------------------------------------------------------
\* The theorems.

\* Inv holds in every reachable state.
THEOREM InvHolds == Spec => []Inv
<1> QED
  BY InvInit, InvNext, PTL DEF Spec

\* The variables keep their types, and ota_queue its length.
THEOREM TypeCorrect == Spec => []TypeOK
<1>1. Inv => TypeOK
  BY DEF Inv
<1> QED
  BY <1>1, InvHolds, PTL

\* Nobody is told, and NVS never says, that an update succeeded which was not
\* installed: whatever recover_interrupted_ota finds, however the two tasks
\* interleave and whatever commands are repeated.
THEOREM SucceededWasInstalledHolds == Spec => []SucceededWasInstalled
<1>1. Inv => SucceededWasInstalled
  BY DEF Inv
<1> QED
  BY <1>1, InvHolds, PTL

\* No pending record is left behind by the updates under way: a step that ends one of
\* them replaces the record, or another of them is there that will.
LEMMA PendingStaysUnderWay == Inv /\ PendingIsUnderWay /\ [Next]_vars => PendingIsUnderWay'
<1> SUFFICES ASSUME Inv, PendingIsUnderWay, [Next]_vars PROVE PendingIsUnderWay'
  OBVIOUS
<1> USE DEF PendingIsUnderWay, UpdateUnderWay
<1>1. CASE \/ \E r \in Requests : Request(r)
           \/ \E r \in commands : TakeCommand(r)
           \/ Acknowledge \/ Connect \/ Disconnect
  BY <1>1 DEF Request, TakeCommand, Acknowledge, Connect, Disconnect, mqttFrame, Idle, At
<1>2. CASE CheckPending \/ SavePending \/ Accept \/ PublishSavedOnConnect \/ ClearOnConnect
  BY <1>2 DEF CheckPending, SavePending, Accept, PublishSavedOnConnect, PublishSaved,
              ClearOnConnect, ClearResult, mqttFrame, NoRecord, Recorded, At
<1>3. CASE Enqueue
  <2>1. CASE QueueHasRoom
    <3>1. queue' # <<>>
      BY <1>3, <2>1, AppendProperties DEF Enqueue, Inv, TypeOK, TasksNameRequests, MqttSteps
    <3> QED
      BY <3>1
  <2>2. CASE ~QueueHasRoom
    <3>1. queue # <<>>
      BY <2>2 DEF QueueHasRoom, QueueDepth
    <3> QED
      BY <1>3, <2>2, <3>1 DEF Enqueue
  <2> QED
    BY <2>1, <2>2
<1>4. CASE TakeUpdate \/ Announce \/ Download
  BY <1>4 DEF TakeUpdate, Announce, Download, otaFrame, At
<1>5. CASE SaveResult \/ PublishFailure \/ ClearFailure
  BY <1>5 DEF SaveResult, PublishFailure, PublishSaved, ClearFailure, ClearResult, otaFrame,
              Recorded, NoRecord, At
<1>6. CASE Restart \/ NvsAbort \/ Crash
  BY <1>6 DEF Restart, NvsAbort, Crash, Reboot, RebootWith, Recovered, Recorded
<1>7. CASE UNCHANGED vars
  BY <1>7 DEF vars
<1>8. CASE Next
  BY <1>1, <1>2, <1>3, <1>4, <1>5, <1>6, <1>8 DEF Next, MqttTaskStep, OtaTaskStep
<1> QED
  BY <1>7, <1>8

\* ota_is_pending never refuses updates for good: whatever NVS writes and erasures
\* fail, and whatever resets and commands come between, a result that will replace
\* a pending record is on its way, unless NVS kept the record of a save that failed.
THEOREM PendingIsUnderWayHolds == Spec => []PendingIsUnderWay
<1>1. Init => PendingIsUnderWay
  BY DEF Init, NoRecord, PendingIsUnderWay
<1> QED
  BY <1>1, InvHolds, PendingStaysUnderWay, PTL DEF Spec

\* With NVS working it is the recorded request's own update: handle_ota_command is
\* about to queue it, or ota_queue or ota_task has it.
THEOREM PendingIsItsOwn == Spec => []PendingAdvances
<1>1. Inv => PendingAdvances
  BY DEF Inv
<1> QED
  BY <1>1, InvHolds, PTL
-----------------------------------------------------------------------------
\* Without repeated commands, resets and failing NVS writes each request is tried
\* once, and its result stands, however many requests overlap.

NoFaults == MaxRedeliveries = 0 /\ MaxCrashes = 0 /\ ~NvsMayFail

\* The places of a request that was not tried yet, and those of a failure.
MqttHas(r) == mqttTask.at \in {"check", "save", "enqueue"} /\ mqttTask.request = r
InQueue(r) == \E i \in DOMAIN queue : queue[i] = r
Tries(r) == otaTask.at \in {"announce", "download"} /\ otaTask.request = r
Waits(r) == r \in commands \/ MqttHas(r) \/ InQueue(r) \/ Tries(r)
Failed(r) ==
  \/ <<r, "failed">> \in reported \cup Sent
  \/ record = Recorded("failed", r)
  \/ otaTask = At("saveFailed", r)

\* A request waits in one place; the one that is recorded has left the broker.
OnePlace ==
  \A r \in Requests :
    /\ r \in commands => ~MqttHas(r) /\ ~InQueue(r) /\ ~Tries(r) /\ record.request # r
    /\ MqttHas(r) => ~InQueue(r) /\ ~Tries(r)
    /\ MqttHas(r) /\ mqttTask.at # "enqueue" => record.request # r
    /\ InQueue(r) => ~Tries(r)

\* A request that was tried does not wait again, and is installed or failed; only
\* ota_task's next step keeps an installed one from being recorded as such.
TriedOnce ==
  \A r \in Requests :
    /\ r \in installed \/ Failed(r) => ~Waits(r)
    /\ r \in installed => ~Failed(r)
    /\ r \in installed /\ record = Recorded("pending", r) =>
         otaTask = At("saveSucceeded", r)

\* What is known of a request was asked for.
KnownWasRequested ==
  \A r \in Requests :
    Waits(r) \/ Failed(r) \/ r \in installed \/ record.request = r => r \in requested

OnceInv == Inv /\ OnePlace /\ TriedOnce /\ KnownWasRequested

\* Nothing is known of any request at the start.
LEMMA OnceInit == Init => OnceInv
<1> SUFFICES ASSUME Init PROVE OnceInv
  OBVIOUS
<1>1. \A r \in Requests : ~Waits(r) /\ ~Failed(r) /\ r \notin installed /\ record.request # r
  BY OtaAssumption DEF Init, Waits, MqttHas, InQueue, Tries, Failed, Sent, Idle, At, NoRecord,
     Recorded
<1> QED
  BY <1>1, InvInit DEF OnceInv, OnePlace, TriedOnce, KnownWasRequested, Waits

\* A report of r that is no failure, or of a failure that is known, tells nothing.
LEMMA NothingNewTold ==
  ASSUME TypeOK, NEW q \in Requests, NEW status \in Statuses, NEW works,
         Publish(q, status, works), reported' = reported,
         NEW r \in Requests, <<r, "failed">> \in reported' \cup Sent'
  PROVE  <<r, "failed">> \in reported \cup Sent \/ (r = q /\ status = "failed")
<1>1. Sent' \subseteq Sent \cup {<<q, status>>}
  BY PublishAdds DEF TypeOK
<1> QED
  BY <1>1

\* Users, the broker and the link.
LEMMA OnceOutside ==
  ASSUME OnceInv, Inv',
         \/ \E r \in Requests : Request(r)
         \/ Acknowledge \/ Connect \/ Disconnect
  PROVE  OnceInv'
<1> USE DEF OnceInv
<1>1. ASSUME NEW q \in Requests, Request(q) PROVE OnceInv'
  <2>1. ~Waits(q) /\ ~Failed(q) /\ q \notin installed /\ record.request # q
    BY <1>1 DEF Request, KnownWasRequested
  <2>2. \A r \in Requests : /\ Failed(r)' = Failed(r) /\ MqttHas(r)' = MqttHas(r)
                            /\ InQueue(r)' = InQueue(r) /\ Tries(r)' = Tries(r)
    BY <1>1 DEF Request, Failed, Sent, MqttHas, InQueue, Tries
  <2>3. UNCHANGED <<mqttTask, otaTask, record, installed>>
        /\ commands' = commands \cup {q} /\ requested' = requested \cup {q}
    BY <1>1 DEF Request
  <2> QED
    BY <2>1, <2>2, <2>3 DEF OnePlace, TriedOnce, KnownWasRequested, Waits
<1>2. ASSUME Acknowledge \/ Connect \/ Disconnect PROVE OnceInv'
  <2>1. /\ UNCHANGED <<requested, commands, queue, otaTask, record, installed>>
        /\ \A r \in Requests : MqttHas(r)' => MqttHas(r) /\ mqttTask' = mqttTask
    BY <1>2 DEF Acknowledge, Connect, AfterConnect, Disconnect, mqttFrame, MqttHas, At
  <2>2. reported' \cup Sent' \subseteq reported \cup Sent
    <3>1. CASE Acknowledge
      <4>1. Head(outbox) \in Sent /\ Sent' \subseteq Sent
        BY <3>1 DEF Acknowledge, Inv, TypeOK, Sent
      <4> QED
        BY <3>1, <4>1 DEF Acknowledge
    <3>2. CASE Connect \/ Disconnect
      BY <3>2 DEF Connect, Disconnect, mqttFrame, Sent
    <3> QED
      BY <1>2, <3>1, <3>2
  <2>3. \A r \in Requests : /\ Failed(r)' => Failed(r)
                            /\ InQueue(r)' = InQueue(r) /\ Tries(r)' = Tries(r)
    BY <2>1, <2>2 DEF Failed, InQueue, Tries
  <2> QED
    BY <2>1, <2>3 DEF OnePlace, TriedOnce, KnownWasRequested, Waits
<1> QED
  BY <1>1, <1>2

\* The MQTT client's task: a request moves to the next place or to none.
LEMMA OnceMqttTask ==
  ASSUME NoFaults, OnceInv, Inv', (\E r \in commands : TakeCommand(r)) \/ MqttTaskStep
  PROVE  OnceInv'
<1> USE DEF OnceInv
<1>1. ASSUME NEW q \in commands, TakeCommand(q) PROVE OnceInv'
  <2>1. /\ commands' = commands \ {q} /\ q \in Requests
        /\ mqttTask' = At("check", q) /\ mqttTask = Idle
        /\ UNCHANGED <<requested, queue, otaTask, record, installed, reported, outbox>>
    BY <1>1, OtaAssumption DEF TakeCommand, NoFaults, Inv, TypeOK, mqttFrame
  <2>2. \A r \in Requests : /\ Failed(r)' = Failed(r) /\ InQueue(r)' = InQueue(r)
                            /\ Tries(r)' = Tries(r) /\ ~MqttHas(r)
                            /\ MqttHas(r)' = (r = q)
    BY <2>1 DEF Failed, Sent, InQueue, Tries, MqttHas, Idle, At
  <2>3. Waits(q)
    BY DEF Waits
  <2> QED
    BY <2>1, <2>2, <2>3 DEF OnePlace, TriedOnce, KnownWasRequested, Waits
<1>2. CASE CheckPending \/ Accept \/ PublishSavedOnConnect \/ ClearOnConnect
  <2>1. /\ UNCHANGED <<requested, commands, queue, otaTask, installed, reported>>
        /\ record' \in {record, NoRecord}
    BY <1>2 DEF CheckPending, Accept, PublishSavedOnConnect, ClearOnConnect, ClearResult,
                mqttFrame
  <2>2. ASSUME NEW r \in Requests, MqttHas(r)'
        PROVE  MqttHas(r) /\ mqttTask.at = "check" /\ record' = record
    BY <1>2, <2>2 DEF CheckPending, Accept, PublishSavedOnConnect, PublishSaved,
       ClearOnConnect, MqttHas, At, Idle
  <2>3. ASSUME NEW r \in Requests, <<r, "failed">> \in reported' \cup Sent'
        PROVE  Failed(r)
    <3>1. CASE CheckPending \/ Accept
      <4>1. mqttTask.request \in Requests
        BY <3>1 DEF CheckPending, Accept, Inv, TasksNameRequests, MqttSteps
      <4>2. \/ \E works \in PublishOutcomes, status \in {"busy", "pending"} :
                 Publish(mqttTask.request, status, works)
            \/ UNCHANGED outbox
        BY <3>1 DEF CheckPending, Accept
      <4> QED
        BY <2>1, <2>3, <4>1, <4>2, NothingNewTold DEF Inv, Failed, Sent, Statuses
    <3>2. CASE PublishSavedOnConnect
      <4>1. CASE record.state \in Final
        <5>1. record.request \in Requests /\ record.state \in Statuses
          BY <4>1 DEF Inv, TypeOK, NoRecord, Final, Statuses
        <5>2. PICK works \in PublishOutcomes : Publish(record.request, record.state, works)
          BY <3>2, <4>1 DEF PublishSavedOnConnect, PublishSaved
        <5>3. <<r, "failed">> \in reported \cup Sent
              \/ (r = record.request /\ record.state = "failed")
          BY <2>1, <2>3, <5>1, <5>2, NothingNewTold DEF Inv
        <5>4. record.state = "failed" => record = Recorded("failed", record.request)
          BY <4>1 DEF Inv, TypeOK, NoRecord, Final, Recorded
        <5> QED
          BY <5>3, <5>4 DEF Failed
      <4>2. CASE record.state \notin Final
        BY <2>1, <2>3, <3>2, <4>2 DEF PublishSavedOnConnect, PublishSaved, Failed, Sent
      <4> QED
        BY <4>1, <4>2
    <3>3. CASE ClearOnConnect
      BY <2>1, <2>3, <3>3 DEF ClearOnConnect, Failed, Sent
    <3> QED
      BY <1>2, <3>1, <3>2, <3>3
  <2>4. \A r \in Requests : record' # record => /\ record' # Recorded("failed", r)
                                                /\ record' # Recorded("pending", r)
                                                /\ record'.request # r
    BY <2>1, OtaAssumption DEF NoRecord, Recorded
  <2>5. \A r \in Requests : /\ Failed(r)' => Failed(r)
                            /\ InQueue(r)' = InQueue(r) /\ Tries(r)' = Tries(r)
    BY <2>1, <2>3, <2>4 DEF Failed, InQueue, Tries
  <2> QED
    BY <2>1, <2>2, <2>4, <2>5 DEF OnePlace, TriedOnce, KnownWasRequested, Waits, MqttHas
<1>3. CASE SavePending
  <2> DEFINE q == mqttTask.request
  <2>1. /\ q \in Requests /\ MqttHas(q) /\ mqttTask.at = "save"
        /\ record' = Recorded("pending", q) /\ mqttTask' = At("enqueue", q)
        /\ UNCHANGED <<requested, commands, queue, otaTask, installed, reported, outbox>>
    BY <1>3 DEF SavePending, NoFaults, mqttFrame, MqttHas, Inv, TasksNameRequests, MqttSteps
  <2>2. \A r \in Requests : /\ Failed(r)' => Failed(r)
                            /\ InQueue(r)' = InQueue(r) /\ Tries(r)' = Tries(r)
                            /\ MqttHas(r)' = (r = q) /\ MqttHas(r) = (r = q)
    BY <2>1 DEF Failed, Sent, InQueue, Tries, MqttHas, Recorded, At
  <2>3. Waits(q) /\ record'.request = q /\ mqttTask'.at = "enqueue"
    BY <2>1 DEF Waits, Recorded, At
  <2>4. \A r \in Requests : record' = Recorded("pending", r) => r = q
    BY <2>1 DEF Recorded
  <2> HIDE DEF q
  <2> QED
    BY <2>1, <2>2, <2>3, <2>4 DEF OnePlace, TriedOnce, KnownWasRequested, Waits
<1>4. CASE Enqueue
  <2> DEFINE q == mqttTask.request
  <2>1. /\ q \in Requests /\ MqttHas(q)
        /\ UNCHANGED <<requested, commands, otaTask, installed, reported>>
        /\ record' \in {record, NoRecord}
        /\ \A r \in Requests : ~MqttHas(r)'
    BY <1>4 DEF Enqueue, ClearResult, mqttFrame, MqttHas, Inv, TasksNameRequests, MqttSteps, At,
                Idle
  <2>2. \A r \in Requests : InQueue(r)' => InQueue(r) \/ r = q
    <3>1. CASE queue' = queue
      BY <3>1 DEF InQueue
    <3>2. CASE queue' = Append(queue, q)
      <4>1. /\ DOMAIN queue = 1..Len(queue) /\ Len(queue) \in Nat
            /\ DOMAIN queue' = 1..Len(queue) + 1
            /\ \A i \in 1..Len(queue) : queue'[i] = queue[i]
            /\ queue'[Len(queue) + 1] = q
        BY <2>1, <3>2, AppendProperties, LenProperties DEF Inv, TypeOK
      <4> HIDE DEF q
      <4> QED
        BY <4>1 DEF InQueue
    <3> QED
      BY <1>4, <3>1, <3>2 DEF Enqueue
  <2>3. ASSUME NEW r \in Requests, <<r, "failed">> \in reported' \cup Sent'
        PROVE  Failed(r)
    <3>1. \/ \E works \in PublishOutcomes : Publish(q, "busy", works)
          \/ UNCHANGED outbox
      BY <1>4 DEF Enqueue
    <3> QED
      BY <2>1, <2>3, <3>1, NothingNewTold DEF Inv, Failed, Sent, Statuses
  <2>4. \A r \in Requests : record' # record => /\ record' # Recorded("failed", r)
                                                /\ record' # Recorded("pending", r)
                                                /\ record'.request # r
    BY <2>1, OtaAssumption DEF NoRecord, Recorded
  <2>5. \A r \in Requests : (Failed(r)' => Failed(r)) /\ Tries(r)' = Tries(r)
    BY <2>1, <2>3, <2>4 DEF Failed, Tries
  <2>6. Waits(q)
    BY <2>1 DEF Waits
  <2> HIDE DEF q
  <2> QED
    BY <2>1, <2>2, <2>4, <2>5, <2>6 DEF OnePlace, TriedOnce, KnownWasRequested, Waits
<1> QED
  BY <1>1, <1>2, <1>3, <1>4 DEF MqttTaskStep

\* ota_task: a request that is tried is installed or failed, and the restart after
\* an installation turns at most a request that waited in the queue into a failure.
LEMMA OnceOtaTask ==
  ASSUME NoFaults, OnceInv, Inv', OtaTaskStep
  PROVE  OnceInv'
<1> USE DEF OnceInv
<1> DEFINE q == otaTask.request
<1>1. CASE TakeUpdate
  <2> DEFINE h == Head(queue)
  <2>1. Len(queue) = 1 /\ queue[1] = h /\ h \in Requests /\ Tail(queue) = <<>>
    <3>1. queue \in Seq(Requests) /\ Len(queue) <= 1 /\ queue # <<>>
      BY <1>1 DEF TakeUpdate, Inv, TypeOK, QueueDepth
    <3>2. Len(queue) = 1
      <4>1. Len(queue) \in Nat \ {0}
        BY <3>1, EmptySeq
      <4>2. \A n \in Nat \ {0} : n <= 1 => n = 1
        OBVIOUS
      <4> QED
        BY <3>1, <4>1, <4>2, Zenon
    <3>3. h = queue[1] /\ h \in Requests /\ Tail(queue) \in Seq(Requests)
          /\ Len(Tail(queue)) = 0
      BY <3>1, <3>2, HeadTailProperties
    <3> QED
      BY <3>2, <3>3, EmptySeq
  <2>2. /\ otaTask' = At("announce", h) /\ queue' = <<>> /\ otaTask = Idle
        /\ UNCHANGED <<requested, commands, mqttTask, record, installed, reported, outbox>>
    BY <1>1, <2>1 DEF TakeUpdate, otaFrame
  <2>3. InQueue(h)
    BY <2>1 DEF InQueue
  <2> HIDE DEF h
  <2>4. \A r \in Requests : /\ Failed(r)' => Failed(r)
                            /\ MqttHas(r)' = MqttHas(r)
                            /\ ~InQueue(r)'
                            /\ Tries(r)' = (r = h)
    BY <2>2 DEF Failed, Sent, MqttHas, InQueue, Tries, At
  <2>5. \A r \in Requests : otaTask # At("saveSucceeded", r)
    BY <2>2 DEF Idle, At
  <2> QED
    BY <2>1, <2>2, <2>3, <2>4, <2>5 DEF OnePlace, TriedOnce, KnownWasRequested, Waits
<1>2. CASE Announce
  <2>1. /\ q \in Requests
        /\ UNCHANGED <<requested, commands, queue, mqttTask, record, installed, reported>>
        /\ otaTask.at \in {"announce", "announceReboot"}
        /\ otaTask' = At(IF otaTask.at = "announce" THEN "download" ELSE "delay", q)
    BY <1>2 DEF Announce, otaFrame, Inv, TasksNameRequests
  <2>2. PICK works \in PublishOutcomes : Publish(q, "pending", works)
    BY <1>2 DEF Announce
  <2>3. ASSUME NEW r \in Requests, <<r, "failed">> \in reported' \cup Sent'
        PROVE  Failed(r)
    BY <2>1, <2>2, <2>3, NothingNewTold DEF Inv, Failed, Statuses
  <2> HIDE DEF q
  <2>4. \A r \in Requests : /\ Failed(r)' => Failed(r)
                            /\ MqttHas(r)' = MqttHas(r)
                            /\ InQueue(r)' = InQueue(r)
                            /\ Tries(r)' => Tries(r)
    BY <2>1, <2>3 DEF Failed, MqttHas, InQueue, Tries, At, q
  <2>5. \A r \in Requests : otaTask # At("saveSucceeded", r)
    BY <2>1 DEF At
  <2> QED
    BY <2>1, <2>4, <2>5 DEF OnePlace, TriedOnce, KnownWasRequested, Waits
<1>3. CASE Download
  <2>1. /\ q \in Requests /\ Tries(q)
        /\ UNCHANGED <<requested, commands, queue, mqttTask, record, reported, outbox>>
    BY <1>3 DEF Download, otaFrame, Inv, TasksNameRequests, Tries
  <2>2. \/ installed' = installed \cup {q} /\ otaTask' = At("saveSucceeded", q)
        \/ installed' = installed /\ otaTask' = At("saveFailed", q)
    BY <1>3 DEF Download
  <2>3. \A r \in Requests : otaTask # At("saveSucceeded", r)
    BY <1>3 DEF Download, At
  <2> HIDE DEF q
  <2>4. \A r \in Requests : /\ MqttHas(r)' = MqttHas(r)
                            /\ InQueue(r)' = InQueue(r)
                            /\ ~Tries(r)'
    BY <2>1, <2>2 DEF MqttHas, InQueue, Tries, At
  <2>5. \A r \in Requests : /\ Failed(r)' => Failed(r) \/ (r = q /\ installed' = installed)
    BY <2>1, <2>2 DEF Failed, Sent, At
  <2>6. Waits(q)
    BY <2>1 DEF Waits
  <2> QED
    BY <2>1, <2>2, <2>3, <2>4, <2>5, <2>6 DEF OnePlace, TriedOnce, KnownWasRequested, Waits
<1>4. CASE SaveResult
  <2>1. /\ q \in Requests
        /\ UNCHANGED <<requested, commands, queue, mqttTask, installed, reported, outbox>>
    BY <1>4 DEF SaveResult, otaFrame, Inv, TasksNameRequests
  <2>2. \/ /\ record' = Recorded("succeeded", q) /\ otaTask' = At("announceReboot", q)
           /\ q \in installed
        \/ /\ record' = Recorded("failed", q) /\ otaTask' = At("publish", q)
           /\ Failed(q)
    <3>1. CASE otaTask.at = "saveSucceeded"
      BY <1>4, <3>1 DEF SaveResult, Inv, SavesWhatIsInstalled
    <3>2. CASE otaTask.at = "saveFailed"
      <4>1. otaTask = At("saveFailed", q)
        BY <3>2 DEF Inv, TypeOK, At
      <4> QED
        BY <1>4, <3>2, <4>1 DEF SaveResult, Failed
    <3> QED
      BY <1>4, <3>1, <3>2 DEF SaveResult
  <2> HIDE DEF q
  <2>3. \A r \in Requests : /\ MqttHas(r)' = MqttHas(r)
                            /\ InQueue(r)' = InQueue(r)
                            /\ ~Tries(r)'
                            /\ Failed(r)' => Failed(r)
    BY <2>1, <2>2 DEF MqttHas, InQueue, Tries, Failed, Sent, At, Recorded
  <2>4. record'.request = q /\ \A r \in Requests : record' # Recorded("pending", r)
    BY <2>2 DEF Recorded
  <2>5. ~Waits(q) /\ q \in requested
    BY <2>1, <2>2 DEF TriedOnce, KnownWasRequested
  <2> QED
    BY <2>1, <2>3, <2>4, <2>5 DEF OnePlace, TriedOnce, KnownWasRequested, Waits, MqttHas
<1>5. CASE PublishFailure \/ ClearFailure
  <2>1. /\ UNCHANGED <<requested, commands, queue, mqttTask, installed, reported>>
        /\ record' \in {record, NoRecord}
        /\ otaTask.at \in {"publish", "clear"}
        /\ otaTask'.at \in {"idle", "clear"}
    BY <1>5 DEF PublishFailure, PublishSaved, ClearFailure, ClearResult, otaFrame, Idle, At
  <2>2. ASSUME NEW r \in Requests, <<r, "failed">> \in reported' \cup Sent'
        PROVE  Failed(r)
    <3>1. CASE PublishFailure /\ record.state \in Final
      <4>1. record.request \in Requests /\ record.state \in Statuses
        BY <3>1 DEF Inv, TypeOK, NoRecord, Final, Statuses
      <4>2. PICK works \in PublishOutcomes : Publish(record.request, record.state, works)
        BY <3>1 DEF PublishFailure, PublishSaved
      <4>3. <<r, "failed">> \in reported \cup Sent
            \/ (r = record.request /\ record.state = "failed")
        BY <2>1, <2>2, <4>1, <4>2, NothingNewTold DEF Inv
      <4>4. record.state = "failed" => record = Recorded("failed", record.request)
        BY <3>1 DEF Inv, TypeOK, NoRecord, Final, Recorded
      <4> QED
        BY <4>3, <4>4 DEF Failed
    <3>2. CASE ClearFailure \/ record.state \notin Final
      BY <1>5, <2>1, <2>2, <3>2 DEF PublishFailure, PublishSaved, ClearFailure, Failed, Sent
    <3> QED
      BY <1>5, <3>1, <3>2
  <2>3. \A r \in Requests : record' # record => /\ record' # Recorded("failed", r)
                                                /\ record' # Recorded("pending", r)
                                                /\ record'.request # r
    BY <2>1, OtaAssumption DEF NoRecord, Recorded
  <2>4. \A r \in Requests : /\ Failed(r)' => Failed(r)
                            /\ MqttHas(r)' = MqttHas(r)
                            /\ InQueue(r)' = InQueue(r)
                            /\ ~Tries(r)'
    <3>1. \A r \in Requests : otaTask' # At("saveFailed", r)
      BY <2>1 DEF At
    <3>2. \A r \in Requests : Failed(r)' => Failed(r)
      BY <2>1, <2>2, <2>3, <3>1 DEF Failed
    <3> QED
      BY <2>1, <3>2 DEF MqttHas, InQueue, Tries
  <2>5. \A r \in Requests : otaTask # At("saveSucceeded", r)
    BY <2>1 DEF At
  <2> QED
    BY <2>1, <2>3, <2>4, <2>5 DEF OnePlace, TriedOnce, KnownWasRequested, Waits, MqttHas
<1>6. CASE Restart
  <2>1. /\ UNCHANGED <<requested, commands, installed, reported>>
        /\ queue' = <<>> /\ mqttTask' = Idle /\ otaTask' = Idle /\ outbox' = <<>>
        /\ record' = Recovered(record) /\ otaTask.at = "delay"
    BY <1>6 DEF Restart, Reboot, RebootWith
  <2>2. \A r \in Requests : ~MqttHas(r)' /\ ~InQueue(r)' /\ ~Tries(r)'
    BY <2>1 DEF MqttHas, InQueue, Tries, Idle, At
  <2>3. /\ record'.request = record.request
        /\ \A r \in Requests : record' # Recorded("pending", r)
        /\ \A r \in Requests : record' = Recorded("failed", r) =>
             record = Recorded("failed", r) \/ record = Recorded("pending", r)
    BY <2>1 DEF Recovered, Recorded, Inv, TypeOK, NoRecord
  <2>4. \A r \in Requests : Failed(r)' => Failed(r) \/ record = Recorded("pending", r)
    BY <2>1, <2>3 DEF Failed, Sent, Idle, At
  <2>5. \A r \in Requests : record = Recorded("pending", r) =>
          r \notin commands /\ r \notin installed /\ r \in requested
    BY <2>1 DEF OnePlace, TriedOnce, KnownWasRequested, Recorded, At
  <2> QED
    BY <2>1, <2>2, <2>3, <2>4, <2>5 DEF OnePlace, TriedOnce, KnownWasRequested, Waits
<1>7. ~NvsAbort
  BY DEF NvsAbort, NoFaults
<1> QED
  BY <1>1, <1>2, <1>3, <1>4, <1>5, <1>6, <1>7 DEF OtaTaskStep

\* The parts of OnceInv are kept together.
LEMMA OnceNext ==
  ASSUME NoFaults
  PROVE  OnceInv /\ [Next]_vars => OnceInv'
<1> SUFFICES ASSUME OnceInv, [Next]_vars PROVE OnceInv'
  OBVIOUS
<1>1. Inv'
  BY InvNext DEF OnceInv
<1>2. CASE UNCHANGED vars
  BY <1>1, <1>2 DEF vars, OnceInv, OnePlace, TriedOnce, KnownWasRequested, Waits, MqttHas,
     InQueue, Tries, Failed, Sent
<1>3. ~Crash
  <2>1. losses.crashes \in 0..MaxCrashes
    BY DEF OnceInv, Inv, TypeOK
  <2>2. ~(losses.crashes < MaxCrashes)
    BY <2>1 DEF NoFaults
  <2> QED
    BY <2>2 DEF Crash
<1> QED
  BY <1>1, <1>2, <1>3, OnceOutside, OnceMqttTask, OnceOtaTask DEF Next

\* Without repeated commands, resets and failing NVS writes nobody is told that an
\* update failed whose image was installed: with any number of requests, however
\* they overlap, and whatever publishes and sessions are lost.
THEOREM FailedNotInstalledHolds == NoFaults /\ Spec => []FailedNotInstalled
<1>1. OnceInv => FailedNotInstalled
  BY DEF OnceInv, TriedOnce, Failed, FailedNotInstalled
<1>2. SUFFICES ASSUME NoFaults PROVE Spec => []FailedNotInstalled
  OBVIOUS
<1>3. OnceInv /\ [Next]_vars => OnceInv'
  BY <1>2, OnceNext
<1> QED
  BY <1>1, <1>3, OnceInit, PTL DEF Spec
-----------------------------------------------------------------------------
\* Without these faults, and where users ask for one update at a time, no result
\* leaves NVS before its report is on its way.

Told(r, status) == <<r, status>> \in reported \cup Sent

\* Requests that ota_task is about to record a result of, those that come to it
\* without the MQTT client's task, and all that have no result yet.
Saves(r) == otaTask.at \in {"saveSucceeded", "saveFailed"} /\ otaTask.request = r
Ahead(r) == InQueue(r) \/ Tries(r) \/ Saves(r)
AtWork(r) == Waits(r) \/ Saves(r)

\* A request is sent on its way when all others were answered, so none is refused.
OthersAnswered ==
  \A r \in Requests : AtWork(r) => \A q \in requested \ {r} : Answered(q)
NobodyBusy == \A r \in Requests : ~Told(r, "busy")

\* A result is recorded before it is told, and no other one is recorded then.
NotToldYet ==
  \A r \in Requests :
    /\ otaTask = At("saveSucceeded", r) => ~Told(r, "succeeded")
    /\ otaTask = At("saveFailed", r) => ~Told(r, "failed")
NoResultAhead ==
  record.state \in Final =>
    mqttTask.at # "enqueue" /\ \A r \in Requests : ~Ahead(r)

\* While a task erases the record, no other result can take its place.
ClearsWhatIsTold ==
  /\ mqttTask.at = "clear" => \A r \in Requests : ~Ahead(r)
  /\ "clear" \in {mqttTask.at, otaTask.at} /\ record.state \in Final =>
       Told(record.request, record.state)

AskedInv ==
  /\ OnceInv
  /\ OthersAnswered /\ NobodyBusy
  /\ NotToldYet /\ NoResultAhead /\ ClearsWhatIsTold

\* Who has no result yet has no answer yet.
LEMMA AtWorkUnanswered ==
  ASSUME AskedInv, NEW r \in Requests, AtWork(r)
  PROVE  ~Answered(r) /\ r \in requested
<1> USE DEF AskedInv, OnceInv
<1>s. Told(r, "succeeded") => r \in installed
  BY DEF Told, Inv, SucceededWasInstalled
<1>f. Told(r, "failed") => Failed(r)
  BY DEF Told, Failed
<1>b. ~Told(r, "busy")
  BY DEF NobodyBusy
<1>a. Answered(r) => Told(r, "succeeded") \/ Told(r, "failed")
  BY <1>b DEF Answered, Told, Statuses, Final
<1>1. CASE Waits(r)
  BY <1>1, <1>s, <1>f, <1>a DEF TriedOnce, KnownWasRequested
<1>2. CASE Saves(r)
  <2>1. otaTask = At("saveSucceeded", r) \/ otaTask = At("saveFailed", r)
    BY <1>2 DEF Saves, Inv, TypeOK, At
  <2>2. CASE otaTask = At("saveSucceeded", r)
    <3>1. r \in installed
      BY <2>2 DEF Inv, SavesWhatIsInstalled, At
    <3>2. ~Failed(r) /\ r \in requested
      BY <3>1 DEF TriedOnce, KnownWasRequested
    <3> QED
      BY <2>2, <3>2, <1>f, <1>a DEF NotToldYet
  <2>3. CASE otaTask = At("saveFailed", r)
    <3>1. Failed(r)
      BY <2>3 DEF Failed
    <3>2. r \notin installed /\ r \in requested
      BY <3>1 DEF TriedOnce, KnownWasRequested
    <3> QED
      BY <2>3, <3>2, <1>s, <1>a DEF NotToldYet
  <2> QED
    BY <2>1, <2>2, <2>3
<1> QED
  BY <1>1, <1>2 DEF AtWork

\* So one request is under way at most.
LEMMA OneAtWork ==
  ASSUME AskedInv, NEW q \in Requests, NEW r \in Requests, AtWork(q), AtWork(r)
  PROVE  q = r
BY AtWorkUnanswered DEF AskedInv, OthersAnswered

\* The result of another request than the one under way was told.
LEMMA OldResultTold ==
  ASSUME AskedInv, NEW q \in Requests, AtWork(q), record.state \in Final,
         record.request # q
  PROVE  Told(record.request, record.state)
<1> USE DEF AskedInv, OnceInv
<1> DEFINE r == record.request
<1>1. r \in Requests /\ record.state \in {"succeeded", "failed"}
      /\ record = Recorded(record.state, r)
  BY DEF Inv, TypeOK, NoRecord, Final, Recorded
<1>2. r \in requested
  BY <1>1 DEF KnownWasRequested
<1>3. Answered(r)
  BY <1>2 DEF OthersAnswered
<1> HIDE DEF r
<1>4. Told(r, "succeeded") \/ Told(r, "failed")
  <2>1. ~Told(r, "busy")
    BY <1>1 DEF NobodyBusy
  <2> QED
    BY <1>3, <2>1 DEF Answered, Told, Statuses, Final
<1>5. CASE Told(r, "succeeded") /\ record.state = "failed"
  <2>1. r \in installed
    BY <1>1, <1>5 DEF Told, Inv, SucceededWasInstalled
  <2>2. Failed(r)
    BY <1>1, <1>5 DEF Failed
  <2> QED
    BY <1>1, <2>1, <2>2 DEF TriedOnce
<1>6. CASE Told(r, "failed") /\ record.state = "succeeded"
  <2>1. r \in installed
    BY <1>6 DEF Inv, SucceededWasInstalled, r
  <2>2. Failed(r)
    BY <1>6 DEF Told, Failed
  <2> QED
    BY <1>1, <2>1, <2>2 DEF TriedOnce
<1> QED
  BY <1>1, <1>4, <1>5, <1>6 DEF r

\* A report tells what it says and takes back nothing.
LEMMA PublishTells ==
  ASSUME TypeOK, NEW q \in Requests, NEW status \in Statuses, NEW works,
         Publish(q, status, works), reported' = reported
  PROVE  /\ \A r, s : Told(r, s)' => Told(r, s) \/ (r = q /\ s = status)
         /\ \A r, s : Told(r, s) => Told(r, s)'
         /\ connected /\ works => Told(q, status)'
<1>1. Sent' \subseteq Sent \cup {<<q, status>>}
  BY PublishAdds DEF TypeOK
<1>2. outbox \in Seq(Requests \X Statuses) /\ <<q, status>> \in Requests \X Statuses
  BY DEF TypeOK
<1>3. CASE outbox' = Append(outbox, <<q, status>>)
  <2>1. /\ DOMAIN outbox = 1..Len(outbox) /\ Len(outbox) \in Nat
        /\ DOMAIN outbox' = 1..Len(outbox) + 1
        /\ \A i \in 1..Len(outbox) : outbox'[i] = outbox[i]
        /\ outbox'[Len(outbox) + 1] = <<q, status>>
    BY <1>2, <1>3, AppendProperties, LenProperties
  <2>2. Sent \subseteq Sent' /\ <<q, status>> \in Sent'
    BY <2>1 DEF Sent
  <2> QED
    BY <1>1, <2>2 DEF Told
<1>4. CASE outbox' = outbox /\ ~(connected /\ works)
  <2>1. Sent' = Sent
    BY <1>4 DEF Sent
  <2> QED
    BY <1>4, <2>1 DEF Told
<1> QED
  BY <1>3, <1>4 DEF Publish

\* Most steps take no request up, record no result and report none but the one
\* that is recorded.
LEMMA CalmStep ==
  ASSUME AskedInv, OnceInv', requested' = requested, reported \subseteq reported',
         \A r \in Requests :
           /\ AtWork(r)' => AtWork(r)
           /\ Ahead(r)' => Ahead(r) \/ (mqttTask.at = "enqueue" /\ mqttTask'.at # "clear"),
         otaTask' = otaTask \/ otaTask'.at \notin {"saveSucceeded", "saveFailed"},
         \A r, s : Told(r, s)' =>
           Told(r, s) \/ s = "pending"
           \/ (record.state \in Final /\ r = record.request /\ s = record.state),
         \A r, s : Told(r, s) => Told(r, s)',
         record' = record \/ record'.state \notin Final,
         mqttTask'.at = "enqueue" => mqttTask.at = "enqueue" \/ record'.state \notin Final,
         mqttTask'.at = "clear" => mqttTask.at = "clear" \/ record.state \in Final,
         "clear" \in {mqttTask'.at, otaTask'.at} /\ record'.state \in Final =>
           "clear" \in {mqttTask.at, otaTask.at} \/ Told(record.request, record.state)'
  PROVE  AskedInv'
<1> USE DEF AskedInv
<1>1. OthersAnswered'
  BY DEF OthersAnswered, Answered
<1>2. NobodyBusy'
  BY DEF NobodyBusy, Final
<1>3. NotToldYet'
  <2> SUFFICES ASSUME NEW r \in Requests, NEW step \in {"saveSucceeded", "saveFailed"},
                      NEW s \in {"succeeded", "failed"},
                      otaTask' = At(step, r), Told(r, s)'
               PROVE  otaTask = At(step, r) /\ Told(r, s)
    BY DEF NotToldYet
  <2>1. otaTask = At(step, r)
    BY DEF At
  <2>2. Ahead(r)
    BY <2>1 DEF Ahead, Saves, At
  <2>3. record.state \notin Final
    BY <2>2 DEF NoResultAhead
  <2> QED
    BY <2>1, <2>3
<1>4. NoResultAhead'
  <2> SUFFICES ASSUME record'.state \in Final, record' = record
               PROVE  mqttTask'.at # "enqueue" /\ \A r \in Requests : ~Ahead(r)'
    BY DEF NoResultAhead
  <2> QED
    BY DEF NoResultAhead
<1>5. ClearsWhatIsTold'
  <2>1. ASSUME mqttTask'.at = "clear", NEW r \in Requests, Ahead(r)' PROVE FALSE
    BY <2>1 DEF ClearsWhatIsTold, NoResultAhead
  <2>2. ASSUME "clear" \in {mqttTask'.at, otaTask'.at}, record'.state \in Final
        PROVE  Told(record.request, record.state)' 
    <3>1. record' = record
      BY <2>2
    <3>2. "clear" \in {mqttTask.at, otaTask.at} => Told(record.request, record.state)
      BY <2>2, <3>1 DEF ClearsWhatIsTold
    <3>3. Told(record.request, record.state) => Told(record.request, record.state)'
      BY <3>1 DEF Told
    <3> QED
      BY <2>2, <3>2, <3>3
  <2> QED
    BY <2>1, <2>2 DEF ClearsWhatIsTold
<1> QED
  BY <1>1, <1>2, <1>3, <1>4, <1>5

\* publish_saved_ota_result, whichever task runs it, tells only what is recorded.
LEMMA SavedTold ==
  ASSUME TypeOK, NEW task1, NEW done, reported' = reported, record' = record,
         \/ /\ record.state \in Final
            /\ \E works \in PublishOutcomes :
                 /\ Publish(record.request, record.state, works)
                 /\ task1 = IF ClearsAfter(works) THEN At("clear", record.request) ELSE done
         \/ record.state \notin Final /\ task1 = done /\ UNCHANGED outbox
  PROVE  /\ \A r, s : Told(r, s)' =>
              Told(r, s) \/ (record.state \in Final /\ r = record.request /\ s = record.state)
         /\ \A r, s : Told(r, s) => Told(r, s)'
         /\ \/ task1 = done
            \/ /\ task1 = At("clear", record.request) /\ record.state \in Final
               /\ Told(record.request, record.state)'
<1>1. CASE record.state \in Final
  <2>1. record.request \in Requests /\ record.state \in Statuses
    BY <1>1 DEF TypeOK, NoRecord, Final, Statuses
  <2>2. PICK works \in PublishOutcomes :
          /\ Publish(record.request, record.state, works)
          /\ task1 = IF ClearsAfter(works) THEN At("clear", record.request) ELSE done
    BY <1>1
  <2>3. /\ \A r, s : Told(r, s)' => Told(r, s) \/ (r = record.request /\ s = record.state)
        /\ \A r, s : Told(r, s) => Told(r, s)'
        /\ connected /\ works => <<record.request, record.state>> \in reported' \cup Sent'
    BY <2>1, <2>2, PublishTells DEF Told
  <2> QED
    BY <1>1, <2>2, <2>3 DEF ClearsAfter, Told
<1>2. CASE record.state \notin Final
  BY <1>2 DEF Told, Sent
<1> QED
  BY <1>1, <1>2

\* Users, the broker and the link.
LEMMA AskedOutside ==
  ASSUME OneAtATime, AskedInv, OnceInv',
         \/ \E r \in Requests : Request(r)
         \/ Acknowledge \/ Connect \/ Disconnect
  PROVE  AskedInv'
<1>i. OnceInv /\ Inv /\ TypeOK
  BY DEF AskedInv, OnceInv, Inv
<1>1. ASSUME NEW q \in Requests, Request(q) PROVE AskedInv'
  <2>1. /\ UNCHANGED <<mqttTask, otaTask, record, queue, reported, outbox>>
        /\ commands' = commands \cup {q} /\ requested' = requested \cup {q}
        /\ \A p \in requested : Answered(p)
    BY <1>1 DEF Request
  <2>2. /\ \A r : InQueue(r)' = InQueue(r) /\ Tries(r)' = Tries(r) /\ MqttHas(r)' = MqttHas(r)
        /\ \A r : Saves(r)' = Saves(r) /\ Answered(r)' = Answered(r)
        /\ \A r, s : Told(r, s)' = Told(r, s)
    BY <2>1 DEF InQueue, Tries, MqttHas, Saves, Answered, Told, Sent
  <2>3. OthersAnswered'
    <3> SUFFICES ASSUME NEW r \in Requests, AtWork(r)', NEW p \in requested' \ {r}
                 PROVE  Answered(p)
      BY <2>2 DEF OthersAnswered
    <3>1. CASE r = q
      BY <2>1, <3>1
    <3>2. CASE r # q
      <4>1. AtWork(r)
        BY <2>1, <2>2, <3>2 DEF AtWork, Waits
      <4> QED
        BY <2>1, <4>1, AtWorkUnanswered
    <3> QED
      BY <3>1, <3>2
  <2>4. NobodyBusy' /\ NotToldYet' /\ NoResultAhead' /\ ClearsWhatIsTold'
    <3>1. NobodyBusy'
      BY <2>2 DEF AskedInv, NobodyBusy
    <3>2. NotToldYet'
      BY <2>1, <2>2 DEF AskedInv, NotToldYet
    <3>3. NoResultAhead'
      BY <2>1, <2>2 DEF AskedInv, NoResultAhead, Ahead
    <3>4. ClearsWhatIsTold'
      BY <2>1, <2>2 DEF AskedInv, ClearsWhatIsTold, Ahead, Told, Sent
    <3> QED
      BY <3>1, <3>2, <3>3, <3>4
  <2> QED
    BY <2>3, <2>4 DEF AskedInv
<1>2. ASSUME Acknowledge \/ Connect \/ Disconnect PROVE AskedInv'
  <2>1. /\ UNCHANGED <<requested, commands, queue, otaTask, record>>
        /\ mqttTask' = mqttTask \/ (mqttTask' = At("publish", NoRequest) /\ mqttTask = Idle)
    BY <1>2 DEF Acknowledge, Connect, AfterConnect, Disconnect, mqttFrame
  <2>2. /\ \A r, s : Told(r, s)' <=> Told(r, s)
        /\ reported \subseteq reported'
    <3>1. CASE Acknowledge
      <4>1. outbox \in Seq(Requests \X Statuses) /\ outbox # <<>>
        BY <1>i, <3>1 DEF Acknowledge, TypeOK
      <4>2. /\ Len(outbox) \in Nat \ {0} /\ DOMAIN outbox = 1..Len(outbox)
            /\ Head(outbox) = outbox[1] /\ Tail(outbox) \in Seq(Requests \X Statuses)
            /\ DOMAIN Tail(outbox) = 1..(Len(outbox) - 1)
            /\ \A i \in 1..(Len(outbox) - 1) : Tail(outbox)[i] = outbox[i + 1]
        BY <4>1, HeadTailProperties, LenProperties, EmptySeq
      <4>3. Sent = {Head(outbox)} \cup {Tail(outbox)[i] : i \in DOMAIN Tail(outbox)}
        <5>1. ASSUME NEW i \in 1..Len(outbox)
              PROVE  outbox[i] \in {Head(outbox)} \cup {Tail(outbox)[j] : j \in DOMAIN Tail(outbox)}
          <6>1. CASE i = 1
            BY <4>2, <6>1
          <6>2. CASE i # 1
            <7>1. i - 1 \in 1..(Len(outbox) - 1) /\ (i - 1) + 1 = i
              BY <4>2, <6>2
            <7>2. Tail(outbox)[i - 1] = outbox[i]
              BY <4>2, <7>1
            <7> QED
              BY <4>2, <7>1, <7>2
          <6> QED
            BY <6>1, <6>2
        <5>2. Head(outbox) \in Sent
          BY <4>2 DEF Sent
        <5>3. ASSUME NEW j \in DOMAIN Tail(outbox) PROVE Tail(outbox)[j] \in Sent
          <6>1. j + 1 \in 1..Len(outbox)
            BY <4>2
          <6> QED
            BY <4>2, <6>1 DEF Sent
        <5> QED
          BY <4>2, <5>1, <5>2, <5>3 DEF Sent
      <4>4. reported' \cup Sent' = reported \cup Sent
        BY <3>1, <4>3 DEF Acknowledge, Sent
      <4> QED
        BY <3>1, <4>4 DEF Acknowledge, Told
    <3>2. CASE Connect \/ Disconnect
      BY <3>2 DEF Connect, Disconnect, mqttFrame, Told, Sent
    <3> QED
      BY <1>2, <3>1, <3>2
  <2>3. \A r \in Requests : (AtWork(r)' => AtWork(r)) /\ (Ahead(r)' => Ahead(r))
    <3>1. \A r : MqttHas(r)' => MqttHas(r)
      BY <2>1 DEF MqttHas, At
    <3>2. \A r : InQueue(r)' = InQueue(r) /\ Tries(r)' = Tries(r) /\ Saves(r)' = Saves(r)
      BY <2>1 DEF InQueue, Tries, Saves
    <3> QED
      BY <2>1, <3>1, <3>2 DEF AtWork, Waits, Ahead
  <2>4. mqttTask'.at \in {"clear", "enqueue"} => mqttTask' = mqttTask
    BY <2>1 DEF At
  <2> QED
    BY <2>1, <2>2, <2>3, <2>4, CalmStep
<1> QED
  BY <1>1, <1>2

\* The MQTT client's task: no request is refused.
LEMMA AskedMqttTask ==
  ASSUME NoFaults, AskedInv, OnceInv', (\E r \in commands : TakeCommand(r)) \/ MqttTaskStep
  PROVE  AskedInv'
<1>i. OnceInv /\ Inv /\ TypeOK
  BY DEF AskedInv, OnceInv, Inv
<1> DEFINE q == mqttTask.request
<1>w. ASSUME mqttTask.at \in {"check", "save", "enqueue"}
      PROVE  q \in Requests /\ MqttHas(q) /\ AtWork(q)
  <2>1. q \in Requests /\ MqttHas(q)
    BY <1>i, <1>w DEF Inv, TasksNameRequests, MqttSteps, MqttHas
  <2> QED
    BY <2>1 DEF AtWork, Waits
<1>1. ASSUME NEW r \in commands, TakeCommand(r) PROVE AskedInv'
  <2>1. /\ mqttTask' = At("check", r) /\ commands' \subseteq commands /\ r \in Requests
        /\ UNCHANGED <<requested, queue, otaTask, record, reported, outbox>>
    BY <1>1, <1>i DEF TakeCommand, mqttFrame, TypeOK
  <2>2. \A p \in Requests : (AtWork(p)' => AtWork(p)) /\ (Ahead(p)' => Ahead(p))
    <3>1. \A p : MqttHas(p)' => p = r
      BY <2>1 DEF MqttHas, At
    <3>2. \A p : InQueue(p)' = InQueue(p) /\ Tries(p)' = Tries(p) /\ Saves(p)' = Saves(p)
      BY <2>1 DEF InQueue, Tries, Saves
    <3> QED
      BY <2>1, <3>1, <3>2 DEF AtWork, Waits, Ahead
  <2>3. \A p, s : Told(p, s)' = Told(p, s)
    BY <2>1 DEF Told, Sent
  <2>4. mqttTask'.at = "check"
    BY <2>1 DEF At
  <2> QED
    BY <2>1, <2>2, <2>3, <2>4, CalmStep
<1>2. CASE CheckPending
  <2>1. mqttTask.at = "check"
    BY <1>2 DEF CheckPending
  <2>2. record.state # "pending"
    <3> SUFFICES ASSUME record.state = "pending" PROVE FALSE
      OBVIOUS
    <3>1. record.request \in Requests
      BY <1>i DEF TypeOK, NoRecord
    <3>2. AtWork(record.request)
      <4>1. ASSUME record.request \in {queue[i] : i \in DOMAIN queue}
            PROVE  AtWork(record.request)
        BY <4>1 DEF AtWork, Waits, InQueue
      <4>2. ASSUME otaTask.request = record.request,
                   otaTask.at \in {"announce", "download", "saveSucceeded", "saveFailed"}
            PROVE  AtWork(record.request)
        BY <4>2 DEF AtWork, Waits, Tries, Saves
      <4>3. mqttTask # At("enqueue", record.request)
        BY <2>1 DEF At
      <4> QED
        BY <1>i, <4>1, <4>2, <4>3 DEF Inv, PendingAdvances, NoFaults
    <3>3. record.request = q
      BY <1>w, <2>1, <3>1, <3>2, OneAtWork
    <3> QED
      BY <1>i, <1>w, <2>1, <3>3 DEF OnceInv, OnePlace
  <2>3. /\ mqttTask' = At("save", q)
        /\ UNCHANGED <<requested, commands, queue, otaTask, record, reported, outbox>>
    BY <1>2, <2>2 DEF CheckPending, IsPending, mqttFrame
  <2>4. \A p \in Requests : (AtWork(p)' => AtWork(p)) /\ (Ahead(p)' => Ahead(p))
    <3>1. \A p : MqttHas(p)' => MqttHas(p)
      BY <2>1, <2>3 DEF MqttHas, At
    <3>2. \A p : InQueue(p)' = InQueue(p) /\ Tries(p)' = Tries(p) /\ Saves(p)' = Saves(p)
      BY <2>3 DEF InQueue, Tries, Saves
    <3> QED
      BY <2>3, <3>1, <3>2 DEF AtWork, Waits, Ahead
  <2>5. \A p, s : Told(p, s)' = Told(p, s)
    BY <2>3 DEF Told, Sent
  <2>6. mqttTask'.at = "save"
    BY <2>3 DEF At
  <2> QED
    BY <2>3, <2>4, <2>5, <2>6, CalmStep
<1>3. CASE SavePending
  <2>1. /\ mqttTask.at = "save"
        /\ record' = Recorded("pending", q) /\ mqttTask' = At("enqueue", q)
        /\ UNCHANGED <<requested, commands, queue, otaTask, reported, outbox>>
    BY <1>3 DEF SavePending, NoFaults, mqttFrame
  <2>2. \A p \in Requests : (AtWork(p)' => AtWork(p)) /\ (Ahead(p)' => Ahead(p))
    <3>1. \A p : MqttHas(p)' => MqttHas(p)
      BY <2>1 DEF MqttHas, At
    <3>2. \A p : InQueue(p)' = InQueue(p) /\ Tries(p)' = Tries(p) /\ Saves(p)' = Saves(p)
      BY <2>1 DEF InQueue, Tries, Saves
    <3> QED
      BY <2>1, <3>1, <3>2 DEF AtWork, Waits, Ahead
  <2>3. \A p, s : Told(p, s)' = Told(p, s)
    BY <2>1 DEF Told, Sent
  <2>4. mqttTask'.at = "enqueue" /\ record'.state \notin Final
    BY <2>1 DEF At, Recorded, Final
  <2> QED
    BY <2>1, <2>2, <2>3, <2>4, CalmStep
<1>4. CASE Enqueue
  <2>1. mqttTask.at = "enqueue"
    BY <1>4 DEF Enqueue
  <2>2. QueueHasRoom
    <3> SUFFICES ASSUME ~QueueHasRoom PROVE FALSE
      OBVIOUS
    <3>1. queue \in Seq(Requests) /\ Len(queue) \in Nat /\ DOMAIN queue = 1..Len(queue)
          /\ ~(Len(queue) < 1)
      BY <1>i, LenProperties DEF QueueHasRoom, QueueDepth, TypeOK
    <3>2. 1 \in DOMAIN queue /\ queue[1] \in Requests
      BY <3>1
    <3>3. InQueue(queue[1]) /\ AtWork(queue[1])
      BY <3>2 DEF InQueue, AtWork, Waits
    <3>4. queue[1] = q
      BY <1>w, <2>1, <3>2, <3>3, OneAtWork
    <3> QED
      BY <1>i, <1>w, <2>1, <3>3, <3>4 DEF OnceInv, OnePlace
  <2>3. /\ queue' = Append(queue, q) /\ mqttTask' = At("accept", q)
        /\ UNCHANGED <<requested, commands, otaTask, record, reported, outbox>>
    BY <1>4, <2>2 DEF Enqueue, mqttFrame
  <2>4. \A p : InQueue(p)' => InQueue(p) \/ p = q
    <3>1. /\ DOMAIN queue = 1..Len(queue) /\ Len(queue) \in Nat
          /\ DOMAIN queue' = 1..Len(queue) + 1
          /\ \A i \in 1..Len(queue) : queue'[i] = queue[i]
          /\ queue'[Len(queue) + 1] = q
      BY <1>i, <1>w, <2>1, <2>3, AppendProperties, LenProperties DEF TypeOK
    <3> HIDE DEF q
    <3> QED
      BY <3>1 DEF InQueue
  <2>5. \A p \in Requests : /\ AtWork(p)' => AtWork(p)
                            /\ Ahead(p)' => Ahead(p) \/ mqttTask'.at # "clear"
    <3>1. \A p : ~MqttHas(p)' /\ mqttTask'.at = "accept"
      BY <2>3 DEF MqttHas, At
    <3>2. \A p : Tries(p)' = Tries(p) /\ Saves(p)' = Saves(p)
      BY <2>3 DEF Tries, Saves
    <3> HIDE DEF q
    <3> QED
      BY <1>w, <2>1, <2>3, <2>4, <3>1, <3>2 DEF AtWork, Waits, Ahead
  <2>6. \A p, s : Told(p, s)' = Told(p, s)
    BY <2>3 DEF Told, Sent
  <2>7. mqttTask'.at = "accept"
    BY <2>3 DEF At
  <2> QED
    BY <2>1, <2>3, <2>5, <2>6, <2>7, CalmStep
<1>5. CASE Accept \/ PublishSavedOnConnect \/ ClearOnConnect
  <2>1. /\ UNCHANGED <<requested, commands, queue, otaTask, reported>>
        /\ record' \in {record, NoRecord}
        /\ mqttTask'.at \in {"idle", "clear"}
    BY <1>5 DEF Accept, PublishSavedOnConnect, PublishSaved, ClearOnConnect, ClearResult,
                mqttFrame, Idle, At
  <2>2. \A p \in Requests : (AtWork(p)' => AtWork(p)) /\ (Ahead(p)' => Ahead(p))
    <3>1. \A p : ~MqttHas(p)'
      BY <2>1 DEF MqttHas
    <3>2. \A p : InQueue(p)' = InQueue(p) /\ Tries(p)' = Tries(p) /\ Saves(p)' = Saves(p)
      BY <2>1 DEF InQueue, Tries, Saves
    <3> QED
      BY <2>1, <3>1, <3>2 DEF AtWork, Waits, Ahead
  <2>3. record' = record \/ record'.state \notin Final
    BY <2>1 DEF NoRecord, Final
  <2>4. CASE Accept
    <3>1. q \in Requests /\ mqttTask'.at = "idle" /\ record' = record
      BY <1>i, <2>4 DEF Accept, Inv, TasksNameRequests, MqttSteps, Idle, At
    <3>2. PICK works \in PublishOutcomes : Publish(q, "pending", works)
      BY <2>4 DEF Accept
    <3>3. "pending" \in Statuses
      BY DEF Statuses
    <3>4. /\ \A p, s : Told(p, s)' => Told(p, s) \/ s = "pending"
          /\ \A p, s : Told(p, s) => Told(p, s)'
      BY <1>i, <2>1, <3>1, <3>2, <3>3, PublishTells
    <3> QED
      BY <2>1, <2>2, <2>3, <3>1, <3>4, CalmStep
  <2>5. CASE PublishSavedOnConnect
    <3>1. /\ \A r, s : Told(r, s)' =>
                Told(r, s) \/ (record.state \in Final /\ r = record.request /\ s = record.state)
          /\ \A r, s : Told(r, s) => Told(r, s)'
          /\ \/ mqttTask' = Idle
             \/ /\ mqttTask' = At("clear", record.request) /\ record.state \in Final
                /\ <<record.request, record.state>> \in reported' \cup Sent'
      <4>1. record' = record /\ reported' = reported
        BY <2>5 DEF PublishSavedOnConnect, mqttFrame
      <4>2. \/ /\ record.state \in Final
               /\ \E works \in PublishOutcomes :
                    /\ Publish(record.request, record.state, works)
                    /\ mqttTask' = IF ClearsAfter(works) THEN At("clear", record.request)
                                   ELSE Idle
            \/ record.state \notin Final /\ mqttTask' = Idle /\ UNCHANGED outbox
        BY <2>5 DEF PublishSavedOnConnect, PublishSaved
      <4>3. Told(record.request, record.state)' =
              (<<record.request, record.state>> \in reported' \cup Sent')
        BY <4>1 DEF Told
      <4> QED
        BY <1>i, <4>1, <4>2, <4>3, SavedTold
    <3>2. record' = record
      BY <2>5 DEF PublishSavedOnConnect
    <3>3. "clear" \in {mqttTask'.at, otaTask'.at} =>
            otaTask.at = "clear" \/ Told(record.request, record.state)'
      BY <2>1, <3>1, <3>2 DEF Told, Idle, At
    <3>4. mqttTask'.at = "clear" => record.state \in Final
      BY <3>1 DEF Idle, At
    <3>5. \A r, s : Told(r, s)' =>
            Told(r, s) \/ s = "pending"
            \/ (record.state \in Final /\ r = record.request /\ s = record.state)
      BY <3>1
    <3>6. \A r, s : Told(r, s) => Told(r, s)'
      BY <3>1
    <3> QED
      BY <2>1, <2>2, <2>3, <3>3, <3>4, <3>5, <3>6, CalmStep
  <2>6. CASE ClearOnConnect
    <3>1. mqttTask'.at = "idle" /\ outbox' = outbox /\ record' = NoRecord
      BY <2>6 DEF ClearOnConnect, ClearResult, NoFaults, Idle, At
    <3>2. \A p, s : Told(p, s)' = Told(p, s)
      BY <2>1, <3>1 DEF Told, Sent
    <3>3. record'.state \notin Final
      BY <3>1 DEF NoRecord, Final
    <3> QED
      BY <2>1, <2>2, <3>1, <3>2, <3>3, CalmStep
  <2> QED
    BY <1>5, <2>4, <2>5, <2>6
<1> QED
  BY <1>1, <1>2, <1>3, <1>4, <1>5 DEF MqttTaskStep

\* ota_task: it is the only one that records a result, and the request it records
\* it for is the only one under way.
LEMMA AskedOtaTask ==
  ASSUME NoFaults, AskedInv, OnceInv', OtaTaskStep
  PROVE  AskedInv'
<1>i. OnceInv /\ Inv /\ TypeOK
  BY DEF AskedInv, OnceInv, Inv
<1> DEFINE q == otaTask.request
<1>q. otaTask.at # "idle" => q \in Requests
  BY <1>i DEF Inv, TasksNameRequests
<1>1. CASE TakeUpdate
  <2>1. /\ InQueue(Head(queue)) /\ otaTask' = At("announce", Head(queue))
        /\ UNCHANGED <<requested, commands, mqttTask, record, reported, outbox>>
        /\ \A r : InQueue(r)' => InQueue(r)
    <3>1. queue \in Seq(Requests) /\ queue # <<>>
      BY <1>1, <1>i DEF TakeUpdate, TypeOK
    <3>2. /\ Len(queue) \in Nat \ {0} /\ DOMAIN queue = 1..Len(queue)
          /\ Head(queue) = queue[1]
          /\ DOMAIN Tail(queue) = 1..(Len(queue) - 1)
          /\ \A i \in 1..(Len(queue) - 1) : Tail(queue)[i] = queue[i + 1]
      BY <3>1, HeadTailProperties, LenProperties, EmptySeq
    <3>3. 1 \in DOMAIN queue /\ \A i \in 1..(Len(queue) - 1) : i + 1 \in DOMAIN queue
      BY <3>2
    <3>4. queue' = Tail(queue)
      BY <1>1 DEF TakeUpdate
    <3> QED
      BY <1>1, <3>2, <3>3, <3>4 DEF TakeUpdate, otaFrame, InQueue
  <2>2. \A r \in Requests : (AtWork(r)' => AtWork(r)) /\ (Ahead(r)' => Ahead(r))
    <3>1. \A r : /\ MqttHas(r)' = MqttHas(r) /\ ~Saves(r)'
                 /\ Tries(r)' => InQueue(r)
      BY <2>1 DEF MqttHas, Saves, Tries, At
    <3> QED
      BY <2>1, <3>1 DEF AtWork, Waits, Ahead
  <2>3. \A r, s : Told(r, s)' = Told(r, s)
    BY <2>1 DEF Told, Sent
  <2>4. otaTask'.at = "announce"
    BY <2>1 DEF At
  <2> QED
    BY <2>1, <2>2, <2>3, <2>4, CalmStep
<1>2. CASE Announce
  <2>1. /\ UNCHANGED <<requested, commands, queue, mqttTask, record, reported>>
        /\ otaTask.at \in {"announce", "announceReboot"} /\ q \in Requests
        /\ otaTask' = At(IF otaTask.at = "announce" THEN "download" ELSE "delay", q)
    BY <1>2, <1>q DEF Announce, otaFrame
  <2>2. PICK works \in PublishOutcomes : Publish(q, "pending", works)
    BY <1>2 DEF Announce
  <2>3. "pending" \in Statuses
    BY DEF Statuses
  <2>4. /\ \A r, s : Told(r, s)' => Told(r, s) \/ s = "pending"
        /\ \A r, s : Told(r, s) => Told(r, s)'
    BY <1>i, <2>1, <2>2, <2>3, PublishTells
  <2>5. \A r \in Requests : (AtWork(r)' => AtWork(r)) /\ (Ahead(r)' => Ahead(r))
    <3>1. \A r : /\ MqttHas(r)' = MqttHas(r) /\ InQueue(r)' = InQueue(r) /\ ~Saves(r)'
                 /\ Tries(r)' => Tries(r)
      BY <2>1 DEF MqttHas, InQueue, Saves, Tries, At
    <3> QED
      BY <2>1, <3>1 DEF AtWork, Waits, Ahead
  <2>6. otaTask'.at \in {"download", "delay"}
    BY <2>1 DEF At
  <2> QED
    BY <2>1, <2>4, <2>5, <2>6, CalmStep
<1>3. CASE Download
  <2>1. /\ UNCHANGED <<requested, commands, queue, mqttTask, record, reported, outbox>>
        /\ q \in Requests /\ Tries(q) /\ otaTask'.request = q
        /\ otaTask'.at \in {"saveSucceeded", "saveFailed"}
    BY <1>3, <1>q DEF Download, otaFrame, Tries, At
  <2>2. \A r, s : Told(r, s)' = Told(r, s)
    BY <2>1 DEF Told, Sent
  <2>3. \A r \in Requests : (AtWork(r)' => AtWork(r)) /\ (Ahead(r)' => Ahead(r))
    <3>1. \A r : /\ MqttHas(r)' = MqttHas(r) /\ InQueue(r)' = InQueue(r) /\ ~Tries(r)'
                 /\ Saves(r)' => Tries(r)
      BY <2>1 DEF MqttHas, InQueue, Saves, Tries
    <3> QED
      BY <2>1, <3>1 DEF AtWork, Waits, Ahead
  <2>4. ~Told(q, "succeeded") /\ ~Told(q, "failed")
    <3>1. Waits(q)
      BY <2>1 DEF Waits
    <3>2. q \notin installed /\ ~Failed(q)
      BY <1>i, <2>1, <3>1 DEF OnceInv, TriedOnce
    <3> QED
      BY <1>i, <2>1, <3>2 DEF Inv, SucceededWasInstalled, Failed, Told
  <2>5. NotToldYet'
    <3>1. \A step, r : otaTask' = At(step, r) => r = q
      BY <2>1 DEF At
    <3> QED
      BY <2>2, <2>4, <3>1 DEF NotToldYet
  <2>6. OthersAnswered' /\ NobodyBusy'
    <3>1. \A r : Answered(r)' = Answered(r)
      BY <2>1 DEF Answered
    <3> QED
      BY <2>1, <2>2, <2>3, <3>1 DEF AskedInv, OthersAnswered, NobodyBusy
  <2>7. NoResultAhead' /\ ClearsWhatIsTold'
    <3>1. NoResultAhead'
      BY <2>1, <2>3 DEF AskedInv, NoResultAhead
    <3>2. (\A r \in Requests : ~Ahead(r)) \/ mqttTask.at # "clear"
      BY DEF AskedInv, ClearsWhatIsTold
    <3>3. mqttTask.at # "clear"
      BY <2>1, <3>2 DEF Ahead
    <3> QED
      BY <2>1, <3>1, <3>3 DEF ClearsWhatIsTold
  <2> QED
    BY <2>5, <2>6, <2>7 DEF AskedInv
<1>4. CASE SaveResult
  <2>1. /\ UNCHANGED <<requested, commands, queue, mqttTask, reported, outbox>>
        /\ q \in Requests /\ Saves(q)
        /\ otaTask'.at \in {"announceReboot", "publish"}
    BY <1>4, <1>q DEF SaveResult, otaFrame, Saves, At
  <2>2. \A r, s : Told(r, s)' = Told(r, s)
    BY <2>1 DEF Told, Sent
  <2>3. \A r \in Requests : /\ AtWork(r)' => AtWork(r)
                            /\ Ahead(r)' => InQueue(r)
    <3>1. \A r : /\ MqttHas(r)' = MqttHas(r) /\ InQueue(r)' = InQueue(r)
                 /\ ~Tries(r)' /\ ~Saves(r)'
      BY <2>1 DEF MqttHas, InQueue, Saves, Tries
    <3> QED
      BY <2>1, <3>1 DEF AtWork, Waits, Ahead
  <2>4. ~Waits(q)
    <3>1. CASE otaTask.at = "saveSucceeded"
      BY <1>i, <2>1, <3>1 DEF Inv, SavesWhatIsInstalled, OnceInv, TriedOnce
    <3>2. CASE otaTask.at = "saveFailed"
      <4>1. otaTask = At("saveFailed", q)
        BY <1>i, <3>2 DEF TypeOK, At
      <4> QED
        BY <1>i, <2>1, <4>1 DEF Failed, OnceInv, TriedOnce
    <3> QED
      BY <1>4, <3>1, <3>2 DEF SaveResult
  <2>5. \A r \in Requests : ~Waits(r)
    <3> SUFFICES ASSUME NEW r \in Requests, Waits(r) PROVE FALSE
      OBVIOUS
    <3>1. AtWork(q) /\ AtWork(r)
      BY <2>1 DEF AtWork
    <3>2. r = q
      BY <2>1, <3>1, OneAtWork
    <3> QED
      BY <2>4, <3>2
  <2>6. NotToldYet'
    BY <2>1 DEF NotToldYet, At
  <2>7. OthersAnswered' /\ NobodyBusy'
    <3>1. \A r : Answered(r)' = Answered(r)
      BY <2>1 DEF Answered
    <3> QED
      BY <2>1, <2>2, <2>3, <3>1 DEF AskedInv, OthersAnswered, NobodyBusy
  <2>8. NoResultAhead'
    <3>1. \A r \in Requests : ~Ahead(r)'
      BY <2>3, <2>5 DEF Waits
    <3>2. mqttTask.at # "enqueue"
      <4> SUFFICES ASSUME mqttTask.at = "enqueue" PROVE FALSE
        OBVIOUS
      <4>1. mqttTask.request \in Requests /\ MqttHas(mqttTask.request)
        BY <1>i DEF Inv, TasksNameRequests, MqttSteps, MqttHas
      <4> QED
        BY <2>5, <4>1 DEF Waits
    <3> QED
      BY <2>1, <3>1, <3>2 DEF NoResultAhead
  <2>9. ClearsWhatIsTold'
    <3>1. mqttTask.at # "clear"
      BY <2>1 DEF AskedInv, ClearsWhatIsTold, Ahead
    <3> QED
      BY <2>1, <3>1 DEF ClearsWhatIsTold
  <2> QED
    BY <2>6, <2>7, <2>8, <2>9 DEF AskedInv
<1>5. CASE PublishFailure \/ ClearFailure
  <2>1. /\ UNCHANGED <<requested, commands, queue, mqttTask, reported>>
        /\ record' \in {record, NoRecord}
        /\ otaTask'.at \in {"idle", "clear"}
    BY <1>5 DEF PublishFailure, PublishSaved, ClearFailure, ClearResult, otaFrame, Idle, At
  <2>2. \A r \in Requests : (AtWork(r)' => AtWork(r)) /\ (Ahead(r)' => Ahead(r))
    <3>1. \A r : /\ MqttHas(r)' = MqttHas(r) /\ InQueue(r)' = InQueue(r)
                 /\ ~Tries(r)' /\ ~Saves(r)'
      BY <2>1 DEF MqttHas, InQueue, Saves, Tries
    <3> QED
      BY <2>1, <3>1 DEF AtWork, Waits, Ahead
  <2>3. record' = record \/ record'.state \notin Final
    BY <2>1 DEF NoRecord, Final
  <2>4. CASE PublishFailure
    <3>1. record' = record
      BY <2>4 DEF PublishFailure
    <3>2. \/ /\ record.state \in Final
             /\ \E works \in PublishOutcomes :
                  /\ Publish(record.request, record.state, works)
                  /\ otaTask' = IF ClearsAfter(works) THEN At("clear", record.request)
                                ELSE Idle
          \/ record.state \notin Final /\ otaTask' = Idle /\ UNCHANGED outbox
      BY <2>4 DEF PublishFailure, PublishSaved
    <3>3. /\ \A r, s : Told(r, s)' =>
               Told(r, s) \/ (record.state \in Final /\ r = record.request /\ s = record.state)
          /\ \A r, s : Told(r, s) => Told(r, s)'
          /\ \/ otaTask' = Idle
             \/ /\ otaTask' = At("clear", record.request) /\ record.state \in Final
                /\ <<record.request, record.state>> \in reported' \cup Sent'
      <4>1. Told(record.request, record.state)' =
              (<<record.request, record.state>> \in reported' \cup Sent')
        BY <3>1 DEF Told
      <4> QED
        BY <1>i, <2>1, <3>1, <3>2, <4>1, SavedTold
    <3>4. "clear" \in {mqttTask'.at, otaTask'.at} =>
            mqttTask.at = "clear" \/ Told(record.request, record.state)'
      BY <2>1, <3>1, <3>3 DEF Told, Idle, At
    <3>5. /\ \A r, s : Told(r, s)' =>
               Told(r, s) \/ s = "pending"
               \/ (record.state \in Final /\ r = record.request /\ s = record.state)
          /\ \A r, s : Told(r, s) => Told(r, s)'
      BY <3>3
    <3> QED
      BY <2>1, <2>2, <2>3, <3>1, <3>4, <3>5, CalmStep
  <2>5. CASE ClearFailure
    <3>1. outbox' = outbox /\ record' = NoRecord
      BY <2>5 DEF ClearFailure, ClearResult, NoFaults
    <3>2. \A r, s : Told(r, s)' = Told(r, s)
      BY <2>1, <3>1 DEF Told, Sent
    <3>3. record'.state \notin Final
      BY <3>1 DEF NoRecord, Final
    <3> QED
      BY <2>1, <2>2, <3>2, <3>3, CalmStep
  <2> QED
    BY <1>5, <2>4, <2>5
<1>6. CASE Restart
  <2>1. /\ UNCHANGED <<requested, commands, reported>>
        /\ queue' = <<>> /\ mqttTask' = Idle /\ otaTask' = Idle /\ outbox' = <<>>
    BY <1>6 DEF Restart, Reboot, RebootWith
  <2>2. \A r : /\ ~MqttHas(r)' /\ ~InQueue(r)' /\ ~Tries(r)' /\ ~Saves(r)'
               /\ Answered(r)' = Answered(r)
    BY <2>1 DEF MqttHas, InQueue, Tries, Saves, Answered, Idle, At
  <2>3. \A r \in Requests : ~Ahead(r)' /\ (AtWork(r)' => AtWork(r))
    BY <2>1, <2>2 DEF Ahead, AtWork, Waits
  <2>4. OthersAnswered'
    BY <2>1, <2>2, <2>3 DEF AskedInv, OthersAnswered
  <2>5. NobodyBusy'
    <3>1. DOMAIN outbox' = {}
      BY <2>1, EmptySeq
    <3>2. \A r, s : Told(r, s)' => Told(r, s)
      BY <2>1, <3>1 DEF Told, Sent
    <3> QED
      BY <3>2 DEF AskedInv, NobodyBusy
  <2>6. NotToldYet' /\ NoResultAhead' /\ ClearsWhatIsTold'
    BY <2>1, <2>3 DEF NotToldYet, NoResultAhead, ClearsWhatIsTold, Idle, At
  <2> QED
    BY <2>4, <2>5, <2>6 DEF AskedInv
<1>7. ~NvsAbort
  BY DEF NvsAbort, NoFaults
<1> QED
  BY <1>1, <1>2, <1>3, <1>4, <1>5, <1>6, <1>7 DEF OtaTaskStep

\* Nothing is asked for, recorded or told at the start.
LEMMA AskedInit == Init => AskedInv
<1> SUFFICES ASSUME Init PROVE AskedInv
  OBVIOUS
<1>1. \A r \in Requests : ~AtWork(r) /\ ~Ahead(r)
  BY DEF Init, AtWork, Ahead, Waits, MqttHas, InQueue, Tries, Saves, Idle, At
<1>2. \A r, s : ~Told(r, s)
  BY DEF Init, Told, Sent
<1>3. mqttTask.at = "idle" /\ otaTask.at = "idle"
  BY DEF Init, Idle, At
<1> QED
  BY <1>1, <1>2, <1>3, OnceInit DEF AskedInv, OthersAnswered, NobodyBusy, NotToldYet,
     NoResultAhead, ClearsWhatIsTold

\* The parts of AskedInv are kept together.
LEMMA AskedNext ==
  ASSUME OneAtATime, NoFaults
  PROVE  AskedInv /\ [Next]_vars => AskedInv'
<1> SUFFICES ASSUME AskedInv, [Next]_vars PROVE AskedInv'
  OBVIOUS
<1>1. OnceInv'
  BY OnceNext DEF AskedInv
<1>2. CASE UNCHANGED vars
  BY <1>1, <1>2 DEF vars, AskedInv, OthersAnswered, NobodyBusy, NotToldYet, NoResultAhead,
     ClearsWhatIsTold, AtWork, Ahead, Waits, MqttHas, InQueue, Tries, Saves, Answered, Told,
     Sent
<1>3. ~Crash
  <2>1. losses.crashes \in 0..MaxCrashes
    BY DEF AskedInv, OnceInv, Inv, TypeOK
  <2>2. ~(losses.crashes < MaxCrashes)
    BY <2>1 DEF NoFaults
  <2> QED
    BY <2>2 DEF Crash
<1> QED
  BY <1>1, <1>2, <1>3, AskedOutside, AskedMqttTask, AskedOtaTask DEF Next

\* A result that is recorded is erased or overwritten only when its report is out.
LEMMA ResultKept ==
  ASSUME NoFaults, AskedInv, [Next]_vars, record.state \in Final, record' # record
  PROVE  /\ record'.state \in {"none", "pending"}
         /\ <<record.request, record.state>> \in reported \cup Sent
<1>i. OnceInv /\ Inv /\ TypeOK
  BY DEF AskedInv, OnceInv, Inv
<1>1. ~Crash /\ ~NvsAbort
  <2>1. losses.crashes \in 0..MaxCrashes
    BY <1>i DEF TypeOK
  <2>2. ~(losses.crashes < MaxCrashes)
    BY <2>1 DEF NoFaults
  <2> QED
    BY <2>2 DEF Crash, NvsAbort, NoFaults
<1>2. ~Restart
  BY DEF Restart, Reboot, RebootWith, Recovered, Final
<1>3. SavePending \/ Enqueue \/ ClearOnConnect \/ SaveResult \/ ClearFailure
  BY <1>1, <1>2 DEF Next, vars, Request, TakeCommand, Acknowledge, Connect, Disconnect,
     MqttTaskStep, CheckPending, Accept, PublishSavedOnConnect, OtaTaskStep, TakeUpdate,
     Announce, Download, PublishFailure
<1>4. ~Enqueue
  BY DEF AskedInv, NoResultAhead, Enqueue
<1>5. ~SaveResult
  <2> SUFFICES ASSUME SaveResult PROVE FALSE
    OBVIOUS
  <2>1. otaTask.request \in Requests /\ Saves(otaTask.request)
    BY <1>i DEF SaveResult, Inv, TasksNameRequests, Saves
  <2> QED
    BY <2>1 DEF AskedInv, NoResultAhead, Ahead
<1>6. CASE SavePending
  <2> DEFINE q == mqttTask.request
  <2>1. q \in Requests /\ MqttHas(q) /\ mqttTask.at # "enqueue"
    BY <1>6, <1>i DEF SavePending, Inv, TasksNameRequests, MqttSteps, MqttHas
  <2>2. AtWork(q) /\ record.request # q
    BY <1>i, <2>1 DEF AtWork, Waits, OnceInv, OnePlace
  <2>3. Told(record.request, record.state)
    BY <2>1, <2>2, OldResultTold
  <2>4. record' = Recorded("pending", q)
    BY <1>6 DEF SavePending
  <2> QED
    BY <2>3, <2>4 DEF Told, Recorded
<1>7. CASE ClearOnConnect \/ ClearFailure
  <2>1. "clear" \in {mqttTask.at, otaTask.at} /\ record' = NoRecord
    BY <1>7 DEF ClearOnConnect, ClearFailure, ClearResult, NoFaults
  <2> QED
    BY <2>1 DEF AskedInv, ClearsWhatIsTold, Told, NoRecord
<1> QED
  BY <1>3, <1>4, <1>5, <1>6, <1>7

\* Where users ask for one update at a time and commands, NVS and the power are
\* reliable, of the two tasks that publish and erase the stored result neither
\* erases one that was not published, and handle_ota_command overwrites none:
\* whatever publishes and sessions are lost and however the tasks interleave.
THEOREM ResultKeptUntilReportedHolds ==
  OneAtATime /\ NoFaults /\ Spec => ResultKeptUntilReported
<1> SUFFICES ASSUME OneAtATime, NoFaults PROVE Spec => ResultKeptUntilReported
  OBVIOUS
<1>1. AskedInv /\ [Next]_vars => AskedInv'
  BY AskedNext
<1>2. AskedInv /\ [Next]_vars =>
        [record.state \in Final /\ record' # record
         => /\ record'.state \in {"none", "pending"}
            /\ <<record.request, record.state>> \in reported \cup Sent]_vars
  BY ResultKept
<1> QED
  BY <1>1, <1>2, AskedInit, PTL DEF Spec, ResultKeptUntilReported
=============================================================================
