----------------------------- MODULE EspTelemetry -----------------------------
(***************************************************************************)
(* The telemetry pipeline of the ESP32 (firmware/src/main.cpp).  The HaLow *)
(* event task queues beacons, remote_beacon_task decodes them, the gateway *)
(* task reports the board itself every 30 s, the script task hands over    *)
(* what a sensor script returned; telemetry_publish_task publishes what    *)
(* the three put into telemetry_queue, on a gateway over MQTT, on a leaf   *)
(* over the mesh.  The gateway task and the scripts share the hardware     *)
(* under a mutex, and a script may never return.                           *)
(***************************************************************************)
EXTENDS Naturals, Sequences

CONSTANTS
  BeaconDepth,    \* beacon_queue
  ReadingDepth,   \* telemetry_queue
  MaxReadings,    \* bound: readings of each producer
  MaxOutages,     \* bound: lost MQTT sessions
  MaxRefusals     \* bound: publishes that fail, or have no memory

ASSUME TelemetryAssumption ==
  /\ BeaconDepth \in Nat \ {0} /\ ReadingDepth \in Nat \ {0}
  /\ MaxReadings \in Nat /\ MaxOutages \in Nat /\ MaxRefusals \in Nat

VARIABLES
  upstream,     \* halow_config.wifi_upstream: gateway or leaf
  session,      \* kMqttConnected on a gateway, kNetworkConnected on a leaf
  made,         \* readings made so far, by producer
  beacons,      \* beacon_queue
  sender,       \* the reading each producer is putting into telemetry_queue
  hardware,     \* who holds hardware_mutex
  readings,     \* telemetry_queue
  publisher,    \* where telemetry_publish_task is, with which reading
  taken,        \* readings it has taken from the queue
  published,    \* readings published whole
  outages, refusals

telemetryVars == <<upstream, session, made, beacons, sender, hardware, readings,
                   publisher, taken, published, outages, refusals>>

\* The tasks that put readings into telemetry_queue; beacons of all nodes pass
\* through one.  A reading is told from others by its producer.
Producers == {"decoder", "gateway", "script"}
NoReading == "none"

Sending == {p \in Producers : sender[p] # NoReading}
Publishing(step, reading) == [at |-> step, reading |-> reading]

TelemetryInit ==
  /\ upstream \in BOOLEAN
  /\ session = FALSE
  /\ made = [p \in Producers |-> 0]
  /\ beacons = <<>> /\ readings = <<>>
  /\ sender = [p \in Producers |-> NoReading]
  /\ hardware = "free"
  /\ publisher = Publishing("wait", NoReading)
  /\ taken = 0 /\ published = 0
  /\ outages = 0 /\ refusals = 0

\* ---------------------------------------------------------------- producers

Made(p) == made[p] < MaxReadings /\ made' = [made EXCEPT ![p] = @ + 1]

\* enqueue_beacon, in the HaLow event task: never waits, drops the new one.
HearBeacon ==
  /\ Made("decoder")
  /\ beacons' = IF Len(beacons) < BeaconDepth
                THEN Append(beacons, "decoder") ELSE beacons
  /\ UNCHANGED <<upstream, session, sender, hardware, readings, publisher, taken,
                published, outages, refusals>>

\* remote_beacon_task, decode_remote_beacon: the reading waits for a place in
\* telemetry_queue.  Beacons that are damaged, without a user or the board's
\* own are dropped.
DecodeBeacon ==
  /\ beacons # <<>> /\ "decoder" \notin Sending
  /\ beacons' = Tail(beacons)
  /\ \E r \in {Head(beacons), NoReading} : sender' = [sender EXCEPT !["decoder"] = r]
  /\ UNCHANGED <<upstream, session, made, hardware, readings, publisher, taken,
                published, outages, refusals>>

\* As if the report waited for the hardware.
WaitsForHardware == FALSE

\* A report that does not get the hardware goes out with no voltage.
WithoutVoltage == /\ sender' = [sender EXCEPT !["gateway"] = "gateway"]
                  /\ UNCHANGED hardware

\* read_battery_millivolts: the mutex is tried, not waited for.
StartReport ==
  /\ "gateway" \notin Sending /\ hardware # "gateway"
  /\ Made("gateway")
  /\ IF hardware = "free"
     THEN hardware' = "gateway" /\ UNCHANGED sender
     ELSE WithoutVoltage
  /\ UNCHANGED <<upstream, session, beacons, readings, publisher, taken, published,
                outages, refusals>>

MeasureBattery ==
  /\ hardware = "gateway"
  /\ hardware' = "free"
  /\ sender' = [sender EXCEPT !["gateway"] = "gateway"]
  /\ UNCHANGED <<upstream, session, made, beacons, readings, publisher, taken,
                published, outages, refusals>>

\* execute_script waits for the mutex and gives it back before the readings
\* are handed over (enqueue_script_telemetry).
StartScript ==
  /\ hardware = "free" /\ "script" \notin Sending
  /\ made["script"] < MaxReadings
  /\ hardware' = "script"
  /\ UNCHANGED <<upstream, session, made, beacons, sender, readings, publisher,
                taken, published, outages, refusals>>

EndScript ==
  /\ hardware = "script"
  /\ hardware' = "free"
  /\ Made("script")
  /\ \E r \in {"script", NoReading} : sender' = [sender EXCEPT !["script"] = r]
  /\ UNCHANGED <<upstream, session, beacons, readings, publisher, taken, published,
                outages, refusals>>

\* As if telemetry_queue had no end.
AlwaysRoom == TRUE

\* telemetry_queue has a place.
RoomForReading == Len(readings) < ReadingDepth

\* xQueueSend(telemetry_queue, ..., 100 ms): a full queue drops the new reading.
Enqueue(p) ==
  /\ p \in Sending
  /\ readings' = IF RoomForReading THEN Append(readings, sender[p]) ELSE readings
  /\ sender' = [sender EXCEPT ![p] = NoReading]
  /\ UNCHANGED <<upstream, session, made, beacons, hardware, publisher, taken,
                published, outages, refusals>>

\* ---------------------------------------------------------------- publisher

\* As if readings were taken whether there is a session or not.
RoundWithoutSession == publisher' = Publishing("receive", NoReading)

\* The publisher waits for its bit before it takes a reading.
NextRound == publisher' = Publishing(IF session THEN "receive" ELSE "wait", NoReading)

\* MQTT_EVENT_CONNECTED, or halow_ready on a leaf: setting the bit releases
\* the publisher.
Connected ==
  /\ ~session
  /\ session' = TRUE
  /\ publisher' = IF publisher.at = "wait" THEN Publishing("receive", NoReading)
                  ELSE publisher
  /\ UNCHANGED <<upstream, made, beacons, sender, hardware, readings, taken,
                published, outages, refusals>>

\* MQTT_EVENT_DISCONNECTED; nothing clears kNetworkConnected.
Disconnected ==
  /\ upstream /\ session /\ outages < MaxOutages
  /\ session' = FALSE /\ outages' = outages + 1
  /\ UNCHANGED <<upstream, made, beacons, sender, hardware, readings, publisher,
                taken, published, refusals>>

TakeReading ==
  /\ publisher.at = "receive" /\ readings # <<>>
  /\ readings' = Tail(readings) /\ taken' = taken + 1
  /\ publisher' = Publishing("check", Head(readings))
  /\ UNCHANGED <<upstream, session, made, beacons, sender, hardware, published,
                outages, refusals>>

\* A reading taken while the session is down is dropped.
CheckSession ==
  /\ publisher.at = "check"
  /\ IF session THEN publisher' = [publisher EXCEPT !.at = "status"] ELSE NextRound
  /\ UNCHANGED <<upstream, session, made, beacons, sender, hardware, readings, taken,
                published, outages, refusals>>

\* No memory for the batches: 1 s, and the reading is lost.
NoBatches ==
  /\ publisher.at = "status" /\ refusals < MaxRefusals
  /\ refusals' = refusals + 1
  /\ publisher' = Publishing("pause", NoReading)
  /\ UNCHANGED <<upstream, session, made, beacons, sender, hardware, readings, taken,
                published, outages>>

\* The system report goes first, then the sensors, each if there is a session;
\* half a reading is not whole.  failed: message_id < 0.
PublishStatus ==
  /\ publisher.at = "status"
  /\ \/ /\ session
        /\ publisher' = [publisher EXCEPT !.at = "sensors"]
        /\ UNCHANGED refusals
     \/ /\ session /\ refusals < MaxRefusals
        /\ refusals' = refusals + 1
        /\ publisher' = [publisher EXCEPT !.at = "failed"]
     \/ /\ ~session
        /\ publisher' = [publisher EXCEPT !.at = "failed"]
        /\ UNCHANGED refusals
  /\ UNCHANGED <<upstream, session, made, beacons, sender, hardware, readings, taken,
                published, outages>>

\* A publish that fails is followed by a pause; sensors that there is no memory
\* to print are left out without one.
PublishSensors ==
  /\ publisher.at \in {"sensors", "failed"}
  /\ \/ /\ session /\ publisher.at = "sensors"
        /\ published' = published + 1
        /\ NextRound /\ UNCHANGED refusals
     \/ /\ session /\ refusals < MaxRefusals
        /\ refusals' = refusals + 1
        /\ \/ publisher' = Publishing("pause", NoReading)
           \/ publisher.at = "sensors" /\ NextRound
        /\ UNCHANGED published
     \/ /\ publisher.at = "failed"
        /\ publisher' = Publishing("pause", NoReading)
        /\ UNCHANGED <<published, refusals>>
     \/ /\ ~session /\ publisher.at = "sensors"
        /\ NextRound /\ UNCHANGED <<published, refusals>>
  /\ UNCHANGED <<upstream, session, made, beacons, sender, hardware, readings, taken,
                outages>>

\* vTaskDelay(1000) after a publish that failed.
Resume ==
  /\ publisher.at = "pause"
  /\ NextRound
  /\ UNCHANGED <<upstream, session, made, beacons, sender, hardware, readings, taken,
                published, outages, refusals>>

\* ------------------------------------------------------------ specification

Publisher == TakeReading \/ CheckSession \/ PublishStatus \/ PublishSensors \/ Resume

TelemetryNext ==
  \/ HearBeacon \/ DecodeBeacon \/ StartReport \/ MeasureBattery
  \/ StartScript \/ EndScript
  \/ \E p \in Producers : Enqueue(p)
  \/ Connected \/ Disconnected
  \/ TakeReading \/ CheckSession \/ NoBatches \/ PublishStatus \/ PublishSensors
  \/ Resume

\* The tasks run, the gateway task every 30 s, and esp-mqtt connects again.
\* Neither beacons nor the end of a script can be relied on.
TelemetryFairness ==
  /\ WF_telemetryVars(DecodeBeacon) /\ WF_telemetryVars(StartReport)
  /\ WF_telemetryVars(MeasureBattery)
  /\ \A p \in Producers : WF_telemetryVars(Enqueue(p))
  /\ WF_telemetryVars(Connected)
  /\ WF_telemetryVars(Publisher)

TelemetrySpec == TelemetryInit /\ [][TelemetryNext]_telemetryVars
FairTelemetry == TelemetrySpec /\ TelemetryFairness

\* --------------------------------------------------------------- properties

TelemetryTypeOK ==
  /\ upstream \in BOOLEAN /\ session \in BOOLEAN
  /\ made \in [Producers -> 0..MaxReadings]
  /\ beacons \in Seq({"decoder"}) /\ Len(beacons) <= BeaconDepth
  /\ sender \in [Producers -> Producers \cup {NoReading}]
  /\ hardware \in {"free", "gateway", "script"}
  /\ readings \in Seq(Producers) /\ Len(readings) <= ReadingDepth
  /\ publisher \in [at : {"wait", "receive", "check", "status", "sensors", "failed", "pause"},
                    reading : Producers \cup {NoReading}]
  /\ taken \in Nat /\ published \in Nat
  /\ outages \in 0..MaxOutages /\ refusals \in 0..MaxRefusals

InHand == IF publisher.reading = NoReading THEN 0 ELSE 1

\* What leaves telemetry_queue is published, except one reading for each lost
\* session and each publish that fails: during an outage the publisher takes no
\* more than the reading it waited for, the others wait in the queue.
OutageLosesOne == taken <= published + InHand + outages + refusals

\* The board reports itself every 30 s and is heard even if a script never
\* gives the hardware back, and on a leaf, which has no session, too: every
\* report is made, and leaves the board or meets a full queue.
NoGatewayReading ==
  /\ "gateway" \notin Sending /\ hardware # "gateway"
  /\ publisher.reading # "gateway"
  /\ \A i \in DOMAIN readings : readings[i] # "gateway"
GatewayIsHeard == <>(made["gateway"] = MaxReadings /\ NoGatewayReading)
=============================================================================
