------------------------------- MODULE NrfSensors ------------------------------
(***************************************************************************)
(* The sensors of the nRF54 node and the beacon that carries them          *)
(* (edgez_gps.c, edgez_imu.c, edgez_battery.c, edgez_config.c, main.c).    *)
(* The main loop starts the IMU after the first beacon and the GPS after   *)
(* the IMU, stops the GPS when the settings say so, parses fixes, and      *)
(* builds the beacon's IE anew; the connect thread builds one before the   *)
(* radio starts.  The work queue samples the IMU between transmissions and *)
(* gives up when it keeps failing.  Only the builder waits while the       *)
(* battery's divider is switched, so that it takes several steps.          *)
(***************************************************************************)
EXTENDS Naturals

CONSTANTS
  FixMaxAge,       \* GPS_FIX_MAX_AGE_MS in units of time of the model
  FixInterval,     \* GPS_FIX_PUBLISH_INTERVAL_MS
  SampleFailures   \* EDGEZ_IMU_REINIT_FAILURE_LIMIT

ASSUME SensorsAssumption ==
  /\ FixMaxAge \in Nat /\ FixInterval \in Nat
  /\ SampleFailures \in Nat \ {0}

VARIABLES
  wanted,     \* the location to send, by device_gps_enabled and share_location
  configured,    \* edgez_applied_generation # 0
  beaconing,  \* halow_beacon_build_count > 0
  quiet,      \* the last transmission is 100 ms ago
  gps,        \* gps_ready, fix_reported
  fix,        \* latest_fix
  imu,        \* imu_ready, imu_sample_failure_count
  sample,     \* imu_sample_valid, latest_sample
  divider,    \* battery_enable: the divider is on
  battery,    \* cached_mv, last_sample_ms
  building,   \* edgez_config_build_vendor_ies, in the main loop and the thread
  ie          \* beacon_vendor_ies

sensorVars == <<wanted, configured, beaconing, quiet, gps, fix, imu, sample, divider,
                battery, building, ie>>

\* What the properties tell apart: a fix or a sample of the sensor's present run
\* and an old one, a voltage measured with the divider on and a wrong one.
Wants == {"none", "place", "gps"}
Locations == {"none", "place", "fix", "old"}
Voltages == {"none", "right", "wrong"}
Samples == {"none", "new", "old"}
Content == [location : Locations, voltage : Voltages, sample : Samples]
Empty == [location |-> "none", voltage |-> "none", sample |-> "none"]

NoFix == [valid |-> FALSE, age |-> 0, old |-> FALSE]
NoSample == [valid |-> FALSE, old |-> FALSE]
Threads == {"main", "connect"}
NotBuilding == [at |-> "idle", wanted |-> "none", content |-> Empty]
MainFree == building["main"].at = "idle"

SensorsInit ==
  /\ wanted \in Wants
  /\ configured = FALSE /\ beaconing = FALSE /\ quiet = TRUE
  /\ gps = [ready |-> FALSE, reported |-> FALSE]
  /\ fix = NoFix
  /\ imu = [ready |-> FALSE, failures |-> 0]
  /\ sample = NoSample
  /\ divider = FALSE
  /\ battery = [voltage |-> "none", recent |-> FALSE]
  /\ building = [t \in Threads |-> NotBuilding]
  /\ ie = Empty

\* ------------------------------------------------------ settings, radio, time

ChangeSettings ==
  /\ wanted' \in Wants
  /\ UNCHANGED <<configured, beaconing, quiet, gps, fix, imu, sample, divider, battery,
                building, ie>>

\* mmwlan_mesh_beacon_dynamic_ies, on the radio's path.
SendBeacon ==
  /\ configured
  /\ beaconing' = TRUE /\ quiet' = FALSE
  /\ UNCHANGED <<wanted, configured, gps, fix, imu, sample, divider, battery, building, ie>>

TimeGoesBy ==
  /\ quiet' = TRUE
  /\ fix' = [fix EXCEPT !.age = IF @ > FixMaxAge THEN @ ELSE @ + 1]
  /\ \E recent \in {battery.recent, FALSE} : battery' = [battery EXCEPT !.recent = recent]
  /\ UNCHANGED <<wanted, configured, beaconing, gps, imu, sample, divider, building, ie>>

\* --------------------------------------------------------------------- IMU

\* maybe_init_imu_after_halow_start, edgez_imu_init: after a beacon, in a quiet
\* moment; samples taken before are those of an earlier run.
InitImu ==
  /\ MainFree /\ ~imu.ready /\ beaconing /\ quiet
  /\ imu' = [ready |-> TRUE, failures |-> 0]
  /\ sample' = [sample EXCEPT !.old = sample.valid]
  /\ UNCHANGED <<wanted, configured, beaconing, quiet, gps, fix, divider, battery,
                building, ie>>

\* imu_sample_work_handler: a transmission postpones the sample.
TakeSample ==
  /\ imu.ready /\ quiet
  /\ sample' = [valid |-> TRUE, old |-> FALSE]
  /\ imu' = [imu EXCEPT !.failures = 0]
  /\ UNCHANGED <<wanted, configured, beaconing, quiet, gps, fix, divider, battery,
                building, ie>>

\* It fails; after a minute the IMU is left to be initialised again.  The work
\* queue is not preempted by the main loop, which waits 3 s besides.
FailSample ==
  /\ imu.ready /\ quiet
  /\ IF imu.failures + 1 < SampleFailures
     THEN imu' = [imu EXCEPT !.failures = @ + 1] /\ UNCHANGED sample
     ELSE imu' = [ready |-> FALSE, failures |-> SampleFailures] /\ sample' = NoSample
  /\ UNCHANGED <<wanted, configured, beaconing, quiet, gps, fix, divider, battery,
                building, ie>>

\* --------------------------------------------------------------------- GPS

\* maybe_init_gps_after_halow_start: GPS off, edgez_gps_stop.
StopGps ==
  /\ MainFree /\ wanted # "gps"
  /\ gps' = [gps EXCEPT !.ready = FALSE]
  /\ fix' = NoFix
  /\ UNCHANGED <<wanted, configured, beaconing, quiet, imu, sample, divider, battery,
                building, ie>>

\* edgez_gps_init: only after the IMU; uart_rx_enable may fail.  latest_fix stays.
InitGps ==
  /\ MainFree /\ wanted = "gps"
  /\ ~gps.ready /\ imu.ready /\ beaconing
  /\ \E works \in BOOLEAN : gps' = [ready |-> works, reported |-> FALSE]
  /\ fix' = [fix EXCEPT !.old = fix.valid]
  /\ UNCHANGED <<wanted, configured, beaconing, quiet, imu, sample, divider, battery,
                building, ie>>

\* edgez_gps_poll, publish_fix: the first fix at once, then one a minute.
ParseFix ==
  /\ MainFree /\ gps.ready
  /\ ~gps.reported \/ fix.age >= FixInterval
  /\ gps' = [gps EXCEPT !.reported = TRUE]
  /\ fix' = [valid |-> TRUE, age |-> 0, old |-> FALSE]
  /\ UNCHANGED <<wanted, configured, beaconing, quiet, imu, sample, divider, battery,
                building, ie>>

\* ------------------------------------------------------------------- beacon

\* As if the main loop built beacons whatever has been started.
AlwaysBuilds(t) == t = "main" \/ ~configured

\* The main loop (maybe_refresh_edgez_sensor_beacon, and a restart of the radio)
\* builds once something was configured; the connect thread runs before that.
Builds(t) == CASE t = "main" -> configured
               [] t = "connect" -> ~configured

\* edgez_config_build_vendor_ies: the settings are copied.
StartBuild(t) ==
  /\ building[t].at = "idle" /\ Builds(t)
  /\ building' = [building EXCEPT ![t] = [at |-> "location", wanted |-> wanted,
                                          content |-> Empty]]
  /\ UNCHANGED <<wanted, configured, beaconing, quiet, gps, fix, imu, sample, divider,
                battery, ie>>

\* One more entry of the IE that is being built.
Entered(t, next, field, value) ==
  building' = [building EXCEPT ![t].at = next, ![t].content[field] = value]

\* edgez_gps_get_fix, or the place in the settings.
Location(w) ==
  IF w # "gps" THEN w
  ELSE IF ~gps.ready \/ ~fix.valid \/ fix.age > FixMaxAge THEN "none"
  ELSE IF fix.old THEN "old" ELSE "fix"

EnterLocation(t) ==
  /\ building[t].at = "location"
  /\ Entered(t, "battery", "location", Location(building[t].wanted))
  /\ UNCHANGED <<wanted, configured, beaconing, quiet, gps, fix, imu, sample, divider,
                battery, ie>>

\* edgez_battery_read_mv: a recent voltage, or the divider is switched on, the
\* voltage measured, and the divider switched off.
RecentVoltage(t) ==
  /\ building[t].at = "battery" /\ battery.recent
  /\ Entered(t, "sample", "voltage", battery.voltage)
  /\ UNCHANGED <<wanted, configured, beaconing, quiet, gps, fix, imu, sample, divider,
                battery, ie>>

SwitchOn(t) ==
  /\ building[t].at = "battery" /\ ~battery.recent
  /\ divider' = TRUE
  /\ building' = [building EXCEPT ![t].at = "measure"]
  /\ UNCHANGED <<wanted, configured, beaconing, quiet, gps, fix, imu, sample, battery, ie>>

Measure(t) ==
  /\ building[t].at = "measure"
  /\ \E voltage \in {IF divider THEN "right" ELSE "wrong", "none"} :
       Entered(t, "switch off", "voltage", voltage)
  /\ UNCHANGED <<wanted, configured, beaconing, quiet, gps, fix, imu, sample, divider,
                battery, ie>>

SwitchOff(t) ==
  /\ building[t].at = "switch off"
  /\ divider' = FALSE
  /\ battery' = IF building[t].content.voltage = "none" THEN battery
                ELSE [voltage |-> building[t].content.voltage, recent |-> TRUE]
  /\ building' = [building EXCEPT ![t].at = "sample"]
  /\ UNCHANGED <<wanted, configured, beaconing, quiet, gps, fix, imu, sample, ie>>

\* edgez_imu_read.
EnterSample(t) ==
  /\ building[t].at = "sample"
  /\ Entered(t, "store", "sample",
             IF ~imu.ready \/ ~sample.valid THEN "none"
             ELSE IF sample.old THEN "old" ELSE "new")
  /\ UNCHANGED <<wanted, configured, beaconing, quiet, gps, fix, imu, sample, divider,
                battery, ie>>

\* The IE goes to the radio; the connect thread enables it, or fails.
StoreIe(t) ==
  /\ building[t].at = "store"
  /\ ie' = building[t].content
  /\ building' = [building EXCEPT ![t] = NotBuilding]
  /\ \E started \in {configured, configured \/ t = "connect"} : configured' = started
  /\ UNCHANGED <<wanted, beaconing, quiet, gps, fix, imu, sample, divider, battery>>

\* ------------------------------------------------------------ specification

SensorsNext ==
  \/ ChangeSettings \/ SendBeacon \/ TimeGoesBy
  \/ InitImu \/ TakeSample \/ FailSample
  \/ StopGps \/ InitGps \/ ParseFix
  \/ \E t \in Threads :
       \/ StartBuild(t) \/ EnterLocation(t)
       \/ RecentVoltage(t) \/ SwitchOn(t) \/ Measure(t) \/ SwitchOff(t)
       \/ EnterSample(t) \/ StoreIe(t)

SensorsSpec == SensorsInit /\ [][SensorsNext]_sensorVars

\* --------------------------------------------------------------- properties

SensorsTypeOK ==
  /\ wanted \in Wants
  /\ configured \in BOOLEAN /\ beaconing \in BOOLEAN /\ quiet \in BOOLEAN
  /\ gps \in [ready : BOOLEAN, reported : BOOLEAN]
  /\ fix \in [valid : BOOLEAN, age : 0..FixMaxAge + 1, old : BOOLEAN]
  /\ imu \in [ready : BOOLEAN, failures : 0..SampleFailures]
  /\ sample \in [valid : BOOLEAN, old : BOOLEAN]
  /\ divider \in BOOLEAN
  /\ battery \in [voltage : Voltages, recent : BOOLEAN]
  /\ building \in [Threads -> [at : {"idle", "location", "battery", "measure",
                                     "switch off", "sample", "store"},
                               wanted : Wants,
                               content : Content]]
  /\ ie \in Content

\* No IE is built with a fix from before GPS was last turned off, a sample from
\* before the IMU was last given up, or a voltage measured while another thread
\* had switched the divider off: both build in the same way without a lock,
\* and only never at the same time.
BeaconIsRight == ie.location # "old" /\ ie.sample # "old" /\ ie.voltage # "wrong"
=============================================================================
