--------------------------- MODULE NrfSensorsProofs ---------------------------
(***************************************************************************)
(* Proofs about NrfSensors: types, and that no beacon is built with an old *)
(* fix, an old sample or a voltage measured with the divider off, whatever *)
(* the ages and the number of failures that are allowed; and about NrfGps: *)
(* what is parsed of the GPS receiver's stream, whatever the buffers hold; *)
(* and about NrfBle: that a client of the Bluetooth services is served     *)
(* whatever it cuts, and whichever links it loses.                         *)
(***************************************************************************)
EXTENDS NrfSensors, NrfGps, NrfBle, SequenceTheorems, TLAPS

\* Type correctness.
LEMMA InitTypeOK == SensorsInit => SensorsTypeOK
<1> SUFFICES ASSUME SensorsInit PROVE SensorsTypeOK OBVIOUS
<1> USE SensorsAssumption DEF SensorsInit
<1>1. Empty \in Content BY DEF Empty, Content, Locations, Voltages, Samples
<1>2. fix \in [valid : BOOLEAN, age : 0..FixMaxAge + 1, old : BOOLEAN] BY DEF NoFix
<1>3. sample \in [valid : BOOLEAN, old : BOOLEAN] BY DEF NoSample
<1>4. gps \in [ready : BOOLEAN, reported : BOOLEAN]
      /\ imu \in [ready : BOOLEAN, failures : 0..SampleFailures]
  OBVIOUS
<1>5. battery \in [voltage : Voltages, recent : BOOLEAN] BY DEF Voltages
<1>6. building \in [Threads -> [at : {"idle", "location", "battery", "measure",
                                    "switch off", "sample", "store"},
                              wanted : Wants, content : Content]]
  BY <1>1 DEF NotBuilding, Wants
<1> QED BY <1>1, <1>2, <1>3, <1>4, <1>5, <1>6 DEF SensorsTypeOK

LEMMA LocationType == SensorsTypeOK => \A w \in Wants : Location(w) \in Locations
BY DEF Location, Locations, Wants

\* What is entered in an IE has its type.
Steps == {"idle", "location", "battery", "measure", "switch off", "sample", "store"}
LEMMA EnteredTypeOK ==
  ASSUME NEW t \in Threads, NEW after \in Steps, NEW value,
         NEW field \in {"location", "voltage", "sample"},
         building \in [Threads -> [at : Steps, wanted : Wants, content : Content]],
         field = "location" => value \in Locations,
         field = "voltage" => value \in Voltages,
         field = "sample" => value \in Samples,
         Entered(t, after, field, value)
  PROVE  building' \in [Threads -> [at : Steps, wanted : Wants, content : Content]]
<1> DEFINE entered == [building[t].content EXCEPT ![field] = value]
<1>1. building[t].content \in Content OBVIOUS
<1>2. entered \in Content
  <2>1. CASE field = "location" BY <2>1, <1>1 DEF Content
  <2>2. CASE field = "voltage" BY <2>2, <1>1 DEF Content
  <2>3. CASE field = "sample" BY <2>3, <1>1 DEF Content
  <2> QED BY <2>1, <2>2, <2>3
<1>3. building' = [building EXCEPT ![t] = [building[t] EXCEPT !.at = after, !.content = entered]]
  BY DEF Entered
<1> HIDE DEF entered
<1> QED BY <1>2, <1>3

LEMMA TypeStep == SensorsTypeOK /\ [SensorsNext]_sensorVars => SensorsTypeOK'
<1> SUFFICES ASSUME SensorsTypeOK, [SensorsNext]_sensorVars PROVE SensorsTypeOK'
  OBVIOUS
<1> USE SensorsAssumption
<1> DEFINE Gps == [ready : BOOLEAN, reported : BOOLEAN]
           Fix == [valid : BOOLEAN, age : 0..FixMaxAge + 1, old : BOOLEAN]
           Imu == [ready : BOOLEAN, failures : 0..SampleFailures]
           Sample == [valid : BOOLEAN, old : BOOLEAN]
           Battery == [voltage : Voltages, recent : BOOLEAN]
           Building == [Threads -> [at : Steps, wanted : Wants, content : Content]]
<1>t. /\ wanted \in Wants
      /\ configured \in BOOLEAN /\ beaconing \in BOOLEAN /\ quiet \in BOOLEAN
      /\ gps \in Gps /\ fix \in Fix /\ imu \in Imu /\ sample \in Sample
      /\ divider \in BOOLEAN /\ battery \in Battery
      /\ building \in Building /\ ie \in Content
  BY DEF SensorsTypeOK, Steps
<1>u. ASSUME wanted' \in Wants,
             configured' \in BOOLEAN, beaconing' \in BOOLEAN, quiet' \in BOOLEAN,
             gps' \in Gps, fix' \in Fix, imu' \in Imu, sample' \in Sample,
             divider' \in BOOLEAN, battery' \in Battery,
             building' \in Building, ie' \in Content
      PROVE  SensorsTypeOK'
  BY <1>u DEF SensorsTypeOK, Steps
<1>a. ASSUME UNCHANGED <<wanted, configured, beaconing, quiet, gps, fix, imu, sample, divider,
                         battery, ie>>,
             building' \in Building
      PROVE  SensorsTypeOK'
  BY <1>a, <1>t, <1>u
<1>1. CASE ChangeSettings BY <1>1, <1>t, <1>u DEF ChangeSettings
<1>2. CASE SendBeacon BY <1>2, <1>t, <1>u DEF SendBeacon
<1>3. CASE TimeGoesBy
  <2>1. fix' \in Fix BY <1>3, <1>t DEF TimeGoesBy
  <2>2. battery' \in Battery BY <1>3, <1>t DEF TimeGoesBy
  <2> QED BY <1>3, <2>1, <2>2, <1>t, <1>u DEF TimeGoesBy
<1>4. CASE InitImu
  <2>1. imu' \in Imu BY <1>4 DEF InitImu
  <2>2. sample' \in Sample BY <1>4, <1>t DEF InitImu
  <2> QED BY <1>4, <2>1, <2>2, <1>t, <1>u DEF InitImu
<1>5. CASE TakeSample
  <2>1. imu' \in Imu BY <1>5, <1>t DEF TakeSample
  <2>2. sample' \in Sample BY <1>5 DEF TakeSample
  <2> QED BY <1>5, <2>1, <2>2, <1>t, <1>u DEF TakeSample
<1>6. CASE FailSample
  <2>1. imu' \in Imu /\ sample' \in Sample
    <3>1. NoSample \in Sample BY DEF NoSample
    <3>2. CASE imu.failures + 1 < SampleFailures
      <4>1. imu' = [imu EXCEPT !.failures = imu.failures + 1] /\ sample' = sample
        BY <1>6, <3>2 DEF FailSample
      <4> QED BY <3>2, <4>1, <1>t
    <3>3. CASE ~(imu.failures + 1 < SampleFailures)
      <4>1. imu' = [ready |-> FALSE, failures |-> SampleFailures] /\ sample' = NoSample
        BY <1>6, <3>3 DEF FailSample
      <4> QED BY <3>1, <4>1
    <3> QED BY <3>2, <3>3
  <2> QED BY <1>6, <2>1, <1>t, <1>u DEF FailSample
<1>7. CASE StopGps
  <2>1. gps' \in Gps BY <1>7, <1>t DEF StopGps
  <2>2. fix' \in Fix BY <1>7 DEF StopGps, NoFix
  <2> QED BY <1>7, <2>1, <2>2, <1>t, <1>u DEF StopGps
<1>8. CASE InitGps
  <2>1. gps' \in Gps BY <1>8 DEF InitGps
  <2>2. fix' \in Fix BY <1>8, <1>t DEF InitGps
  <2> QED BY <1>8, <2>1, <2>2, <1>t, <1>u DEF InitGps
<1>9. CASE ParseFix
  <2>1. gps' \in Gps BY <1>9, <1>t DEF ParseFix
  <2>2. fix' \in Fix BY <1>9 DEF ParseFix
  <2> QED BY <1>9, <2>1, <2>2, <1>t, <1>u DEF ParseFix
<1>e. Empty \in Content BY DEF Empty, Content, Locations, Voltages, Samples
<1>10. ASSUME NEW t \in Threads, StartBuild(t) PROVE SensorsTypeOK'
  <2>1. building' \in Building BY <1>10, <1>t, <1>e DEF StartBuild, Steps
  <2> QED BY <1>10, <2>1, <1>a DEF StartBuild
<1>11. ASSUME NEW t \in Threads, EnterLocation(t) PROVE SensorsTypeOK'
  <2>1. Location(building[t].wanted) \in Locations BY <1>t, LocationType
  <2> QED BY <1>11, <2>1, <1>t, <1>a, EnteredTypeOK DEF EnterLocation, Steps
<1>12. ASSUME NEW t \in Threads, RecentVoltage(t) PROVE SensorsTypeOK'
  BY <1>12, <1>t, <1>a, EnteredTypeOK DEF RecentVoltage, Steps
<1>13. ASSUME NEW t \in Threads, SwitchOn(t) PROVE SensorsTypeOK'
  <2>1. building' \in Building BY <1>13, <1>t DEF SwitchOn, Steps
  <2> QED BY <1>13, <2>1, <1>t, <1>u DEF SwitchOn
<1>14. ASSUME NEW t \in Threads, Measure(t) PROVE SensorsTypeOK'
  <2>1. PICK voltage \in Voltages : Entered(t, "switch off", "voltage", voltage)
    BY <1>14 DEF Measure, Voltages
  <2> QED BY <1>14, <2>1, <1>t, <1>a, EnteredTypeOK DEF Measure, Steps
<1>15. ASSUME NEW t \in Threads, SwitchOff(t) PROVE SensorsTypeOK'
  <2>1. building' \in Building BY <1>15, <1>t DEF SwitchOff, Steps
  <2>2. battery' \in Battery BY <1>15, <1>t DEF SwitchOff, Content
  <2> QED BY <1>15, <2>1, <2>2, <1>t, <1>u DEF SwitchOff
<1>16. ASSUME NEW t \in Threads, EnterSample(t) PROVE SensorsTypeOK'
  <2>1. PICK taken \in Samples : Entered(t, "store", "sample", taken)
    BY <1>16 DEF EnterSample, Samples
  <2> QED BY <1>16, <2>1, <1>t, <1>a, EnteredTypeOK DEF EnterSample, Steps
<1>17. ASSUME NEW t \in Threads, StoreIe(t) PROVE SensorsTypeOK'
  <2>1. building' \in Building BY <1>17, <1>t, <1>e DEF StoreIe, NotBuilding, Steps, Wants
  <2>2. ie' \in Content BY <1>17, <1>t DEF StoreIe
  <2>3. configured' \in BOOLEAN BY <1>17, <1>t DEF StoreIe
  <2> QED BY <1>17, <2>1, <2>2, <2>3, <1>t, <1>u DEF StoreIe
<1>18. CASE UNCHANGED sensorVars BY <1>18, <1>t, <1>u DEF sensorVars
<1> QED
  BY <1>1, <1>2, <1>3, <1>4, <1>5, <1>6, <1>7, <1>8, <1>9, <1>10, <1>11, <1>12, <1>13,
     <1>14, <1>15, <1>16, <1>17, <1>18 DEF SensorsNext

\* Every variable of the sensors keeps its type.
THEOREM SensorsTypeCorrect == SensorsSpec => []SensorsTypeOK
<1>1. SensorsInit => SensorsTypeOK BY InitTypeOK
<1>2. SensorsTypeOK /\ [SensorsNext]_sensorVars => SensorsTypeOK' BY TypeStep
<1> QED BY <1>1, <1>2, PTL DEF SensorsSpec

\* What is kept of a sensor is of its present run: a sensor that is off has
\* left nothing behind.
NothingOld ==
  /\ ~fix.old /\ (~gps.ready => ~fix.valid)
  /\ ~sample.old /\ (~imu.ready => ~sample.valid)

\* The connect thread builds before anything was configured, the main loop after:
\* so the divider is on for the one that measures, and what is being built is
\* right.
Turns ==
  /\ building["connect"].at # "idle" => ~configured
  /\ building["main"].at # "idle" => configured
Right(content) ==
  content.location # "old" /\ content.sample # "old" /\ content.voltage # "wrong"
BuiltRight ==
  /\ \A t \in Threads : /\ building[t].at = "measure" => divider
                        /\ Right(building[t].content)
  /\ battery.voltage # "wrong"
  /\ Right(ie)

SensorsInv == SensorsTypeOK /\ NothingOld /\ Turns /\ BuiltRight

LEMMA SensorsInvInit == SensorsInit => SensorsInv
<1> SUFFICES ASSUME SensorsInit PROVE SensorsInv OBVIOUS
<1>1. SensorsTypeOK BY InitTypeOK
<1>2. NothingOld BY DEF SensorsInit, NothingOld, NoFix, NoSample
<1>3. Turns BY DEF SensorsInit, Turns, NotBuilding, Threads
<1>4. BuiltRight BY DEF SensorsInit, BuiltRight, Right, NotBuilding, Empty, Threads
<1> QED BY <1>1, <1>2, <1>3, <1>4 DEF SensorsInv

LEMMA NothingOldStep == SensorsInv /\ [SensorsNext]_sensorVars => NothingOld'
<1> SUFFICES ASSUME SensorsInv, [SensorsNext]_sensorVars PROVE NothingOld'
  OBVIOUS
<1> USE SensorsAssumption DEF SensorsInv, SensorsTypeOK, NothingOld
<1>1. CASE TimeGoesBy BY <1>1 DEF TimeGoesBy
<1>2. CASE InitImu BY <1>2 DEF InitImu
<1>3. CASE TakeSample BY <1>3 DEF TakeSample
<1>4. CASE FailSample
  <2>1. CASE imu.failures + 1 < SampleFailures
    <3>1. imu'.ready = imu.ready BY <1>4, <2>1 DEF FailSample
    <3> QED BY <1>4, <2>1, <3>1 DEF FailSample
  <2>2. CASE ~(imu.failures + 1 < SampleFailures)
    <3>1. imu' = [ready |-> FALSE, failures |-> SampleFailures] /\ sample' = NoSample
          /\ gps' = gps /\ fix' = fix
      BY <1>4, <2>2 DEF FailSample
    <3>2. ~NoSample.valid /\ ~NoSample.old BY DEF NoSample
    <3>3. NothingOld OBVIOUS
    <3> QED BY <3>1, <3>2, <3>3
  <2> QED BY <2>1, <2>2
<1>5. CASE StopGps BY <1>5 DEF StopGps, NoFix
<1>6. CASE InitGps BY <1>6 DEF InitGps
<1>7. CASE ParseFix BY <1>7 DEF ParseFix
<1>8. CASE UNCHANGED <<gps, fix, imu, sample>> BY <1>8
<1>9. ASSUME NEW t \in Threads,
             \/ StartBuild(t) \/ EnterLocation(t) \/ RecentVoltage(t) \/ SwitchOn(t)
             \/ Measure(t) \/ SwitchOff(t) \/ EnterSample(t) \/ StoreIe(t)
      PROVE  NothingOld'
  BY <1>9, <1>8 DEF StartBuild, EnterLocation, RecentVoltage, SwitchOn, Measure,
                    SwitchOff, EnterSample, StoreIe
<1> QED
  BY <1>1, <1>2, <1>3, <1>4, <1>5, <1>6, <1>7, <1>8, <1>9
     DEF SensorsNext, ChangeSettings, SendBeacon, sensorVars

\* A right value entered in an IE that is right so far.
LEMMA EnteredRight ==
  ASSUME SensorsTypeOK, NEW t \in Threads, NEW after, NEW value,
         NEW field \in {"location", "voltage", "sample"},
         Entered(t, after, field, value), Right(building[t].content),
         value # (IF field = "voltage" THEN "wrong" ELSE "old")
  PROVE  /\ building'[t].at = after /\ Right(building'[t].content)
         /\ \A o \in Threads \ {t} : building'[o] = building[o]
<1> DEFINE entered == [building[t].content EXCEPT ![field] = value]
<1>1. building[t].content \in Content BY DEF SensorsTypeOK
<1>2. building' = [building EXCEPT ![t] = [building[t] EXCEPT !.at = after, !.content = entered]]
  BY DEF Entered
<1>3. Right(entered)
  <2>1. CASE field = "location" BY <2>1, <1>1 DEF Right, Content
  <2>2. CASE field = "voltage" BY <2>2, <1>1 DEF Right, Content
  <2>3. CASE field = "sample" BY <2>3, <1>1 DEF Right, Content
  <2> QED BY <2>1, <2>2, <2>3
<1> HIDE DEF entered
<1> QED BY <1>2, <1>3 DEF SensorsTypeOK

\* Only a thread's own steps change what it is building.
LEMMA BuildStep ==
  ASSUME SensorsInv, NEW t \in Threads,
         \/ StartBuild(t) \/ EnterLocation(t) \/ RecentVoltage(t) \/ SwitchOn(t)
         \/ Measure(t) \/ SwitchOff(t) \/ EnterSample(t) \/ StoreIe(t)
  PROVE  Turns' /\ BuiltRight'
<1> USE DEF SensorsInv
<1>a. t \in {"main", "connect"} BY DEF Threads
<1>b. Right(building[t].content) BY DEF BuiltRight
<1>c. ASSUME building'[t].at \notin {"idle", "measure"}, building[t].at # "idle",
             Right(building'[t].content),
             \A o \in Threads \ {t} : building'[o] = building[o] /\ building'[o].at # "measure",
             UNCHANGED <<configured, ie>>, battery'.voltage # "wrong"
      PROVE  Turns' /\ BuiltRight'
  BY <1>a, <1>c DEF Turns, BuiltRight, Right, Threads
<1>d. building[t].at # "idle" => \A o \in Threads \ {t} : building[o].at = "idle"
  BY <1>a DEF Turns, Threads
<1>1. CASE StartBuild(t)
  BY <1>1, <1>a DEF StartBuild, Builds, Empty, SensorsTypeOK, Turns, BuiltRight, Right, Threads
<1>2. CASE EnterLocation(t)
  <2>1. Location(building[t].wanted) # "old"
    BY DEF NothingOld, Location, Wants, SensorsTypeOK
  <2>2. Entered(t, "battery", "location", Location(building[t].wanted))
    BY <1>2 DEF EnterLocation
  <2>3. building'[t].at = "battery" /\ Right(building'[t].content)
        /\ \A o \in Threads \ {t} : building'[o] = building[o]
    BY <2>1, <2>2, <1>b, EnteredRight
  <2> QED BY <1>2, <2>3, <1>c, <1>d DEF EnterLocation, BuiltRight
<1>3. CASE RecentVoltage(t)
  <2>1. battery.voltage # "wrong" /\ Entered(t, "sample", "voltage", battery.voltage)
    BY <1>3 DEF RecentVoltage, BuiltRight
  <2>2. building'[t].at = "sample" /\ Right(building'[t].content)
        /\ \A o \in Threads \ {t} : building'[o] = building[o]
    BY <2>1, <1>b, EnteredRight
  <2> QED BY <1>3, <2>1, <2>2, <1>c, <1>d DEF RecentVoltage
<1>4. CASE SwitchOn(t)
  BY <1>4, <1>a DEF SwitchOn, SensorsTypeOK, Turns, BuiltRight, Right, Threads
<1>5. CASE Measure(t)
  <2>1. PICK voltage : voltage # "wrong" /\ Entered(t, "switch off", "voltage", voltage)
    BY <1>5 DEF Measure, BuiltRight
  <2>2. building'[t].at = "switch off" /\ Right(building'[t].content)
        /\ \A o \in Threads \ {t} : building'[o] = building[o]
    BY <2>1, <1>b, EnteredRight
  <2> QED BY <1>5, <2>2, <1>c, <1>d DEF Measure, BuiltRight
<1>6. CASE SwitchOff(t)
  <2>1. building'[t].at = "sample" /\ building'[t].content = building[t].content
        /\ \A o \in Threads \ {t} : building'[o] = building[o]
    BY <1>6 DEF SwitchOff, SensorsTypeOK
  <2>2. battery'.voltage # "wrong" BY <1>6, <1>b DEF SwitchOff, BuiltRight, Right
  <2> QED BY <1>6, <2>1, <2>2, <1>b, <1>c, <1>d DEF SwitchOff
<1>7. CASE EnterSample(t)
  <2>1. PICK taken : taken # "old" /\ Entered(t, "store", "sample", taken)
    BY <1>7 DEF EnterSample, NothingOld
  <2>2. building'[t].at = "store" /\ Right(building'[t].content)
        /\ \A o \in Threads \ {t} : building'[o] = building[o]
    BY <2>1, <1>b, EnteredRight
  <2> QED BY <1>7, <2>2, <1>c, <1>d DEF EnterSample, BuiltRight
<1>8. CASE StoreIe(t)
  BY <1>8, <1>a DEF StoreIe, NotBuilding, Empty, SensorsTypeOK, Turns, BuiltRight, Right, Threads
<1> QED BY <1>1, <1>2, <1>3, <1>4, <1>5, <1>6, <1>7, <1>8

LEMMA InvStep == SensorsInv /\ [SensorsNext]_sensorVars => SensorsInv'
<1> SUFFICES ASSUME SensorsInv, [SensorsNext]_sensorVars PROVE SensorsInv'
  OBVIOUS
<1>1. SensorsTypeOK' BY TypeStep DEF SensorsInv
<1>2. NothingOld' BY NothingOldStep
<1>3. Turns' /\ BuiltRight'
  <2>1. CASE UNCHANGED <<building, configured, divider, ie>> /\ battery'.voltage = battery.voltage
    BY <2>1 DEF SensorsInv, Turns, BuiltRight, Right
  <2>2. CASE TimeGoesBy
    BY <2>2, <2>1 DEF TimeGoesBy, SensorsInv, SensorsTypeOK
  <2>3. CASE \/ ChangeSettings \/ SendBeacon \/ InitImu \/ TakeSample \/ FailSample
             \/ StopGps \/ InitGps \/ ParseFix \/ UNCHANGED sensorVars
    BY <2>3, <2>1 DEF ChangeSettings, SendBeacon, InitImu, TakeSample, FailSample,
                      StopGps, InitGps, ParseFix, sensorVars
  <2> QED BY <2>2, <2>3, BuildStep DEF SensorsNext
<1> QED BY <1>1, <1>2, <1>3 DEF SensorsInv

\* No beacon carries a fix or a sample of an earlier run of its sensor, or a
\* voltage measured with the divider off.
THEOREM BeaconIsRightHolds == SensorsSpec => []BeaconIsRight
<1>1. SensorsInit => SensorsInv BY SensorsInvInit
<1>2. SensorsInv /\ [SensorsNext]_sensorVars => SensorsInv' BY InvStep
<1>3. SensorsInv => BeaconIsRight BY DEF SensorsInv, BuiltRight, Right, BeaconIsRight
<1> QED BY <1>1, <1>2, <1>3, PTL DEF SensorsSpec

\* --------------------------------------------------------- the GPS stream

\* What is in a sequence of units, after what the model does with sequences.
LEMMA InSequences ==
  ASSUME NEW s \in Seq(Unit)
  PROVE  /\ In(s) \subseteq Unit
         /\ \A u \in Unit : In(Append(s, u)) = In(s) \cup {u}
         /\ \A t \in Seq(Unit) : In(s \o t) = In(s) \cup In(t)
         /\ s # <<>> => In(s) = {Head(s)} \cup In(Tail(s))
<1>1. In(s) \subseteq Unit BY DEF In
<1>2. ASSUME NEW u \in Unit PROVE In(Append(s, u)) = In(s) \cup {u}
  <2>1. /\ Append(s, u) \in Seq(Unit) /\ Len(Append(s, u)) = Len(s) + 1
        /\ \A i \in 1..Len(s) : Append(s, u)[i] = s[i]
        /\ Append(s, u)[Len(s) + 1] = u
    BY AppendProperties
  <2> QED BY <2>1 DEF In
<1>3. ASSUME NEW t \in Seq(Unit) PROVE In(s \o t) = In(s) \cup In(t)
  <2>1. /\ s \o t \in Seq(Unit) /\ Len(s \o t) = Len(s) + Len(t)
        /\ \A i \in 1 .. Len(s) + Len(t) :
             (s \o t)[i] = IF i <= Len(s) THEN s[i] ELSE t[i - Len(s)]
    BY ConcatProperties, Zenon
  <2>2. In(s \o t) \subseteq In(s) \cup In(t) BY <2>1 DEF In
  <2>3. In(s) \subseteq In(s \o t) BY <2>1 DEF In
  <2>4. ASSUME NEW u \in In(t) PROVE u \in In(s \o t)
    <3>1. PICK i \in 1..Len(t) : u = t[i] BY DEF In
    <3>2. /\ Len(s) + i \in 1 .. Len(s) + Len(t) /\ ~(Len(s) + i <= Len(s))
          /\ (Len(s) + i) - Len(s) = i
      OBVIOUS
    <3>3. (s \o t)[Len(s) + i] = t[i] BY <2>1, <3>2
    <3>4. Len(s) + i \in DOMAIN (s \o t) BY <2>1, <3>2
    <3> QED BY <3>1, <3>3, <3>4 DEF In
  <2> QED BY <2>2, <2>3, <2>4
<1>4. ASSUME s # <<>> PROVE In(s) = {Head(s)} \cup In(Tail(s))
  <2>1. /\ Tail(s) \in Seq(Unit) /\ Len(Tail(s)) = Len(s) - 1
        /\ \A i \in 1..Len(Tail(s)) : Tail(s)[i] = s[i + 1]
    BY <1>4, HeadTailProperties
  <2>2. Head(s) = s[1] /\ Len(s) >= 1 BY <1>4
  <2>3. ASSUME NEW u \in In(s) PROVE u \in {Head(s)} \cup In(Tail(s))
    <3>1. PICK i \in 1..Len(s) : u = s[i] BY DEF In
    <3>2. CASE i = 1 BY <3>1, <3>2, <2>2
    <3>3. CASE i # 1
      <4>1. i - 1 \in 1..Len(Tail(s)) /\ (i - 1) + 1 = i BY <3>3, <2>1
      <4>2. Tail(s)[i - 1] = u BY <4>1, <2>1, <3>1
      <4>3. i - 1 \in DOMAIN Tail(s) BY <4>1, <2>1
      <4>4. u \in In(Tail(s)) BY <4>2, <4>3 DEF In
      <4> QED BY <4>4
    <3> QED BY <3>2, <3>3
  <2>4. In(Tail(s)) \subseteq In(s) BY <2>1 DEF In
  <2> QED BY <2>2, <2>3, <2>4 DEF In
<1> QED BY <1>1, <1>2, <1>3, <1>4

\* A buffer of which the ring takes the first units and the others are lost.
LEMMA Parts ==
  ASSUME NEW s \in Seq(Unit), NEW fits \in 0..Len(s)
  PROVE  /\ SubSeq(s, 1, fits) \in Seq(Unit) /\ Len(SubSeq(s, 1, fits)) = fits
         /\ SubSeq(s, fits + 1, Len(s)) \in Seq(Unit)
         /\ \A i \in 1..fits : SubSeq(s, 1, fits)[i] = s[i]
         /\ In(s) = In(SubSeq(s, 1, fits)) \cup In(SubSeq(s, fits + 1, Len(s)))
<1>1. \A i \in 1..fits : s[i] \in Unit OBVIOUS
<1>2. /\ SubSeq(s, 1, fits) \in Seq(Unit)
      /\ Len(SubSeq(s, 1, fits)) = IF 1 <= fits THEN fits - 1 + 1 ELSE 0
      /\ \A i \in 1 .. fits - 1 + 1 : SubSeq(s, 1, fits)[i] = s[1 + i - 1]
  BY <1>1, SubSeqProperties
<1>3. \A i \in fits + 1 .. Len(s) : s[i] \in Unit OBVIOUS
<1>4. /\ SubSeq(s, fits + 1, Len(s)) \in Seq(Unit)
      /\ Len(SubSeq(s, fits + 1, Len(s))) =
           IF fits + 1 <= Len(s) THEN Len(s) - (fits + 1) + 1 ELSE 0
      /\ \A i \in 1 .. Len(s) - (fits + 1) + 1 :
           SubSeq(s, fits + 1, Len(s))[i] = s[(fits + 1) + i - 1]
  BY <1>3, SubSeqProperties
<1>5. Len(SubSeq(s, 1, fits)) = fits /\ \A i \in 1..fits : SubSeq(s, 1, fits)[i] = s[i]
  BY <1>2
<1>6. /\ Len(SubSeq(s, fits + 1, Len(s))) = Len(s) - fits
      /\ \A i \in 1 .. Len(s) - fits : SubSeq(s, fits + 1, Len(s))[i] = s[fits + i]
  BY <1>4
<1>7. ASSUME NEW u \in In(s)
      PROVE  u \in In(SubSeq(s, 1, fits)) \cup In(SubSeq(s, fits + 1, Len(s)))
  <2>1. PICK i \in 1..Len(s) : u = s[i] BY DEF In
  <2>2. CASE i <= fits
    <3>1. i \in DOMAIN SubSeq(s, 1, fits) /\ SubSeq(s, 1, fits)[i] = u
      BY <2>1, <2>2, <1>2, <1>5
    <3> QED BY <3>1 DEF In
  <2>3. CASE ~(i <= fits)
    <3>1. i - fits \in 1 .. Len(s) - fits /\ fits + (i - fits) = i BY <2>3
    <3>2. SubSeq(s, fits + 1, Len(s))[i - fits] = u BY <3>1, <2>1, <1>6
    <3>3. i - fits \in DOMAIN SubSeq(s, fits + 1, Len(s)) BY <3>1, <1>4, <1>6
    <3> QED BY <3>2, <3>3 DEF In
  <2> QED BY <2>2, <2>3
<1>8. In(SubSeq(s, 1, fits)) \subseteq In(s) BY <1>2, <1>5 DEF In
<1>9. In(SubSeq(s, fits + 1, Len(s))) \subseteq In(s)
  <2> SUFFICES ASSUME NEW i \in 1 .. Len(s) - fits
               PROVE  SubSeq(s, fits + 1, Len(s))[i] \in In(s)
    BY <1>4, <1>6 DEF In
  <2>1. fits + i \in 1..Len(s) OBVIOUS
  <2> QED BY <2>1, <1>6 DEF In
<1> QED BY <1>2, <1>4, <1>5, <1>7, <1>8, <1>9

LEMMA EmptyIn == In(<<>>) = {}
BY DEF In

\* Type correctness.
LEMMA GpsInitTypeOK == GpsInit => GpsTypeOK
<1> SUFFICES ASSUME GpsInit PROVE GpsTypeOK OBVIOUS
<1> USE GpsAssumption DEF GpsInit
<1>4. 1 \in 1..MaxSentences + 1 /\ 0 \in 0..MaxUartFaults /\ since = 1 /\ uartFaults = 0
  OBVIOUS
<1>5. /\ enabled \in BOOLEAN /\ gpsReady \in BOOLEAN /\ recent \in BOOLEAN
      /\ uart \in {"off", "on", "stopping", "stopped", "failed"}
      /\ parsed \subseteq 1..MaxSentences /\ lost \subseteq Unit
  OBVIOUS
<1>1. next \in [of : 1..MaxSentences + 1, part : 1..LineFeed] BY DEF LineFeed
<1>2. /\ buffer \in Seq(Unit) /\ Len(buffer) <= BufferUnits
      /\ ring \in Seq(Unit) /\ Len(ring) <= RingUnits
      /\ line \in Seq(Unit) /\ Len(line) <= LineUnits
  OBVIOUS
<1>3. position \in 0..MaxSentences BY DEF NoPosition
<1> HIDE DEF GpsInit
<1> QED BY <1>1, <1>2, <1>3, <1>4, <1>5 DEF GpsTypeOK

LEMMA GpsTypeStep == GpsTypeOK /\ [GpsNext]_gpsVars => GpsTypeOK'
<1> SUFFICES ASSUME GpsTypeOK, [GpsNext]_gpsVars PROVE GpsTypeOK' OBVIOUS
<1> USE GpsAssumption DEF GpsTypeOK
<1>1. CASE SendUnit
  <2>1. next \in Unit BY <1>1 DEF SendUnit, Unit
  <2>2. next' \in [of : 1..MaxSentences + 1, part : 1..LineFeed]
    <3>1. next.of \in 1..MaxSentences /\ next.part \in 1..LineFeed /\ LineFeed \in Nat \ {0}
      BY <2>1 DEF Unit, LineFeed
    <3>2. next' = IF next.part < LineFeed THEN [next EXCEPT !.part = next.part + 1]
                  ELSE [of |-> next.of + 1, part |-> 1]
      BY <1>1 DEF SendUnit, AfterUnit
    <3>3. CASE next.part < LineFeed
      <4>1. next.part + 1 \in 1..LineFeed BY <3>1, <3>3
      <4> QED BY <3>2, <3>3, <4>1
    <3>4. CASE ~(next.part < LineFeed)
      <4>1. next.of + 1 \in 1..MaxSentences + 1 /\ 1 \in 1..LineFeed BY <3>1
      <4> QED BY <3>2, <3>4, <4>1
    <3> QED BY <3>3, <3>4
  <2>3. buffer' \in Seq(Unit) /\ Len(buffer') <= BufferUnits
    <3>1. CASE uart = "on"
      <4>1. buffer' = Append(buffer, next) /\ Len(buffer) < BufferUnits
        BY <1>1, <3>1 DEF SendUnit
      <4>2. buffer' \in Seq(Unit) /\ Len(buffer') = Len(buffer) + 1
        BY <4>1, <2>1, AppendProperties
      <4> QED BY <4>1, <4>2
    <3>2. CASE uart # "on" BY <1>1, <3>2 DEF SendUnit
    <3> QED BY <3>1, <3>2
  <2>4. lost' \subseteq Unit BY <1>1, <2>1 DEF SendUnit, Lose
  <2> QED BY <1>1, <2>2, <2>3, <2>4 DEF SendUnit
<1>2. CASE ReceptionReady
  <2> DEFINE fits == IF Len(buffer) <= Room THEN Len(buffer) ELSE Room
             kept == SubSeq(buffer, 1, fits)
  <2>1. fits \in 0..Len(buffer) /\ fits <= RingUnits - Len(ring) BY DEF Room
  <2>2. ring' = ring \o kept /\ lost' = Lose(In(SubSeq(buffer, fits + 1, Len(buffer))))
        /\ buffer' = <<>>
    BY <1>2 DEF ReceptionReady
  <2> HIDE DEF fits
  <2>3. /\ kept \in Seq(Unit) /\ Len(kept) = fits
        /\ SubSeq(buffer, fits + 1, Len(buffer)) \in Seq(Unit)
    BY <2>1, Parts, Zenon
  <2>4. ring' \in Seq(Unit) /\ Len(ring') = Len(ring) + fits
    BY <2>2, <2>3, ConcatProperties
  <2>5. lost' \subseteq Unit BY <2>2, <2>3, InSequences DEF Lose
  <2>6. Len(ring') <= RingUnits BY <2>1, <2>4
  <2>7. UNCHANGED <<enabled, gpsReady, uart, next, line, position, recent, since, parsed,
                    uartFaults>>
    BY <1>2 DEF ReceptionReady
  <2>8. buffer' \in Seq(Unit) /\ Len(buffer') <= BufferUnits BY <2>2
  <2> QED BY <2>4, <2>5, <2>6, <2>7, <2>8
<1>3. CASE ReceptionStops BY <1>3 DEF ReceptionStops
<1>4. CASE ReceptionDisabled BY <1>4 DEF ReceptionDisabled
<1>5. CASE ChangeWish BY <1>5 DEF ChangeWish
<1>6. CASE StopStream
  <2>1. uart' \in {"off", "on", "stopping", "stopped", "failed"} BY <1>6 DEF StopStream
  <2>2. /\ gpsReady' = FALSE /\ line' = <<>> /\ position' = 0
        /\ UNCHANGED <<enabled, next, buffer, ring, recent, since, parsed, lost, uartFaults>>
    BY <1>6 DEF StopStream, NoPosition
  <2>3. line' \in Seq(Unit) /\ Len(line') <= LineUnits BY <2>2
  <2>4. position' \in 0..MaxSentences BY <2>2
  <2>5. gpsReady' \in BOOLEAN BY <2>2, Zenon
  <2> QED BY <2>1, <2>2, <2>3, <2>4, <2>5
<1>7. CASE InitStream
  <2>1. ring' = <<>> BY <1>7 DEF InitStream, EmptyRing
  <2>2. /\ line' = <<>> /\ recent' = FALSE /\ since' = next.of /\ parsed' = {}
        /\ lost' \subseteq Unit
        /\ UNCHANGED <<enabled, next, buffer, position>>
    BY <1>7 DEF InitStream
  <2>3. gpsReady' \in BOOLEAN /\ uart' \in {"on", uart} /\ uartFaults' \in 0..MaxUartFaults
    <3>1. \/ gpsReady' = TRUE /\ uart' = "on" /\ UNCHANGED uartFaults
          \/ /\ uartFaults < MaxUartFaults /\ uartFaults' = uartFaults + 1
             /\ UNCHANGED <<gpsReady, uart>>
      BY <1>7 DEF InitStream
    <3>2. gpsReady' \in BOOLEAN /\ uart' \in {"on", uart} BY <3>1, Zenon
    <3>3. uartFaults' \in 0..MaxUartFaults BY <3>1
    <3> QED BY <3>2, <3>3
  <2>4. /\ line' \in Seq(Unit) /\ Len(line') <= LineUnits
        /\ ring' \in Seq(Unit) /\ Len(ring') <= RingUnits
    BY <2>1, <2>2
  <2>5. since' \in 1..MaxSentences + 1 BY <2>2
  <2> QED BY <2>2, <2>3, <2>4, <2>5
<1>8. CASE PollUnit
  <2>1. ring \in Seq(Unit) /\ ring # <<>> BY <1>8 DEF PollUnit
  <2>2. Head(ring) \in Unit /\ Tail(ring) \in Seq(Unit) /\ Len(Tail(ring)) = Len(ring) - 1
    BY <2>1, HeadTailProperties
  <2>3. line' \in Seq(Unit) /\ Len(line') <= LineUnits
    <3>1. \/ line' = <<>>
          \/ line' = Append(line, Head(ring)) /\ Len(line) < LineUnits
      BY <1>8 DEF PollUnit, LineWith
    <3>2. /\ Append(line, Head(ring)) \in Seq(Unit)
          /\ Len(Append(line, Head(ring))) = Len(line) + 1
      BY <2>2, AppendProperties
    <3>3. CASE line' = <<>> BY <3>3
    <3>4. CASE line' = Append(line, Head(ring)) /\ Len(line) < LineUnits BY <3>2, <3>4
    <3> QED BY <3>1, <3>3, <3>4
  <2>4. parsed' \subseteq 1..MaxSentences /\ position' \in 0..MaxSentences
        /\ recent' \in BOOLEAN
    <3>1. CASE Head(ring).part = LineFeed /\ Fits(line)
      <4>1. PICK n \in 1..MaxSentences : line = Sentence(n) BY <3>1 DEF Fits
      <4>2. line[1].of = n BY <4>1 DEF Sentence
      <4>3. ParseSentence(line) BY <1>8, <3>1 DEF PollUnit
      <4>4. /\ parsed' = parsed \cup {n}
            /\ position' \in {n, position} /\ recent' \in {TRUE, recent}
        BY <4>2, <4>3, <3>1 DEF ParseSentence
      <4>5. recent' \in BOOLEAN BY <4>4, Zenon
      <4>6. n \in 0..MaxSentences OBVIOUS
      <4> QED BY <4>4, <4>5, <4>6
    <3>2. CASE ~(Head(ring).part = LineFeed /\ Fits(line))
      BY <1>8, <3>2 DEF PollUnit, ParseSentence
    <3> QED BY <3>1, <3>2
  <2> QED BY <1>8, <2>2, <2>3, <2>4 DEF PollUnit
<1>9. CASE MinutePasses BY <1>9 DEF MinutePasses
<1>10. CASE UNCHANGED gpsVars BY <1>10 DEF gpsVars
<1> QED BY <1>1, <1>2, <1>3, <1>4, <1>5, <1>6, <1>7, <1>8, <1>9, <1>10 DEF GpsNext

\* The order of the stream, and how far edgez_gps_poll is in it: a unit is gone
\* when it was sent since the start and everything in the buffers is later.
Before(u, v) == u.of < v.of \/ (u.of = v.of /\ u.part < v.part)
Waiting == In(ring) \cup In(buffer)
Sent(u) == u.of >= since /\ Before(u, next)
Gone(u) == Sent(u) /\ \A v \in Waiting : Before(u, v)
At(n, k) == [of |-> n, part |-> k]
Prefix(n, k) == [i \in 1..k |-> At(n, i)]

InOrder ==
  /\ \A i, j \in DOMAIN ring : i < j => Before(ring[i], ring[j])
  /\ \A i, j \in DOMAIN buffer : i < j => Before(buffer[i], buffer[j])
  /\ \A u \in In(ring), v \in In(buffer) : Before(u, v)
  /\ \A u \in Waiting : Before(u, next)
NoneOlder == \A u \in Waiting \cup In(line) : u.of >= since
\* Nothing is lost unnoticed.
Accounted == \A u \in Unit : Sent(u) => u \in lost \/ u \in Waiting \/ Gone(u)
\* The line is as much of an undamaged sentence as is gone.
LineIsPrefix ==
  \A n \in since..MaxSentences, k \in 0..SentenceUnits :
    /\ ~Damaged(n)
    /\ n = since \/ Gone(At(n - 1, LineFeed))
    /\ k = 0 \/ Gone(At(n, k))
    /\ ~Gone(At(n, k + 1))
    => line = Prefix(n, k)
LinesParsed ==
  \A n \in since..MaxSentences : Gone(At(n, LineFeed)) => n \in parsed \/ Damaged(n)
StreamRight == InOrder /\ NoneOlder /\ Accounted /\ LineIsPrefix /\ LinesParsed

GpsInv ==
  /\ GpsTypeOK /\ Receives /\ PositionIsNew
  /\ uart \in {"off", "failed"} => buffer = <<>>
  /\ ~gpsReady => position = NoPosition
  /\ since <= next.of
  /\ gpsReady => StreamRight

LEMMA GpsBounds ==
  /\ SentenceUnits \in Nat \ {0} /\ LineUnits \in Nat \ {0} /\ MaxSentences \in Nat
  /\ LineFeed = SentenceUnits + 1 /\ LineFeed \in Nat /\ SentenceUnits <= LineUnits
BY GpsAssumption DEF LineFeed

LEMMA UnitsCompare ==
  ASSUME GpsTypeOK
  PROVE  /\ \A u \in Unit : u.of \in Nat /\ u.part \in Nat /\ u.of >= 1 /\ u.of <= MaxSentences
                            /\ u.part >= 1 /\ u.part <= LineFeed /\ u = At(u.of, u.part)
         /\ next.of \in Nat /\ next.part \in Nat /\ since \in Nat /\ since >= 1
         /\ \A n \in since..MaxSentences, k \in 1..LineFeed : At(n, k) \in Unit
         /\ \A n \in since..MaxSentences : n # since => At(n - 1, LineFeed) \in Unit
         /\ In(ring) \subseteq Unit /\ In(buffer) \subseteq Unit /\ In(line) \subseteq Unit
<1> USE GpsBounds DEF GpsTypeOK
<1>1. ASSUME NEW u \in Unit
      PROVE  u.of \in Nat /\ u.part \in Nat /\ u.of >= 1 /\ u.of <= MaxSentences
             /\ u.part >= 1 /\ u.part <= LineFeed /\ u = At(u.of, u.part)
  BY DEF Unit, At
<1>2. next.of \in Nat /\ next.part \in Nat /\ since \in Nat /\ since >= 1 OBVIOUS
<1>3. \A n \in 1..MaxSentences, k \in 1..LineFeed : At(n, k) \in Unit BY DEF Unit, At
<1>4. \A n \in since..MaxSentences : n \in 1..MaxSentences BY <1>2
<1>5. \A n \in since..MaxSentences : n # since => n - 1 \in 1..MaxSentences BY <1>2
<1>6. LineFeed \in 1..LineFeed OBVIOUS
<1>7. In(ring) \subseteq Unit /\ In(buffer) \subseteq Unit /\ In(line) \subseteq Unit
  BY InSequences
<1> HIDE DEF GpsTypeOK
<1> QED BY <1>1, <1>2, <1>3, <1>4, <1>5, <1>6, <1>7

LEMMA Transitive ==
  ASSUME NEW u, NEW v, NEW w, u.of \in Nat, u.part \in Nat, v.of \in Nat, v.part \in Nat,
         w.of \in Nat, w.part \in Nat, Before(u, v), Before(v, w)
  PROVE  Before(u, w)
BY DEF Before

\* What a unit that is not lost has to do with its sentence.
LEMMA UndamagedKept ==
  ASSUME NEW n, ~Damaged(n)
  PROVE  (\A k : At(n, k) \notin lost) /\ At(n - 1, LineFeed) \notin lost
BY DEF Damaged, At

\* The line stays right in a step of the interrupts or the receiver, which
\* changes only for lost units whether they are gone.
LEMMA LineKept ==
  ASSUME GpsTypeOK, GpsTypeOK', LineIsPrefix, LinesParsed, UNCHANGED <<line, parsed, since>>,
         lost \subseteq lost', \A u \in Unit : u \notin lost' => (Gone(u)' <=> Gone(u))
  PROVE  LineIsPrefix' /\ LinesParsed'
<1>1. \A n : Damaged(n) => Damaged(n)' BY DEF Damaged
<1>2. ASSUME NEW n \in since..MaxSentences, NEW k \in 0..SentenceUnits, ~Damaged(n)',
             n = since \/ Gone(At(n - 1, LineFeed))', k = 0 \/ Gone(At(n, k))',
             ~Gone(At(n, k + 1))'
      PROVE  line = Prefix(n, k)
  <2>1. (\A j : At(n, j) \notin lost') /\ At(n - 1, LineFeed) \notin lost'
    BY <1>2 DEF Damaged, At
  <2>2. k + 1 \in 1..LineFeed /\ (k # 0 => k \in 1..LineFeed) BY GpsBounds
  <2>3. ~Gone(At(n, k + 1)) BY <1>2, <2>1, <2>2, UnitsCompare
  <2>4. k = 0 \/ Gone(At(n, k)) BY <1>2, <2>1, <2>2, UnitsCompare
  <2>5. n = since \/ Gone(At(n - 1, LineFeed)) BY <1>2, <2>1, UnitsCompare
  <2> QED BY <1>1, <1>2, <2>3, <2>4, <2>5 DEF LineIsPrefix
<1>3. ASSUME NEW n \in since..MaxSentences, Gone(At(n, LineFeed))'
      PROVE  n \in parsed \/ Damaged(n)'
  <2>1. At(n, LineFeed) \in Unit BY GpsBounds, UnitsCompare
  <2>2. CASE At(n, LineFeed) \in lost' BY <2>2 DEF Damaged, At
  <2>3. CASE At(n, LineFeed) \notin lost' BY <1>1, <1>3, <2>1, <2>3 DEF LinesParsed
  <2> QED BY <2>2, <2>3
<1>4. since' = since /\ line' = line /\ parsed' = parsed OBVIOUS
<1>5. LineIsPrefix' BY <1>2, <1>4 DEF LineIsPrefix
<1>6. LinesParsed' BY <1>3, <1>4 DEF LinesParsed
<1> QED BY <1>5, <1>6

\* A unit is sent, and received or lost.
LEMMA SendKeeps == ASSUME GpsInv, GpsTypeOK', gpsReady, SendUnit PROVE StreamRight'
<1> USE DEF GpsInv, StreamRight
<1>1. next \in Unit /\ next.of \in Nat /\ next.part \in Nat
  BY UnitsCompare DEF SendUnit, Unit, GpsTypeOK
<1>2. /\ UNCHANGED <<gpsReady, ring, line, parsed, since>>
      /\ \/ uart = "on" /\ buffer' = Append(buffer, next) /\ lost' = lost
         \/ uart # "on" /\ buffer' = buffer /\ lost' = lost \cup {next}
  BY DEF SendUnit, Lose
<1>3. \A u \in Unit : Before(u, next') <=> Before(u, next) \/ u = next
  <2> SUFFICES ASSUME NEW u \in Unit PROVE Before(u, next') <=> Before(u, next) \/ u = next
    OBVIOUS
  <2>1. u = next <=> u.of = next.of /\ u.part = next.part BY <1>1, UnitsCompare
  <2>2. u.of \in Nat /\ u.part \in Nat /\ u.part >= 1 /\ u.part <= LineFeed BY UnitsCompare
  <2>3. CASE next.part < LineFeed
    <3>1. next'.of = next.of /\ next'.part = next.part + 1
      BY <2>3, <1>1 DEF SendUnit, AfterUnit, Unit
    <3> QED BY <3>1, <2>1, <2>2, <1>1 DEF Before
  <2>4. CASE ~(next.part < LineFeed)
    <3>1. next'.of = next.of + 1 /\ next'.part = 1 BY <2>4 DEF SendUnit, AfterUnit
    <3>2. next.part = LineFeed BY <2>4, <1>1, UnitsCompare, GpsBounds
    <3> QED BY <3>1, <3>2, <2>1, <2>2, <1>1, GpsBounds DEF Before
  <2> QED BY <2>3, <2>4
<1>4. buffer \in Seq(Unit) /\ In(buffer) \subseteq Unit /\ In(ring) \subseteq Unit
      /\ In(line) \subseteq Unit
  BY UnitsCompare DEF GpsTypeOK
<1>5. /\ uart = "on" => In(buffer') = In(buffer) \cup {next}
      /\ uart # "on" => In(buffer') = In(buffer)
  <2>1. In(Append(buffer, next)) = In(buffer) \cup {next} BY <1>1, <1>4, InSequences
  <2> QED BY <1>2, <2>1
<1>6. Waiting' = In(ring) \cup In(buffer') /\ Waiting \subseteq Unit
      /\ Waiting' \subseteq Waiting \cup {next} /\ Waiting \subseteq Waiting'
  BY <1>2, <1>4, <1>5 DEF Waiting
<1>7. InOrder'
  <2>1. \A i, j \in DOMAIN buffer' : i < j => Before(buffer'[i], buffer'[j])
    <3>1. CASE uart # "on" BY <3>1, <1>2 DEF InOrder
    <3>2. CASE uart = "on"
      <4>1. /\ buffer' \in Seq(Unit) /\ Len(buffer') = Len(buffer) + 1
            /\ \A i \in 1..Len(buffer) : buffer'[i] = buffer[i]
            /\ buffer'[Len(buffer) + 1] = next
        BY <3>2, <1>1, <1>2, <1>4, AppendProperties
      <4>2. \A i \in 1..Len(buffer) : Before(buffer[i], next)
        BY DEF InOrder, Waiting, In
      <4> SUFFICES ASSUME NEW i \in 1..Len(buffer) + 1, NEW j \in 1..Len(buffer) + 1, i < j
                   PROVE  Before(buffer'[i], buffer'[j])
        BY <4>1
      <4>3. i \in 1..Len(buffer) OBVIOUS
      <4>4. CASE j = Len(buffer) + 1 BY <4>1, <4>2, <4>3, <4>4
      <4>5. CASE j # Len(buffer) + 1
        <5>1. j \in 1..Len(buffer) BY <4>5
        <5> QED BY <4>1, <4>3, <5>1 DEF InOrder
      <4> QED BY <4>4, <4>5
    <3> QED BY <3>1, <3>2
  <2>2. \A u \in In(ring), v \in In(buffer') : Before(u, v)
    BY <1>2, <1>5 DEF InOrder, Waiting
  <2>3. \A u \in Waiting' : Before(u, next')
    BY <1>1, <1>3, <1>6 DEF InOrder
  <2> QED BY <1>2, <2>1, <2>2, <2>3 DEF InOrder
<1>8. NoneOlder'
  <2>1. next.of >= since BY <1>1, UnitsCompare
  <2> QED BY <1>2, <1>6, <2>1 DEF NoneOlder
<1>9. \A u \in Unit : u \notin lost' => (Gone(u)' <=> Gone(u))
  <2> SUFFICES ASSUME NEW u \in Unit, u \notin lost' PROVE Gone(u)' <=> Gone(u) OBVIOUS
  <2>1. Sent(u)' <=> Sent(u) \/ (u = next /\ u.of >= since) BY <1>2, <1>3 DEF Sent
  <2>2. CASE u = next
    <3>1. uart = "on" /\ u \in Waiting' BY <2>2, <1>2, <1>5, <1>6
    <3>2. ~Before(u, u) BY <1>1, <2>2 DEF Before
    <3>3. ~Gone(u)' BY <3>1, <3>2 DEF Gone
    <3>4. ~Sent(u) BY <2>2, <3>2 DEF Sent
    <3> QED BY <3>3, <3>4 DEF Gone
  <2>3. CASE u # next
    <3>1. Sent(u)' <=> Sent(u) BY <2>1, <2>3
    <3>2. Sent(u) => Before(u, next) BY DEF Sent
    <3> QED BY <3>1, <3>2, <1>6 DEF Gone
  <2> QED BY <2>2, <2>3
<1>10. Accounted'
  <2> SUFFICES ASSUME NEW u \in Unit, Sent(u)'
               PROVE  u \in lost' \/ u \in Waiting' \/ Gone(u)'
    BY DEF Accounted
  <2>1. CASE u = next BY <2>1, <1>2, <1>5, <1>6
  <2>2. CASE u # next
    <3>1. Sent(u) BY <2>2, <1>2, <1>3 DEF Sent
    <3> QED BY <3>1, <1>2, <1>6, <1>9 DEF Accounted
  <2> QED BY <2>1, <2>2
<1>11. LineIsPrefix' /\ LinesParsed' BY <1>2, <1>9, LineKept
<1> QED BY <1>7, <1>8, <1>10, <1>11

\* The ring takes what it has room for, the rest is lost.
LEMMA ReadyKeeps == ASSUME GpsInv, GpsTypeOK', gpsReady, ReceptionReady PROVE StreamRight'
<1> USE DEF GpsInv, StreamRight
<1> DEFINE fits == IF Len(buffer) <= Room THEN Len(buffer) ELSE Room
           kept == SubSeq(buffer, 1, fits)
           dropped == SubSeq(buffer, fits + 1, Len(buffer))
<1>1. fits \in 0..Len(buffer)
  <2>1. /\ Len(buffer) \in Nat /\ Len(ring) \in Nat /\ RingUnits \in Nat
        /\ Len(ring) <= RingUnits
    BY GpsAssumption DEF GpsTypeOK
  <2> QED BY <2>1 DEF Room
<1>2. /\ ring' = ring \o kept /\ buffer' = <<>> /\ lost' = lost \cup In(dropped)
      /\ UNCHANGED <<gpsReady, next, line, parsed, since>>
  BY DEF ReceptionReady, Lose
<1> HIDE DEF fits
<1>3. /\ kept \in Seq(Unit) /\ Len(kept) = fits /\ dropped \in Seq(Unit)
      /\ \A i \in 1..fits : kept[i] = buffer[i]
      /\ In(buffer) = In(kept) \cup In(dropped)
  <2>1. buffer \in Seq(Unit) BY DEF GpsTypeOK
  <2> QED BY <2>1, <1>1, Parts, Zenon
<1> HIDE DEF kept, dropped
<1>4. ring \in Seq(Unit) /\ buffer \in Seq(Unit) BY DEF GpsTypeOK
<1>5. In(ring') = In(ring) \cup In(kept) BY <1>2, <1>3, <1>4, InSequences
<1>6. Waiting' = In(ring) \cup In(kept) /\ Waiting = Waiting' \cup In(dropped)
  BY <1>2, <1>3, <1>5, EmptyIn DEF Waiting
<1>7. InOrder'
  <2>1. /\ ring' \in Seq(Unit) /\ Len(ring') = Len(ring) + fits
        /\ \A i \in 1 .. Len(ring) + fits :
             ring'[i] = IF i <= Len(ring) THEN ring[i] ELSE kept[i - Len(ring)]
    BY <1>2, <1>3, <1>4, ConcatProperties
  <2>2. ASSUME NEW i \in 1 .. Len(ring) + fits, NEW j \in 1 .. Len(ring) + fits, i < j
        PROVE  Before(ring'[i], ring'[j])
    <3>1. CASE j <= Len(ring)
      <4>1. i \in DOMAIN ring /\ j \in DOMAIN ring BY <1>4, <2>2, <3>1
      <4>2. ring'[i] = ring[i] /\ ring'[j] = ring[j] BY <2>1, <2>2, <3>1
      <4> QED BY <4>1, <4>2, <2>2 DEF InOrder
    <3>2. CASE i <= Len(ring) /\ ~(j <= Len(ring))
      <4>1. i \in DOMAIN ring /\ j - Len(ring) \in 1..fits BY <1>1, <1>4, <2>2, <3>2
      <4>2. j - Len(ring) \in DOMAIN buffer BY <1>1, <1>4, <4>1
      <4>3. ring'[i] = ring[i] /\ ring'[j] = buffer[j - Len(ring)]
        BY <1>3, <2>1, <3>2, <4>1
      <4> QED BY <4>1, <4>2, <4>3 DEF InOrder, In
    <3>3. CASE ~(i <= Len(ring)) /\ ~(j <= Len(ring))
      <4>1. i - Len(ring) \in 1..fits /\ j - Len(ring) \in 1..fits
            /\ i - Len(ring) < j - Len(ring)
        BY <1>1, <1>4, <2>2, <3>3
      <4>2. i - Len(ring) \in DOMAIN buffer /\ j - Len(ring) \in DOMAIN buffer
        BY <1>1, <1>4, <4>1
      <4>3. ring'[i] = buffer[i - Len(ring)] /\ ring'[j] = buffer[j - Len(ring)]
        BY <1>3, <2>1, <3>3, <4>1
      <4> QED BY <4>1, <4>2, <4>3 DEF InOrder
    <3> QED BY <2>2, <3>1, <3>2, <3>3, <1>4
  <2>3. \A i, j \in DOMAIN ring' : i < j => Before(ring'[i], ring'[j]) BY <2>1, <2>2
  <2>4. \A u \in Waiting' : Before(u, next) BY <1>6 DEF InOrder
  <2> QED BY <1>2, <2>3, <2>4, EmptyIn DEF InOrder
<1>8. NoneOlder' BY <1>2, <1>6 DEF NoneOlder
<1>9. \A u \in Unit : u \notin lost' => (Gone(u)' <=> Gone(u))
  <2> SUFFICES ASSUME NEW u \in Unit, u \notin lost' PROVE Gone(u)' <=> Gone(u) OBVIOUS
  <2>1. Sent(u)' <=> Sent(u) BY <1>2 DEF Sent
  <2>2. ASSUME Gone(u)' PROVE Gone(u)
    <3>1. u \notin Waiting'
      <4>1. ~Before(u, u) BY UnitsCompare DEF Before
      <4> QED BY <2>2, <4>1 DEF Gone
    <3>2. u \notin Waiting BY <3>1, <1>2, <1>6
    <3> QED BY <2>1, <2>2, <3>2, <1>2 DEF Gone, Accounted
  <2> QED BY <2>1, <2>2, <1>6 DEF Gone
<1>10. Accounted'
  <2> SUFFICES ASSUME NEW u \in Unit, Sent(u)'
               PROVE  u \in lost' \/ u \in Waiting' \/ Gone(u)'
    BY DEF Accounted
  <2>1. Sent(u) BY <1>2 DEF Sent
  <2> QED BY <2>1, <1>2, <1>6, <1>9 DEF Accounted
<1>11. LineIsPrefix' /\ LinesParsed' BY <1>2, <1>9, LineKept
<1> QED BY <1>7, <1>8, <1>10, <1>11

\* GPS is turned on: nothing is in the buffers.
LEMMA InitStreamKeeps ==
  ASSUME GpsInv, GpsTypeOK', InitStream, gpsReady' PROVE StreamRight'
<1> USE DEF GpsInv, StreamRight
<1>1. /\ ring' = <<>> /\ buffer' = <<>> /\ line' = <<>> /\ parsed' = {}
      /\ next' = next /\ since' = next.of
      /\ lost' = {u \in Unit : u.of = next.of /\ u.part < next.part}
  BY DEF InitStream, EmptyRing
<1>2. Waiting' = {} /\ In(line') = {} BY <1>1, EmptyIn DEF Waiting
<1>3. InOrder' BY <1>1, <1>2, EmptyIn DEF InOrder
<1>4. NoneOlder' BY <1>2 DEF NoneOlder
<1>5. Accounted' BY <1>2 DEF Accounted, Gone
<1>6. next.of \in Nat /\ next.part \in Nat /\ next.part <= LineFeed
  BY GpsBounds DEF GpsTypeOK
<1>7. \A u : Gone(u)' /\ u.of \in Nat => u.of = next.of /\ u.part < next.part
  BY <1>1, <1>6 DEF Gone, Sent, Before
<1>8. LineIsPrefix'
  <2> SUFFICES ASSUME NEW n \in next.of..MaxSentences, NEW k \in 0..SentenceUnits,
                      ~Damaged(n)', k = 0 \/ Gone(At(n, k))'
               PROVE  line' = Prefix(n, k)
    BY <1>1 DEF LineIsPrefix
  <2>1. CASE k = 0 BY <2>1, <1>1 DEF Prefix
  <2>2. CASE k # 0
    <3>1. k \in 1..LineFeed /\ n \in since'..MaxSentences BY <2>2, <1>1, GpsBounds
    <3>2. At(n, k) \in Unit
      <4>1. n \in since..MaxSentences BY <1>6, UnitsCompare
      <4> QED BY <3>1, <4>1, UnitsCompare
    <3>3. At(n, k) \in lost' BY <2>2, <1>1, <1>7, <3>2, UnitsCompare
    <3> QED BY <3>3 DEF Damaged, At
  <2> QED BY <2>1, <2>2
<1>9. LinesParsed'
  <2> SUFFICES ASSUME NEW n \in next.of..MaxSentences, Gone(At(n, LineFeed))' PROVE FALSE
    BY <1>1 DEF LinesParsed
  <2>1. At(n, LineFeed).of \in Nat /\ At(n, LineFeed).part = LineFeed BY <1>6 DEF At
  <2> QED BY <1>6, <1>7, <2>1, GpsBounds
<1> QED BY <1>3, <1>4, <1>5, <1>8, <1>9

\* edgez_gps_poll takes the first unit of the ring.
LEMMA PollKeeps == ASSUME GpsInv, GpsTypeOK', PollUnit PROVE StreamRight' /\ PositionIsNew'
<1>25. PICK h : h = Head(ring) OBVIOUS
<1>1. /\ gpsReady /\ ring # <<>> /\ ring' = Tail(ring)
      /\ UNCHANGED <<gpsReady, next, buffer, since, lost>>
  BY DEF PollUnit
<1>0. /\ GpsTypeOK /\ InOrder /\ NoneOlder /\ Accounted /\ LineIsPrefix /\ LinesParsed
      /\ PositionIsNew
  BY <1>1 DEF GpsInv, StreamRight
<1>2. ring \in Seq(Unit) /\ h \in Unit /\ In(ring) = {h} \cup In(ring')
      /\ In(buffer) \subseteq Unit /\ In(ring') \subseteq Unit
  <2>1. ring \in Seq(Unit) /\ ring' \in Seq(Unit) BY <1>0 DEF GpsTypeOK
  <2>2. h \in Unit BY <1>1, <1>25, <2>1, HeadTailProperties
  <2> QED BY <1>0, <1>1, <1>25, <2>1, <2>2, InSequences, <1>0, UnitsCompare
<1>3. /\ Len(ring') = Len(ring) - 1 /\ \A i \in 1..Len(ring') : ring'[i] = ring[i + 1]
      /\ h = ring[1] /\ DOMAIN ring' = 1..Len(ring') /\ DOMAIN ring = 1..Len(ring)
      /\ Len(ring) \in Nat \ {0}
  <2>1. Tail(ring) \in Seq(Unit) /\ Len(Tail(ring)) = Len(ring) - 1
        /\ \A i \in 1..Len(Tail(ring)) : Tail(ring)[i] = ring[i + 1]
    BY <1>1, <1>2, HeadTailProperties
  <2> QED BY <1>1, <1>2, <1>25, <2>1
<1>4. Waiting = {h} \cup Waiting' /\ h \in Waiting BY <1>1, <1>2 DEF Waiting
<1>5. \A v \in Waiting' : Before(h, v)
  <2>1. ASSUME NEW v \in In(ring') PROVE Before(h, v)
    <3>1. PICK i \in 1..Len(ring') : v = ring'[i] BY <1>3 DEF In
    <3>2. v = ring[i + 1] /\ 1 \in DOMAIN ring /\ i + 1 \in DOMAIN ring /\ 1 < i + 1
      BY <3>1, <1>3
    <3> QED BY <3>2, <1>0, <1>3 DEF InOrder
  <2>2. ASSUME NEW v \in In(buffer) PROVE Before(h, v)
    <3>1. h \in In(ring) BY <1>2
    <3> QED BY <3>1, <1>0 DEF InOrder
  <2> QED BY <1>1, <2>1, <2>2 DEF Waiting
<1>6. InOrder'
  <2>1. ASSUME NEW i \in DOMAIN ring', NEW j \in DOMAIN ring', i < j
        PROVE  Before(ring'[i], ring'[j])
    <3>1. i + 1 \in DOMAIN ring /\ j + 1 \in DOMAIN ring /\ i + 1 < j + 1 BY <1>3, <2>1
    <3>2. Before(ring[i + 1], ring[j + 1]) BY <3>1, <1>0 DEF InOrder
    <3> QED BY <3>2, <1>3
  <2>2. \A u \in In(ring'), v \in In(buffer) : Before(u, v) BY <1>0, <1>2 DEF InOrder
  <2>3. \A u \in Waiting' : Before(u, next) BY <1>0, <1>4 DEF InOrder
  <2> QED BY <1>0, <1>1, <2>1, <2>2, <2>3 DEF InOrder
\* Which units are gone now.
<1>7. Sent(h) /\ h.of >= since /\ Before(h, next) BY <1>0, <1>4 DEF InOrder, NoneOlder, Sent
<1>8. Gone(h)' BY <1>1, <1>5, <1>7 DEF Gone, Sent
<1>9. ~Gone(h)
  <2>1. ~Before(h, h) BY <1>0, <1>2, UnitsCompare DEF Before
  <2> QED BY <2>1, <1>4 DEF Gone
<1>10. \A u : Gone(u) => Gone(u)' /\ Before(u, h) BY <1>1, <1>4 DEF Gone, Sent
<1>11. ASSUME NEW u \in Unit, u \notin lost, Gone(u)' PROVE Gone(u) \/ u = h
  <2>1. Sent(u) BY <1>11, <1>1 DEF Gone, Sent
  <2>2. u \notin Waiting'
    <3>1. ~Before(u, u) BY <1>0, UnitsCompare DEF Before
    <3> QED BY <1>11, <3>1 DEF Gone
  <2> QED BY <1>0, <1>4, <1>11, <2>1, <2>2 DEF Accounted
<1>12. ASSUME NEW u \in Unit, u \notin lost, u.of >= since, Before(u, h) PROVE Gone(u)
  <2>1. next.of \in Nat /\ next.part \in Nat /\ h.of \in Nat /\ h.part \in Nat
        /\ u.of \in Nat /\ u.part \in Nat
    BY <1>2, <1>0, UnitsCompare
  <2>2. Sent(u) BY <1>7, <1>12, <2>1, Transitive DEF Sent
  <2>3. u \notin Waiting
    <3>1. u # h BY <1>12, <2>1 DEF Before
    <3>2. ~Before(h, u) BY <1>12, <2>1 DEF Before
    <3> QED BY <3>1, <3>2, <1>4, <1>5
  <2> QED BY <1>0, <1>12, <2>2, <2>3 DEF Accounted
<1>13. Accounted'
  <2> SUFFICES ASSUME NEW u \in Unit, Sent(u)'
               PROVE  u \in lost \/ u \in Waiting' \/ Gone(u)'
    BY <1>0, <1>1 DEF Accounted
  <2>1. Sent(u) BY <1>1 DEF Sent
  <2> QED BY <1>0, <2>1, <1>4, <1>8, <1>10 DEF Accounted
\* The sentence the unit is of.
<1>14. /\ h.of \in Nat /\ h.part \in Nat /\ h.of >= since /\ h.of <= MaxSentences
       /\ h.part >= 1 /\ h.part <= LineFeed /\ h = At(h.of, h.part)
  BY <1>2, <1>7, <1>0, UnitsCompare
<1>15. ASSUME NEW n \in since..MaxSentences, ~Damaged(n), NEW k \in 1..LineFeed
       PROVE  /\ At(n, k) \in Unit /\ At(n, k) \notin lost
              /\ At(n, k).of = n /\ At(n, k).part = k
  BY <1>15, UndamagedKept, <1>0, UnitsCompare DEF At
<1>16. ASSUME ~Damaged(h.of)
       PROVE  line = Prefix(h.of, h.part - 1)
  <2>1. h.of \in since..MaxSentences /\ h.part - 1 \in 0..SentenceUnits
        /\ (h.part - 1) + 1 = h.part
    BY <1>14, GpsBounds, <1>0, UnitsCompare
  <2>2. ~Gone(At(h.of, (h.part - 1) + 1)) BY <1>9, <1>14, <2>1
  <2>3. h.part - 1 = 0 \/ Gone(At(h.of, h.part - 1))
    <3> SUFFICES ASSUME h.part - 1 # 0 PROVE Gone(At(h.of, h.part - 1)) OBVIOUS
    <3>1. h.part - 1 \in 1..LineFeed BY <1>14, GpsBounds
    <3>2. /\ At(h.of, h.part - 1) \in Unit /\ At(h.of, h.part - 1) \notin lost
          /\ At(h.of, h.part - 1).of = h.of /\ At(h.of, h.part - 1).part = h.part - 1
      BY <1>15, <1>16, <2>1, <3>1
    <3>3. Before(At(h.of, h.part - 1), h) BY <3>2, <1>14 DEF Before
    <3> QED BY <3>2, <3>3, <1>12, <1>14
  <2>4. h.of = since \/ Gone(At(h.of - 1, LineFeed))
    <3> SUFFICES ASSUME h.of # since PROVE Gone(At(h.of - 1, LineFeed)) OBVIOUS
    <3>1. At(h.of - 1, LineFeed) \in Unit /\ At(h.of - 1, LineFeed) \notin lost
      BY <2>1, <1>16, UndamagedKept, <1>0, UnitsCompare
    <3>2. At(h.of - 1, LineFeed).of = h.of - 1 BY DEF At
    <3>3. Before(At(h.of - 1, LineFeed), h) BY <3>2, <1>14 DEF Before
    <3>4. h.of - 1 >= since BY <1>14, <1>0, UnitsCompare
    <3> QED BY <3>1, <3>2, <3>3, <3>4, <1>12
  <2> QED BY <1>0, <1>16, <2>1, <2>2, <2>3, <2>4 DEF LineIsPrefix
\* Only in its sentence is anything gone but not the next unit.
<1>17. ASSUME NEW n \in since..MaxSentences, NEW k \in 0..SentenceUnits, ~Damaged(n),
              n = since \/ Gone(At(n - 1, LineFeed))', k = 0 \/ Gone(At(n, k))',
              ~Gone(At(n, k + 1))'
       PROVE  \/ k = 0 /\ h.part = LineFeed
              \/ k # 0 /\ n = h.of /\ k = h.part
  <2>1. k + 1 \in 1..LineFeed BY GpsBounds
  <2>2. /\ At(n, k + 1) \in Unit /\ At(n, k + 1) \notin lost
        /\ At(n, k + 1).of = n /\ At(n, k + 1).part = k + 1
    BY <1>15, <1>17, <2>1
  <2>3. ~Before(At(n, k + 1), h) /\ At(n, k + 1) # h
    <3>1. At(n, k + 1) # h BY <1>8, <1>17
    <3>2. ~Gone(At(n, k + 1)) BY <1>10, <1>17
    <3>3. At(n, k + 1).of >= since BY <2>2, <1>17, <1>0, UnitsCompare
    <3> QED BY <3>1, <3>2, <3>3, <2>2, <1>12
  <2>4. h.of < n \/ (h.of = n /\ h.part < k + 1)
    <3>1. ~(n < h.of \/ (n = h.of /\ k + 1 < h.part)) BY <2>2, <2>3 DEF Before
    <3>2. ~(n = h.of /\ k + 1 = h.part) BY <2>3, <1>14
    <3> QED BY <3>1, <3>2, <1>14, <1>0, UnitsCompare
  <2>5. CASE k # 0
    <3>1. k \in 1..LineFeed BY <2>5, <2>1, GpsBounds
    <3>2. /\ At(n, k) \in Unit /\ At(n, k) \notin lost
          /\ At(n, k).of = n /\ At(n, k).part = k
      BY <1>15, <1>17, <3>1
    <3>3. Gone(At(n, k)) \/ At(n, k) = h BY <1>11, <1>17, <2>5, <3>2
    <3>4. ~Gone(At(n, k))
      <4>1. SUFFICES ASSUME Gone(At(n, k)) PROVE FALSE OBVIOUS
      <4>2. n < h.of \/ (n = h.of /\ k < h.part) BY <4>1, <1>10, <3>2 DEF Before
      <4> QED BY <4>2, <2>4, <1>14, <1>0, UnitsCompare
    <3> QED BY <2>5, <3>2, <3>3, <3>4
  <2>6. CASE k = 0
    <3>1. h.of < n BY <2>4, <2>6, <1>14
    <3>2. n # since BY <3>1, <1>14, <1>0, UnitsCompare
    <3>3. At(n - 1, LineFeed) \in Unit /\ At(n - 1, LineFeed) \notin lost
      BY <3>2, <1>17, UndamagedKept, <1>0, UnitsCompare
    <3>4. Gone(At(n - 1, LineFeed)) \/ At(n - 1, LineFeed) = h BY <3>2, <3>3, <1>11, <1>17
    <3>5. ~Gone(At(n - 1, LineFeed))
      <4>1. SUFFICES ASSUME Gone(At(n - 1, LineFeed)) PROVE FALSE OBVIOUS
      <4>2. n - 1 < h.of \/ (n - 1 = h.of /\ LineFeed < h.part)
        BY <4>1, <1>10 DEF Before, At
      <4> QED BY <4>2, <3>1, <1>14, GpsBounds, <1>0, UnitsCompare
    <3> QED BY <2>6, <3>4, <3>5 DEF At
  <2> QED BY <2>5, <2>6
<1>18. LineIsPrefix'
  <2> SUFFICES ASSUME NEW n \in since..MaxSentences, NEW k \in 0..SentenceUnits, ~Damaged(n),
                      n = since \/ Gone(At(n - 1, LineFeed))', k = 0 \/ Gone(At(n, k))',
                      ~Gone(At(n, k + 1))'
               PROVE  line' = Prefix(n, k)
    BY <1>0, <1>1 DEF LineIsPrefix, Damaged
  <2>1. CASE k = 0 /\ h.part = LineFeed
    <3>1. line' = <<>> BY <1>25, <2>1 DEF PollUnit
    <3> QED BY <2>1, <3>1 DEF Prefix
  <2>2. CASE k # 0 /\ n = h.of /\ k = h.part
    <3>1. line = Prefix(n, k - 1) /\ h = At(n, k) BY <2>2, <1>14, <1>16
    <3>2. k \in 1..SentenceUnits /\ k - 1 \in Nat /\ k - 1 < LineUnits
      BY <2>2, GpsBounds
    <3>3. Len(line) = k - 1 /\ line \in Seq(Unit) BY <1>0, <3>1, <3>2 DEF Prefix, GpsTypeOK
    <3>4. line' = Append(line, h)
      <4>1. h.part # LineFeed BY <2>2, GpsBounds
      <4> QED BY <1>25, <3>2, <3>3, <4>1 DEF PollUnit, LineWith
    <3>5. /\ line' \in Seq(Unit) /\ Len(line') = k
          /\ \A i \in 1 .. k - 1 : line'[i] = line[i]
          /\ line'[k] = h
      <4>1. /\ Append(line, h) \in Seq(Unit) /\ Len(Append(line, h)) = Len(line) + 1
            /\ \A i \in 1..Len(line) : Append(line, h)[i] = line[i]
            /\ Append(line, h)[Len(line) + 1] = h
        BY <1>2, <3>3, AppendProperties
      <4> QED BY <3>2, <3>3, <3>4, <4>1
    <3>6. \A i \in 1..k : line'[i] = At(n, i)
      <4> SUFFICES ASSUME NEW i \in 1..k PROVE line'[i] = At(n, i) OBVIOUS
      <4>1. CASE i = k BY <4>1, <3>1, <3>5
      <4>2. CASE i # k
        <5>1. i \in 1 .. k - 1 BY <3>2, <4>2
        <5> QED BY <5>1, <3>1, <3>5 DEF Prefix
      <4> QED BY <4>1, <4>2
    <3>7. line' = [i \in 1..k |-> line'[i]] BY <3>5
    <3> QED BY <3>6, <3>7 DEF Prefix
  <2> QED BY <1>17, <2>1, <2>2
\* What becomes of the line.
<1>19. ASSUME h.part = LineFeed, ~Damaged(h.of) PROVE h.of \in parsed'
  <2>1. line = Prefix(h.of, SentenceUnits) BY <1>16, <1>19, GpsBounds
  <2>2. line = Sentence(h.of) /\ line[1].of = h.of
    BY <2>1, GpsBounds DEF Prefix, Sentence, At
  <2>3. h.of \in 1..MaxSentences BY <1>14, <1>0, UnitsCompare
  <2>4. Fits(line) BY <2>2, <2>3 DEF Fits
  <2>5. ParseSentence(line) BY <1>25, <1>19 DEF PollUnit
  <2> QED BY <2>2, <2>4, <2>5 DEF ParseSentence
<1>20. \/ UNCHANGED <<parsed, position>>
       \/ \E n : /\ line[1].of = n /\ Fits(line) /\ parsed' = parsed \cup {n}
                 /\ position' \in {position, n}
  BY DEF PollUnit, ParseSentence
<1>21. LinesParsed'
  <2> SUFFICES ASSUME NEW n \in since..MaxSentences, Gone(At(n, LineFeed))', ~Damaged(n)
               PROVE  n \in parsed'
    BY <1>0, <1>1 DEF LinesParsed, Damaged
  <2>1. LineFeed \in 1..LineFeed BY GpsBounds
  <2>2. At(n, LineFeed) \in Unit /\ At(n, LineFeed) \notin lost
        /\ At(n, LineFeed).of = n /\ At(n, LineFeed).part = LineFeed
    BY <1>15, <2>1
  <2>3. CASE Gone(At(n, LineFeed)) BY <1>0, <2>3, <1>20 DEF LinesParsed
  <2>4. CASE At(n, LineFeed) = h BY <2>2, <2>4, <1>19
  <2> QED BY <2>2, <2>3, <2>4, <1>11
<1>22. PositionIsNew'
  <2>1. CASE UNCHANGED <<parsed, position>> BY <1>0, <2>1, <1>1 DEF PositionIsNew
  <2>2. ASSUME NEW n, line[1].of = n, Fits(line), parsed' = parsed \cup {n},
               position' \in {position, n}
        PROVE  PositionIsNew'
    <3>1. PICK m \in 1..MaxSentences : line = Sentence(m) BY <2>2 DEF Fits
    <3>2. 1 \in DOMAIN line BY <3>1, GpsBounds DEF Sentence
    <3>3. line[1].of >= since BY <1>0, <3>2 DEF NoneOlder, In
    <3> QED BY <1>0, <2>2, <3>3, <1>1 DEF PositionIsNew
  <2> QED BY <1>20, <2>1, <2>2
<1>23. NoneOlder'
  <2>1. In(line') \subseteq In(line) \cup {h}
    <3>1. CASE line' = <<>> BY <3>1, EmptyIn
    <3>2. CASE line' = Append(line, h)
      <4>1. line \in Seq(Unit) BY <1>0 DEF GpsTypeOK
      <4> QED BY <3>2, <4>1, <1>2, InSequences
    <3> QED BY <1>25, <3>1, <3>2 DEF PollUnit, LineWith
  <2> QED BY <1>0, <2>1, <1>1, <1>4 DEF NoneOlder
<1> QED BY <1>6, <1>13, <1>18, <1>21, <1>22, <1>23 DEF StreamRight

\* The invariant.
LEMMA GpsInitRight == GpsInit => GpsInv
<1> SUFFICES ASSUME GpsInit PROVE GpsInv OBVIOUS
<1>1. GpsTypeOK BY GpsInitTypeOK
<1> QED BY <1>1 DEF GpsInit, GpsInv, Receives, PositionIsNew

LEMMA GpsStep == GpsInv /\ [GpsNext]_gpsVars => GpsInv'
<1> SUFFICES ASSUME GpsInv, [GpsNext]_gpsVars PROVE GpsInv' OBVIOUS
<1>1. GpsTypeOK' BY GpsTypeStep DEF GpsInv
<1> DEFINE Beside == /\ Receives' /\ PositionIsNew' /\ (uart \in {"off", "failed"} => buffer = <<>>)'
                   /\ (~gpsReady => position = NoPosition)' /\ (since <= next.of)'
<1>2. CASE SendUnit
  <2>1. since <= next'.of
    <3>1. next'.of \in {next.of, next.of + 1} BY <1>2 DEF SendUnit, AfterUnit
    <3> QED BY <3>1, UnitsCompare DEF GpsInv
  <2>2. Beside BY <1>2, <2>1 DEF SendUnit, GpsInv, Receives, PositionIsNew
  <2>3. gpsReady' => StreamRight' BY <1>1, <1>2, SendKeeps DEF SendUnit
  <2> QED BY <1>1, <2>2, <2>3 DEF GpsInv
<1>3. CASE ReceptionReady
  <2>1. Beside BY <1>3 DEF ReceptionReady, GpsInv, Receives, PositionIsNew
  <2>2. gpsReady' => StreamRight' BY <1>1, <1>3, ReadyKeeps DEF ReceptionReady
  <2> QED BY <1>1, <2>1, <2>2 DEF GpsInv
<1>4. ASSUME UNCHANGED <<gpsReady, next, buffer, ring, line, position, since, parsed, lost>>,
             Receives', uart' \in {"off", "failed"} => buffer = <<>>
      PROVE  GpsInv'
  <2>1. Beside BY <1>4 DEF GpsInv, PositionIsNew
  <2>2. StreamRight <=> StreamRight'
    BY <1>4 DEF StreamRight, InOrder, NoneOlder, Accounted, LineIsPrefix, LinesParsed, Gone,
                Sent, Waiting, Damaged
  <2> QED BY <1>1, <1>4, <2>1, <2>2 DEF GpsInv
<1>5. CASE ReceptionStops BY <1>4, <1>5 DEF ReceptionStops, GpsInv, Receives
<1>6. CASE ReceptionDisabled BY <1>4, <1>6 DEF ReceptionDisabled, GpsInv, Receives
<1>7. CASE ChangeWish BY <1>4, <1>7 DEF ChangeWish, GpsInv, Receives
<1>8. CASE StopStream
  <2>1. ~gpsReady' /\ position' = NoPosition
        /\ UNCHANGED <<next, buffer, ring, since, parsed>>
    BY <1>8 DEF StopStream
  <2>2. Receives' /\ (uart' \in {"off", "failed"} => buffer' = <<>>)
    <3>1. buffer' = buffer /\ ~gpsReady' BY <2>1
    <3>2. CASE ~gpsReady
      <4>1. uart' = uart BY <1>8, <3>2 DEF StopStream, GpsInv, Receives
      <4> QED BY <3>1, <3>2, <4>1 DEF GpsInv, Receives
    <3>3. CASE gpsReady /\ uart = "failed"
      <4>1. uart' = "off" BY <1>8, <3>3 DEF StopStream
      <4> QED BY <3>1, <3>3, <4>1 DEF GpsInv, Receives
    <3>4. CASE gpsReady /\ uart # "failed"
      <4>1. uart' = "stopping" BY <1>8, <3>4 DEF StopStream
      <4> QED BY <3>1, <4>1 DEF Receives
    <3> QED BY <3>2, <3>3, <3>4
  <2>3. PositionIsNew' /\ since' <= next'.of BY <2>1 DEF PositionIsNew, GpsInv
  <2> QED BY <1>1, <2>1, <2>2, <2>3 DEF GpsInv
<1>9. CASE InitStream
  <2>1. Beside
    <3>1. since' <= next'.of BY <1>9, UnitsCompare DEF InitStream, GpsInv
    <3>2. position = NoPosition /\ buffer = <<>> /\ parsed' = {}
      BY <1>9 DEF InitStream, GpsInv
    <3> QED BY <1>9, <3>1, <3>2 DEF InitStream, GpsInv, Receives, PositionIsNew
  <2>2. gpsReady' => StreamRight' BY <1>1, <1>9, InitStreamKeeps
  <2> QED BY <1>1, <2>1, <2>2 DEF GpsInv
<1>10. CASE PollUnit
  <2>1. StreamRight' /\ PositionIsNew' BY <1>1, <1>10, PollKeeps
  <2> QED BY <1>1, <1>10, <2>1 DEF PollUnit, GpsInv, Receives
<1>11. CASE MinutePasses BY <1>4, <1>11 DEF MinutePasses, GpsInv, Receives
<1>12. CASE UNCHANGED gpsVars BY <1>4, <1>12 DEF gpsVars, GpsInv, Receives
<1> QED BY <1>2, <1>3, <1>5, <1>6, <1>7, <1>8, <1>9, <1>10, <1>11, <1>12 DEF GpsNext

LEMMA GpsInvRight == GpsInv => FixIsReceived
<1> SUFFICES ASSUME GpsInv PROVE NothingElseMissed
  BY DEF FixIsReceived, GpsInv
<1> SUFFICES ASSUME gpsReady, NEW n \in since .. next.of - 1, Behind(n)
             PROVE  n \in parsed \/ Damaged(n)
  BY DEF NothingElseMissed
<1>1. n \in Nat /\ n >= since /\ n < next.of /\ next.of <= MaxSentences + 1
      /\ n \in since..MaxSentences
  BY UnitsCompare, GpsBounds DEF GpsInv, GpsTypeOK
<1>2. At(n, LineFeed).of = n BY DEF At
<1>3. Sent(At(n, LineFeed)) BY <1>1, <1>2 DEF Sent, Before
<1>4. \A v \in Waiting : Before(At(n, LineFeed), v)
  BY <1>2 DEF Behind, Waiting, Before
<1> QED BY <1>1, <1>3, <1>4 DEF Gone, GpsInv, StreamRight, LinesParsed

\* For buffers, rings, lines and sentences of any size every variable of the
\* stream keeps its type, and ring and line their lengths (edgez_gps.c).
THEOREM GpsTypeCorrect == GpsSpec => []GpsTypeOK
BY GpsInitTypeOK, GpsTypeStep, PTL DEF GpsSpec

\* Whatever interrupts come in the middle of the main loop, whatever is lost and
\* however often GPS is turned off and on: positions are of the present stream,
\* only damaged sentences are missed, and reception goes on (edgez_gps.c).
THEOREM FixIsReceivedHolds == GpsSpec => []FixIsReceived
BY GpsInitRight, GpsStep, GpsInvRight, PTL DEF GpsSpec

\* --------------------------------------------------- the Bluetooth services

\* A unit of the client's stream, and what was asked and is not handled yet.
StreamUnit == [id : Nat, part : {"magic", "length", "payload"}]
Ahead == rxBuffer \o stream.toWrite

BleShape ==
  /\ client \in [link : Nat, notify : BOOLEAN]
  /\ stream \in [sizes : Seq(Nat), toWrite : Seq(StreamUnit)]
  /\ rxBuffer \in Seq(StreamUnit)
  /\ callback \in {"idle", "frames", "packet", "apply"}
  /\ reply \in [link : Nat, id : Nat, retries : Nat]
  /\ handled \in Seq(Nat)
  /\ answered \in Seq([id : Nat, link : Nat])
  /\ linkCount \in Nat

\* Units are of requests that were asked, in their order, and a frame that
\* begins among them is whole and followed by the beginning of a later one.
UnitsAsked(w, sizes) == \A i \in 1..Len(w) : w[i].id \in 1..Len(sizes)
UnitsInOrder(w) == \A i, k \in 1..Len(w) : i <= k => w[i].id <= w[k].id
FrameAt(w, sizes, i) ==
  LET last == i + 1 + sizes[w[i].id] IN
  /\ last <= Len(w)
  /\ \A k \in i..last : w[k].id = w[i].id
  /\ last < Len(w) => w[last + 1].part = "magic" /\ w[i].id < w[last + 1].id
FramesWhole(w, sizes) == \A i \in 1..Len(w) : w[i].part = "magic" => FrameAt(w, sizes, i)
Ordered(w, sizes) == UnitsAsked(w, sizes) /\ UnitsInOrder(w) /\ FramesWhole(w, sizes)

\* What comes first begins a frame, unless one that is too long came before it.
LongBy(sizes, id) == \E long \in 1..id : sizes[long] > MaxPayload
InStep(w, sizes) == w # <<>> => w[1].part = "magic" \/ LongBy(sizes, w[1].id)

\* Every request was handled, or is ahead, or one that is too long was before it.
NoneLost(w, sizes, done) ==
  \A id \in 1..Len(sizes) :
    \/ \E i \in 1..Len(done) : done[i] = id
    \/ \E k \in 1..Len(w) : w[k].id = id
    \/ LongBy(sizes, id)

DoneBefore(w, sizes, done) ==
  /\ AllInOrder(done)
  /\ \A i \in 1..Len(done) : done[i] \in 1..Len(sizes)
  /\ \A i \in 1..Len(done) : \A k \in 1..Len(w) : done[i] < w[k].id

StreamInv(w, sizes, done) ==
  Ordered(w, sizes) /\ InStep(w, sizes) /\ NoneLost(w, sizes, done)
  /\ DoneBefore(w, sizes, done)

\* Between two callbacks the buffer holds less than the longest frame, and the
\* packet handler has a whole one, or a link that was lost took it away.
BufferRight ==
  /\ callback \in {"idle", "apply"} => Len(rxBuffer) < HeaderUnits + MaxPayload
  /\ callback = "packet" =>
       \/ rxBuffer = <<>> /\ client.link = 0
       \/ /\ Len(rxBuffer) >= HeaderUnits /\ rxBuffer[1].part = "magic"
          /\ stream.sizes[rxBuffer[2].id] <= MaxPayload
          /\ HeaderUnits + stream.sizes[rxBuffer[2].id] <= Len(rxBuffer)

Forgotten ==
  client.link = 0
    => /\ stream = NothingAsked /\ rxBuffer = <<>> /\ handled = <<>> /\ answered = <<>>
       /\ reply = NoReply

AnswersRight ==
  /\ \A i, j \in 1..Len(answered) : i < j => answered[i].id < answered[j].id
  /\ \A i \in 1..Len(answered) :
       /\ answered[i].link = client.link
       /\ \E j \in 1..Len(handled) : handled[j] = answered[i].id
  /\ reply # NoReply =>
       /\ client.link # 0 /\ reply.link = client.link
       /\ \E j \in 1..Len(handled) : handled[j] = reply.id
       /\ \A i \in 1..Len(answered) : answered[i].id < reply.id

ServiceInv ==
  /\ BleShape /\ StreamInv(Ahead, stream.sizes, handled)
  /\ BufferRight /\ Forgotten /\ AnswersRight

\* ------------------------------------------------------------------- streams
LEMMA DropKeeps ==
  ASSUME NEW w \in Seq(StreamUnit), NEW sizes \in Seq(Nat), NEW m \in 0..Len(w)
  PROVE  LET v == SubSeq(w, m + 1, Len(w)) IN
         /\ v \in Seq(StreamUnit) /\ Len(v) = Len(w) - m
         /\ \A i \in 1..Len(v) : v[i] = w[m + i]
         /\ Ordered(w, sizes) => Ordered(v, sizes)
<1> DEFINE v == SubSeq(w, m + 1, Len(w))
<1>0. m \in Nat /\ Len(w) \in Nat /\ m <= Len(w) OBVIOUS
<1>1. v \in Seq(StreamUnit) /\ Len(v) = Len(w) - m /\ \A i \in 1..Len(v) : v[i] = w[m + i]
  BY <1>0
<1> HIDE DEF v
<1>2. ASSUME Ordered(w, sizes) PROVE Ordered(v, sizes)
  <2>1. \A i \in 1..Len(v) : m + i \in 1..Len(w) /\ v[i] = w[m + i] BY <1>0, <1>1
  <2>2. UnitsAsked(v, sizes) BY <1>2, <2>1 DEF Ordered, UnitsAsked
  <2>3. UnitsInOrder(v)
    <3> SUFFICES ASSUME NEW i \in 1..Len(v), NEW k \in 1..Len(v), i <= k
                 PROVE  v[i].id <= v[k].id
      BY DEF UnitsInOrder
    <3>1. m + i <= m + k BY <1>0, <1>1
    <3> QED BY <1>2, <2>1, <3>1 DEF Ordered, UnitsInOrder
  <2>4. FramesWhole(v, sizes)
    <3> SUFFICES ASSUME NEW i \in 1..Len(v), v[i].part = "magic" PROVE FrameAt(v, sizes, i)
      BY DEF FramesWhole
    <3> DEFINE size == sizes[v[i].id]
    <3>1. size \in Nat BY <2>2 DEF UnitsAsked
    <3>2. FrameAt(w, sizes, m + i) /\ w[m + i] = v[i]
      BY <1>2, <2>1 DEF Ordered, FramesWhole
    <3>3. /\ m + i + 1 + size <= Len(w)
          /\ \A k \in m + i .. m + i + 1 + size : w[k].id = v[i].id
          /\ m + i + 1 + size < Len(w) => /\ w[m + i + 1 + size + 1].part = "magic"
                                          /\ v[i].id < w[m + i + 1 + size + 1].id
      BY <3>2 DEF FrameAt
    <3> HIDE DEF size
    <3>4. i + 1 + size <= Len(v) BY <1>0, <1>1, <3>1, <3>3
    <3>5. ASSUME NEW k \in i .. i + 1 + size PROVE v[k].id = v[i].id
      <4> DEFINE q == m + k
      <4>1. k \in 1..Len(v) /\ q \in m + i .. m + i + 1 + size
        BY <1>0, <1>1, <3>1, <3>4
      <4>2. v[k] = w[q] BY <2>1, <4>1
      <4> HIDE DEF q
      <4>3. w[q].id = v[i].id BY <3>3, <4>1
      <4> QED BY <4>2, <4>3
    <3>6. ASSUME i + 1 + size < Len(v)
          PROVE  v[i + 1 + size + 1].part = "magic" /\ v[i].id < v[i + 1 + size + 1].id
      <4> DEFINE after == i + 1 + size + 1
      <4>1. after \in 1..Len(v) /\ m + i + 1 + size < Len(w)
            /\ m + after = m + i + 1 + size + 1
        BY <1>0, <1>1, <3>1, <3>6
      <4> HIDE DEF after
      <4>2. v[after] = w[m + after] BY <2>1, <4>1
      <4>3. v[after].part = "magic" /\ v[i].id < v[after].id BY <3>3, <4>1, <4>2
      <4> QED BY <4>3 DEF after
    <3> QED BY <3>4, <3>5, <3>6 DEF FrameAt, size
  <2> QED BY <2>2, <2>3, <2>4 DEF Ordered
<1> QED BY <1>1, <1>2 DEF v

LEMMA FrameRight ==
  ASSUME NEW id \in Nat, NEW size \in Nat
  PROVE  /\ Frame(id, size) \in Seq(StreamUnit) /\ Len(Frame(id, size)) = size + 2
         /\ \A i \in 1 .. size + 2 : /\ Frame(id, size)[i].id = id
                                     /\ Frame(id, size)[i].part = "magic" <=> i = 1
<1> DEFINE head == <<[id |-> id, part |-> "magic"], [id |-> id, part |-> "length"]>>
           tail == [i \in 1 .. size |-> [id |-> id, part |-> "payload"]]
<1>1. head \in Seq(StreamUnit) /\ Len(head) = 2 /\ head[1] = [id |-> id, part |-> "magic"]
      /\ head[2] = [id |-> id, part |-> "length"]
  BY DEF StreamUnit
<1>2. tail \in Seq(StreamUnit) /\ Len(tail) = size
      /\ \A i \in 1..size : tail[i] = [id |-> id, part |-> "payload"]
  BY DEF StreamUnit
<1>3. Frame(id, size) = head \o tail BY DEF Frame
<1> HIDE DEF head, tail
<1>4. /\ head \o tail \in Seq(StreamUnit) /\ Len(head \o tail) = size + 2
      /\ \A i \in 1 .. size + 2 : (head \o tail)[i] = IF i <= 2 THEN head[i] ELSE tail[i - 2]
  <2>1. /\ head \o tail \in Seq(StreamUnit) /\ Len(head \o tail) = Len(head) + Len(tail)
        /\ \A i \in 1 .. Len(head) + Len(tail) :
             (head \o tail)[i] = IF i <= Len(head) THEN head[i] ELSE tail[i - Len(head)]
    BY <1>1, <1>2, ConcatProperties, Zenon
  <2>2. Len(head) + Len(tail) = size + 2 BY <1>1, <1>2
  <2> QED BY <1>1, <2>1, <2>2
<1>5. ASSUME NEW i \in 1 .. size + 2
      PROVE  /\ (head \o tail)[i].id = id
             /\ (head \o tail)[i].part = "magic" <=> i = 1
  <2>0. i = 1 \/ i = 2 \/ i > 2 OBVIOUS
  <2>1. CASE i = 1
    <3>1. (head \o tail)[i] = head[1] BY <1>4, <2>1
    <3> QED BY <1>1, <2>1, <3>1
  <2>2. CASE i = 2
    <3>1. (head \o tail)[i] = head[2] BY <1>4, <2>2
    <3> QED BY <1>1, <2>2, <3>1
  <2>3. CASE i > 2
    <3>1. i - 2 \in 1..size BY <2>3
    <3> QED BY <1>2, <1>4, <2>3, <3>1
  <2> QED BY <2>0, <2>1, <2>2, <2>3, Zenon
<1> QED BY <1>3, <1>4, <1>5

\* A new request, behind all others.
LEMMA AskKeeps ==
  ASSUME NEW w \in Seq(StreamUnit), NEW sizes \in Seq(Nat), NEW done \in Seq(Nat),
         NEW size \in Nat, StreamInv(w, sizes, done)
  PROVE  StreamInv(w \o Frame(Len(sizes) + 1, size), Append(sizes, size), done)
<1> DEFINE id == Len(sizes) + 1
           frame == Frame(id, size)
           v == w \o frame
           more == Append(sizes, size)
<1>0. id \in Nat OBVIOUS
<1>1. /\ frame \in Seq(StreamUnit) /\ Len(frame) = size + 2
      /\ \A i \in 1 .. size + 2 : /\ frame[i].id = id
                                  /\ frame[i].part = "magic" <=> i = 1
  BY <1>0, FrameRight, Zenon
<1>2. id \in Nat /\ Len(w) \in Nat /\ id = Len(sizes) + 1 OBVIOUS
<1>3. /\ more \in Seq(Nat) /\ Len(more) = id /\ more[id] = size
      /\ \A i \in 1..Len(sizes) : more[i] = sizes[i]
  OBVIOUS
<1> HIDE DEF frame, more, id
<1>4. /\ v \in Seq(StreamUnit) /\ Len(v) = Len(w) + size + 2
      /\ \A i \in 1..Len(v) : v[i] = IF i <= Len(w) THEN w[i] ELSE frame[i - Len(w)]
  <2>1. /\ v \in Seq(StreamUnit) /\ Len(v) = Len(w) + Len(frame)
        /\ \A i \in 1 .. Len(w) + Len(frame) :
             v[i] = IF i <= Len(w) THEN w[i] ELSE frame[i - Len(w)]
    BY <1>1, ConcatProperties, Zenon
  <2> QED BY <1>1, <1>2, <2>1
<1> HIDE DEF v
<1>5. \A i \in 1..Len(w) : i \in 1..Len(v) /\ v[i] = w[i] /\ w[i].id \in 1..Len(sizes)
  BY <1>2, <1>4 DEF StreamInv, Ordered, UnitsAsked
<1>6. ASSUME NEW i \in 1..Len(v), i > Len(w)
      PROVE  v[i].id = id /\ (v[i].part = "magic" => i = Len(w) + 1)
  <2>1. i - Len(w) \in 1 .. size + 2 BY <1>2, <1>4, <1>6
  <2>2. v[i] = frame[i - Len(w)] BY <1>2, <1>4, <1>6
  <2>3. frame[i - Len(w)].id = id /\ (frame[i - Len(w)].part = "magic" => i - Len(w) = 1)
    BY <1>1, <2>1
  <2> QED BY <1>2, <2>1, <2>2, <2>3
<1>7. Len(w) + 1 \in 1..Len(v) /\ v[Len(w) + 1].part = "magic" /\ v[Len(w) + 1].id = id
  <2>1. Len(w) + 1 \in 1..Len(v) /\ 1 \in 1 .. size + 2 /\ Len(w) + 1 - Len(w) = 1
    BY <1>2, <1>4
  <2>2. v[Len(w) + 1] = frame[1] BY <1>2, <1>4, <2>1
  <2> QED BY <1>1, <2>1, <2>2
<1>8. UnitsAsked(v, more)
  <2> SUFFICES ASSUME NEW i \in 1..Len(v) PROVE v[i].id \in 1..id
    BY <1>3 DEF UnitsAsked
  <2>1. CASE i <= Len(w)
    <3>1. i \in 1..Len(w) BY <1>2, <2>1
    <3> QED BY <1>2, <1>5, <3>1
  <2>2. CASE i > Len(w) BY <1>2, <1>6, <2>2
  <2> QED BY <1>2, <2>1, <2>2
<1>9. UnitsInOrder(v)
  <2> SUFFICES ASSUME NEW i \in 1..Len(v), NEW k \in 1..Len(v), i <= k
               PROVE  v[i].id <= v[k].id
    BY DEF UnitsInOrder
  <2>1. v[i].id \in 1..id BY <1>3, <1>8 DEF UnitsAsked
  <2>2. CASE k > Len(w) BY <1>2, <1>6, <2>1, <2>2
  <2>3. CASE k <= Len(w)
    <3>1. i \in 1..Len(w) /\ k \in 1..Len(w) BY <1>2, <2>3
    <3>2. w[i].id <= w[k].id BY <3>1 DEF StreamInv, Ordered, UnitsInOrder
    <3> QED BY <1>5, <3>1, <3>2
  <2> QED BY <1>2, <2>2, <2>3
<1>10. FramesWhole(v, more)
  <2> SUFFICES ASSUME NEW i \in 1..Len(v), v[i].part = "magic" PROVE FrameAt(v, more, i)
    BY DEF FramesWhole
  <2>1. CASE i <= Len(w)
    <3>1. i \in 1..Len(w) /\ v[i] = w[i] /\ w[i].id \in 1..Len(sizes) BY <1>2, <1>5, <2>1
    <3> DEFINE of == w[i].id
               last == i + 1 + sizes[of]
    <3>2. FrameAt(w, sizes, i) BY <3>1 DEF StreamInv, Ordered, FramesWhole
    <3>3. sizes[of] \in Nat /\ more[of] = sizes[of] BY <1>3, <3>1
    <3>4. /\ last <= Len(w)
          /\ \A k \in i..last : w[k].id = of
          /\ last < Len(w) => w[last + 1].part = "magic" /\ of < w[last + 1].id
      BY <3>2 DEF FrameAt
    <3>5. last \in Nat /\ i \in Nat BY <3>3
    <3>6. v[i].id = of BY <3>1
    <3>a. of \in 1..Len(sizes) BY <3>1
    <3> HIDE DEF of
    <3>b. i + 1 + more[of] = last BY <3>3
    <3> HIDE DEF last
    <3>7. last <= Len(v) BY <1>2, <1>4, <3>4, <3>5
    <3>8. \A k \in i..last : v[k].id = of
      <4> SUFFICES ASSUME NEW k \in i..last PROVE v[k].id = of OBVIOUS
      <4>1. k \in 1..Len(w) BY <1>2, <3>4, <3>5
      <4> QED BY <1>5, <3>4, <4>1
    <3>9. v[last + 1].part = "magic" /\ of < v[last + 1].id
      <4>1. CASE last < Len(w)
        <5>1. last + 1 \in 1..Len(w) BY <1>2, <3>5, <4>1
        <5> QED BY <1>5, <3>4, <4>1, <5>1
      <4>2. CASE ~(last < Len(w))
        <5>1. last = Len(w) BY <1>2, <3>4, <3>5, <4>2
        <5> QED BY <1>2, <1>7, <3>a, <5>1
      <4> QED BY <4>1, <4>2
    <3> QED BY <3>6, <3>b, <3>7, <3>8, <3>9 DEF FrameAt
  <2>2. CASE i > Len(w)
    <3>1. i = Len(w) + 1 /\ v[i].id = id BY <1>6, <2>2
    <3> DEFINE last == i + 1 + size
    <3>2. last = Len(v) /\ i + 1 + more[v[i].id] = last BY <1>2, <1>3, <1>4, <3>1
    <3>3. \A k \in i..last : v[k].id = id
      <4> SUFFICES ASSUME NEW k \in i..last PROVE v[k].id = id OBVIOUS
      <4>1. k \in 1..Len(v) /\ k > Len(w) BY <1>2, <1>4, <3>1, <3>2
      <4> QED BY <1>6, <4>1
    <3> HIDE DEF last
    <3>4. last <= Len(v) /\ ~(last < Len(v)) BY <1>2, <1>4, <3>2
    <3> QED BY <3>1, <3>2, <3>3, <3>4 DEF FrameAt
  <2> QED BY <1>2, <2>1, <2>2
<1>11. ASSUME NEW j \in 1..Len(sizes), LongBy(sizes, j) PROVE LongBy(more, j)
  <2>1. PICK long \in 1..j : sizes[long] > MaxPayload BY <1>11 DEF LongBy
  <2>2. long \in 1..Len(sizes) OBVIOUS
  <2> QED BY <1>3, <2>1, <2>2 DEF LongBy
<1>12. InStep(v, more)
  <2>1. CASE Len(w) = 0
    <3>1. v[1].part = "magic" BY <1>7, <2>1
    <3> QED BY <3>1 DEF InStep
  <2>2. CASE Len(w) # 0
    <3>1. w # <<>> /\ 1 \in 1..Len(w) BY <1>2, <2>2
    <3>2. v[1] = w[1] /\ w[1].id \in 1..Len(sizes) BY <1>5, <3>1
    <3>3. w[1].part = "magic" \/ LongBy(sizes, w[1].id) BY <3>1 DEF StreamInv, InStep
    <3> QED BY <1>11, <3>2, <3>3 DEF InStep
  <2> QED BY <2>1, <2>2
<1>13. NoneLost(v, more, done)
  <2> SUFFICES ASSUME NEW j \in 1..id
               PROVE  \/ \E i \in 1..Len(done) : done[i] = j
                      \/ \E k \in 1..Len(v) : v[k].id = j
                      \/ LongBy(more, j)
    BY <1>3 DEF NoneLost
  <2>1. CASE j = id BY <1>7, <2>1
  <2>2. CASE j # id
    <3>1. j \in 1..Len(sizes) BY <1>2, <2>2
    <3>2. \/ \E i \in 1..Len(done) : done[i] = j
          \/ \E k \in 1..Len(w) : w[k].id = j
          \/ LongBy(sizes, j)
      BY <3>1 DEF StreamInv, NoneLost
    <3>3. ASSUME NEW k \in 1..Len(w), w[k].id = j PROVE \E m \in 1..Len(v) : v[m].id = j
      BY <1>5, <3>3
    <3> QED BY <1>11, <3>1, <3>2, <3>3
  <2> QED BY <2>1, <2>2
<1>14. DoneBefore(v, more, done)
  <2>1. /\ AllInOrder(done)
        /\ \A i \in 1..Len(done) : /\ done[i] \in 1..Len(sizes)
                                   /\ \A k \in 1..Len(w) : done[i] < w[k].id
    BY DEF StreamInv, DoneBefore
  <2>2. \A i \in 1..Len(done) : done[i] \in 1..Len(more)
    BY <1>2, <1>3, <2>1
  <2>3. ASSUME NEW i \in 1..Len(done), NEW k \in 1..Len(v) PROVE done[i] < v[k].id
    <3>1. CASE k <= Len(w)
      <4>1. k \in 1..Len(w) BY <1>2, <3>1
      <4> QED BY <1>5, <2>1, <4>1
    <3>2. CASE k > Len(w) BY <1>2, <1>6, <2>1, <3>2
    <3> QED BY <1>2, <3>1, <3>2
  <2> QED BY <2>1, <2>2, <2>3 DEF DoneBefore
<1> QED BY <1>8, <1>9, <1>10, <1>12, <1>13, <1>14 DEF StreamInv, Ordered, v, frame, more, id

\* A frame is handled and taken away.
LEMMA HandleKeeps ==
  ASSUME NEW w \in Seq(StreamUnit), NEW sizes \in Seq(Nat), NEW done \in Seq(Nat),
         StreamInv(w, sizes, done), w # <<>>, w[1].part = "magic"
  PROVE  LET m == HeaderUnits + sizes[w[1].id] IN
         /\ m \in 0..Len(w)
         /\ StreamInv(SubSeq(w, m + 1, Len(w)), sizes, Append(done, w[1].id))
<1> DEFINE id == w[1].id
           m == HeaderUnits + sizes[id]
           v == SubSeq(w, m + 1, Len(w))
           more == Append(done, id)
<1>0. Len(w) \in Nat /\ 1 \in 1..Len(w) OBVIOUS
<1>1. id \in 1..Len(sizes) /\ sizes[id] \in Nat
  BY <1>0 DEF StreamInv, Ordered, UnitsAsked
<1>2. FrameAt(w, sizes, 1) BY <1>0 DEF StreamInv, Ordered, FramesWhole
<1>3. m = 1 + 1 + sizes[id] /\ m \in Nat BY <1>1 DEF HeaderUnits
<1>4. /\ m <= Len(w) /\ \A k \in 1..m : w[k].id = id
      /\ m < Len(w) => w[m + 1].part = "magic" /\ id < w[m + 1].id
  BY <1>2, <1>3 DEF FrameAt
<1>5. Ordered(w, sizes) BY DEF StreamInv
<1>a. /\ more \in Seq(Nat) /\ Len(more) = Len(done) + 1 /\ more[Len(more)] = id
      /\ \A i \in 1..Len(done) : more[i] = done[i]
  BY <1>1
<1> HIDE DEF m, id, more
<1>6. m \in 0..Len(w) BY <1>0, <1>3, <1>4
<1>7. /\ v \in Seq(StreamUnit) /\ Len(v) = Len(w) - m
      /\ \A i \in 1..Len(v) : v[i] = w[m + i]
      /\ Ordered(v, sizes)
  BY <1>5, <1>6, DropKeeps
<1> HIDE DEF v
<1>8. \A k \in 1..Len(v) : id < v[k].id /\ v[k].id \in 1..Len(sizes)
  <2> SUFFICES ASSUME NEW k \in 1..Len(v) PROVE id < v[k].id /\ v[k].id \in 1..Len(sizes)
    OBVIOUS
  <2>1. v[k].id \in 1..Len(sizes) BY <1>7 DEF Ordered, UnitsAsked
  <2>2. 1 \in 1..Len(v) /\ 1 <= k /\ m < Len(w) BY <1>0, <1>3, <1>7
  <2>3. v[1] = w[m + 1] BY <1>7, <2>2
  <2>4. v[1].id <= v[k].id BY <1>7, <2>2 DEF Ordered, UnitsInOrder
  <2>5. v[1].id \in 1..Len(sizes) BY <1>7, <2>2 DEF Ordered, UnitsAsked
  <2> QED BY <1>1, <1>4, <2>1, <2>2, <2>3, <2>4, <2>5
<1>9. InStep(v, sizes)
  <2> SUFFICES ASSUME v # <<>> PROVE v[1].part = "magic" BY DEF InStep
  <2>1. 1 \in 1..Len(v) /\ m < Len(w) BY <1>0, <1>3, <1>7
  <2> QED BY <1>4, <1>7, <2>1
<1>10. NoneLost(v, sizes, more)
  <2> SUFFICES ASSUME NEW j \in 1..Len(sizes)
               PROVE  \/ \E i \in 1..Len(more) : more[i] = j
                      \/ \E k \in 1..Len(v) : v[k].id = j
                      \/ LongBy(sizes, j)
    BY DEF NoneLost
  <2>1. \/ \E i \in 1..Len(done) : done[i] = j
        \/ \E k \in 1..Len(w) : w[k].id = j
        \/ LongBy(sizes, j)
    BY DEF StreamInv, NoneLost
  <2>2. ASSUME NEW i \in 1..Len(done), done[i] = j PROVE \E n \in 1..Len(more) : more[n] = j
    <3>1. i \in 1..Len(more) BY <1>a
    <3> QED BY <1>a, <2>2, <3>1
  <2>3. ASSUME NEW k \in 1..Len(w), w[k].id = j
        PROVE  \/ \E n \in 1..Len(more) : more[n] = j
               \/ \E n \in 1..Len(v) : v[n].id = j
    <3>1. CASE k <= m
      <4>1. j = id BY <1>3, <1>4, <2>3, <3>1
      <4>2. Len(more) \in 1..Len(more) BY <1>a
      <4> QED BY <1>a, <4>1, <4>2
    <3>2. CASE k > m
      <4> DEFINE n == k - m
      <4>1. n \in 1..Len(v) /\ m + n = k
        <5>1. m \in Nat /\ k \in Nat /\ k <= Len(w) /\ Len(v) = Len(w) - m BY <1>3, <1>7
        <5> QED BY <1>0, <3>2, <5>1
      <4>2. v[n] = w[m + n] BY <1>7, <4>1
      <4> HIDE DEF n
      <4> QED BY <2>3, <4>1, <4>2
    <3> QED BY <1>3, <3>1, <3>2
  <2> QED BY <2>1, <2>2, <2>3
<1>11. DoneBefore(v, sizes, more)
  <2>1. /\ AllInOrder(done)
        /\ \A i \in 1..Len(done) : /\ done[i] \in 1..Len(sizes)
                                   /\ \A k \in 1..Len(w) : done[i] < w[k].id
    BY DEF StreamInv, DoneBefore
  <2>2. \A i \in 1..Len(done) : done[i] < id /\ more[i] = done[i] /\ i \in 1..Len(more)
    BY <1>0, <1>a, <2>1 DEF id
  <2>3. \A i \in 1..Len(more) : i \in 1..Len(done) \/ i = Len(more) BY <1>a
  <2>4. AllInOrder(more)
    <3> SUFFICES ASSUME NEW i \in 1..Len(more), NEW j \in 1..Len(more), i < j
                 PROVE  more[i] < more[j]
      BY DEF AllInOrder
    <3>1. i \in 1..Len(done) BY <1>a
    <3>2. CASE j = Len(more) BY <1>a, <2>2, <3>1, <3>2
    <3>3. CASE j \in 1..Len(done) BY <2>1, <2>2, <3>1, <3>3 DEF AllInOrder
    <3> QED BY <2>3, <3>2, <3>3
  <2>5. \A i \in 1..Len(more) : more[i] \in 1..Len(sizes) BY <1>1, <1>a, <2>1, <2>2, <2>3
  <2>6. ASSUME NEW i \in 1..Len(more), NEW k \in 1..Len(v) PROVE more[i] < v[k].id
    <3>1. id < v[k].id /\ v[k].id \in Nat BY <1>8
    <3>2. CASE i = Len(more) BY <1>a, <3>1, <3>2
    <3>3. CASE i \in 1..Len(done)
      <4>1. done[i] < id /\ more[i] = done[i] /\ done[i] \in Nat BY <2>1, <2>2, <3>3
      <4>2. id \in Nat BY <1>1
      <4> QED BY <3>1, <4>1, <4>2
    <3> QED BY <2>3, <3>2, <3>3
  <2> QED BY <2>4, <2>5, <2>6 DEF DoneBefore
<1> QED BY <1>6, <1>7, <1>9, <1>10, <1>11 DEF StreamInv, v, m, id, more

\* What is ahead is thrown away in part, after a request that is too long.
LEMMA DiscardKeeps ==
  ASSUME NEW w \in Seq(StreamUnit), NEW sizes \in Seq(Nat), NEW done \in Seq(Nat),
         StreamInv(w, sizes, done), w # <<>>, LongBy(sizes, w[1].id), NEW m \in 0..Len(w)
  PROVE  StreamInv(SubSeq(w, m + 1, Len(w)), sizes, done)
<1> DEFINE v == SubSeq(w, m + 1, Len(w))
<1>0. Len(w) \in Nat /\ 1 \in 1..Len(w) /\ m \in Nat OBVIOUS
<1>1. /\ v \in Seq(StreamUnit) /\ Len(v) = Len(w) - m
      /\ \A i \in 1..Len(v) : v[i] = w[m + i]
      /\ Ordered(v, sizes) /\ Ordered(w, sizes)
  BY DropKeeps DEF StreamInv
<1> HIDE DEF v
<1>2. \A k \in 1..Len(w) : w[k].id \in 1..Len(sizes) /\ LongBy(sizes, w[k].id)
  <2> SUFFICES ASSUME NEW k \in 1..Len(w)
               PROVE  w[k].id \in 1..Len(sizes) /\ LongBy(sizes, w[k].id)
    OBVIOUS
  <2>1. w[1].id <= w[k].id BY <1>0, <1>1 DEF Ordered, UnitsInOrder
  <2>2. w[1].id \in 1..Len(sizes) /\ w[k].id \in 1..Len(sizes)
    BY <1>0, <1>1 DEF Ordered, UnitsAsked
  <2>3. PICK long \in 1..w[1].id : sizes[long] > MaxPayload BY DEF LongBy
  <2>4. long \in 1..w[k].id BY <2>1, <2>2, <2>3
  <2> QED BY <2>2, <2>3, <2>4 DEF LongBy
<1>3. \A i \in 1..Len(v) : m + i \in 1..Len(w) /\ v[i] = w[m + i] BY <1>0, <1>1
<1>4. InStep(v, sizes)
  <2> SUFFICES ASSUME v # <<>> PROVE LongBy(sizes, v[1].id) BY DEF InStep
  <2>1. 1 \in 1..Len(v) BY <1>1
  <2> QED BY <1>2, <1>3, <2>1
<1>5. NoneLost(v, sizes, done) BY <1>2 DEF StreamInv, NoneLost
<1>6. DoneBefore(v, sizes, done) BY <1>3 DEF StreamInv, DoneBefore
<1> QED BY <1>1, <1>4, <1>5, <1>6 DEF StreamInv, v

\* ------------------------------------------------------------------- service
LEMMA AheadRight ==
  ASSUME BleShape, StreamInv(Ahead, stream.sizes, handled)
  PROVE  /\ Ahead \in Seq(StreamUnit) /\ Len(Ahead) = Len(rxBuffer) + Len(stream.toWrite)
         /\ \A i \in 1..Len(rxBuffer) : /\ i \in 1..Len(Ahead) /\ Ahead[i] = rxBuffer[i]
                                        /\ rxBuffer[i].id \in 1..Len(stream.sizes)
         /\ \A i \in 1..Len(stream.toWrite) : Ahead[Len(rxBuffer) + i] = stream.toWrite[i]
<1> DEFINE rx == rxBuffer
           tw == stream.toWrite
           w == rx \o tw
<1>1. rx \in Seq(StreamUnit) /\ tw \in Seq(StreamUnit) BY DEF BleShape
<1>2. Ahead = w BY DEF Ahead
<1> HIDE DEF rx, tw
<1>3. /\ w \in Seq(StreamUnit) /\ Len(w) = Len(rx) + Len(tw)
      /\ \A i \in 1 .. Len(rx) + Len(tw) : w[i] = IF i <= Len(rx) THEN rx[i] ELSE tw[i - Len(rx)]
  BY <1>1, ConcatProperties, Zenon
<1>4. Len(rx) \in Nat /\ Len(tw) \in Nat BY <1>1
<1> HIDE DEF w
<1>5. \A i \in 1..Len(rx) : i \in 1..Len(w) /\ w[i] = rx[i] BY <1>3, <1>4
<1>6. \A i \in 1..Len(w) : w[i].id \in 1..Len(stream.sizes)
  BY <1>2 DEF StreamInv, Ordered, UnitsAsked
<1>7. \A i \in 1..Len(tw) : w[Len(rx) + i] = tw[i]
  <2> SUFFICES ASSUME NEW i \in 1..Len(tw) PROVE w[Len(rx) + i] = tw[i] OBVIOUS
  <2> DEFINE k == Len(rx) + i
  <2>1. k \in 1 .. Len(rx) + Len(tw) /\ ~(k <= Len(rx)) /\ k - Len(rx) = i BY <1>4
  <2> HIDE DEF k
  <2>2. w[k] = tw[k - Len(rx)] BY <1>3, <2>1
  <2> QED BY <2>1, <2>2 DEF k
<1>8. \A i \in 1..Len(rx) : i \in 1..Len(w) /\ w[i] = rx[i] /\ rx[i].id \in 1..Len(stream.sizes)
  BY <1>5, <1>6
<1> QED BY <1>2, <1>3, <1>7, <1>8 DEF rx, tw

\* What is taken from the front of the buffer is taken from what is ahead.
LEMMA TakenFromAhead ==
  ASSUME BleShape, StreamInv(Ahead, stream.sizes, handled), NEW m \in 0..Len(rxBuffer)
  PROVE  SubSeq(rxBuffer, m + 1, Len(rxBuffer)) \o stream.toWrite
           = SubSeq(Ahead, m + 1, Len(Ahead))
<1> DEFINE rx == rxBuffer
           tw == stream.toWrite
           w == Ahead
           rest == SubSeq(rx, m + 1, Len(rx))
           a == rest \o tw
           b == SubSeq(w, m + 1, Len(w))
<1>1. rx \in Seq(StreamUnit) /\ tw \in Seq(StreamUnit) BY DEF BleShape
<1>2. /\ w \in Seq(StreamUnit) /\ Len(w) = Len(rx) + Len(tw)
      /\ \A i \in 1..Len(rx) : w[i] = rx[i]
      /\ \A i \in 1..Len(tw) : w[Len(rx) + i] = tw[i]
  BY AheadRight
<1>3. Len(rx) \in Nat /\ Len(tw) \in Nat /\ m \in Nat /\ m <= Len(rx) BY <1>1
<1> HIDE DEF rx, tw, w
<1>4. rest \in Seq(StreamUnit) /\ Len(rest) = Len(rx) - m
      /\ \A i \in 1 .. Len(rx) - m : rest[i] = rx[m + i]
  BY <1>1, <1>3
<1>5. b \in Seq(StreamUnit) /\ Len(b) = Len(w) - m
      /\ \A i \in 1 .. Len(w) - m : b[i] = w[m + i]
  BY <1>2, <1>3
<1> HIDE DEF rest, b
<1>6. /\ a \in Seq(StreamUnit) /\ Len(a) = Len(rest) + Len(tw)
      /\ \A i \in 1 .. Len(rest) + Len(tw) :
           a[i] = IF i <= Len(rest) THEN rest[i] ELSE tw[i - Len(rest)]
  BY <1>1, <1>4, ConcatProperties, Zenon
<1> HIDE DEF a
<1>7. Len(a) = Len(b) BY <1>2, <1>3, <1>4, <1>5, <1>6
<1>8. ASSUME NEW i \in 1..Len(a) PROVE a[i] = b[i]
  <2>1. i \in Nat /\ i >= 1 /\ i <= Len(w) - m /\ b[i] = w[m + i]
    BY <1>2, <1>3, <1>5, <1>7
  <2>2. CASE i <= Len(rest)
    <3>1. a[i] = rx[m + i] /\ m + i \in 1..Len(rx) BY <1>3, <1>4, <1>6, <2>1, <2>2
    <3>2. w[m + i] = rx[m + i] BY <1>2, <3>1
    <3> QED BY <2>1, <3>1, <3>2
  <2>3. CASE i > Len(rest)
    <3> DEFINE k == i - Len(rest)
    <3>1. k \in 1..Len(tw) /\ Len(rx) + k = m + i BY <1>2, <1>3, <1>4, <2>1, <2>3
    <3>2. a[i] = tw[k] BY <1>4, <1>6, <2>1, <2>3
    <3> HIDE DEF k
    <3>3. w[Len(rx) + k] = tw[k] BY <1>2, <3>1
    <3> QED BY <2>1, <3>1, <3>2, <3>3
  <2> QED BY <1>3, <1>4, <2>1, <2>2, <2>3
<1>9. a = b BY <1>5, <1>6, <1>7, <1>8, SeqEqual
<1> QED BY <1>9 DEF a, b, rest, rx, tw, w

LEMMA NothingInOrder == StreamInv(<<>>, <<>>, <<>>)
BY DEF StreamInv, Ordered, UnitsAsked, UnitsInOrder, FramesWhole, InStep, NoneLost,
       DoneBefore, AllInOrder

\* The size of the first frame is that of the request its first unit belongs to.
LEMMA FirstFrame ==
  ASSUME BleShape, StreamInv(Ahead, stream.sizes, handled), Len(rxBuffer) >= HeaderUnits,
         rxBuffer[1].part = "magic"
  PROVE  rxBuffer[2].id = rxBuffer[1].id
<1>1. 1 \in 1..Len(rxBuffer) /\ 2 \in 1..Len(rxBuffer) BY DEF BleShape, HeaderUnits
<1>2. Ahead[1] = rxBuffer[1] /\ Ahead[2] = rxBuffer[2] /\ 1 \in 1..Len(Ahead)
      /\ rxBuffer[1].id \in 1..Len(stream.sizes)
  BY <1>1, AheadRight
<1>3. FrameAt(Ahead, stream.sizes, 1)
  BY <1>2 DEF StreamInv, Ordered, FramesWhole
<1>4. stream.sizes[Ahead[1].id] \in Nat
  <2>1. stream.sizes \in Seq(Nat) BY DEF BleShape
  <2>2. Ahead[1].id \in 1..Len(stream.sizes) BY <1>2
  <2> QED BY <2>1, <2>2
<1>5. 2 \in 1 .. 1 + 1 + stream.sizes[Ahead[1].id] BY <1>4
<1> QED BY <1>2, <1>3, <1>5 DEF FrameAt

LEMMA ServiceInit == BleInit => ServiceInv
<1> SUFFICES ASSUME BleInit PROVE ServiceInv OBVIOUS
<1>1. BleShape
  <2>1. stream = [sizes |-> <<>>, toWrite |-> <<>>] BY DEF BleInit, NothingAsked
  <2>2. <<>> \in Seq(Nat) /\ <<>> \in Seq(StreamUnit) /\ <<>> \in Seq([id : Nat, link : Nat])
    OBVIOUS
  <2> QED BY <2>1, <2>2 DEF BleInit, BleShape, Nobody, NoReply
<1>2. Ahead = <<>> /\ stream.sizes = <<>> /\ handled = <<>>
  BY DEF BleInit, Ahead, NothingAsked
<1>3. BufferRight /\ Forgotten /\ AnswersRight
  BY BleAssumption
  DEF BleInit, BufferRight, HeaderUnits, Forgotten, AnswersRight, NothingAsked
<1> QED BY <1>1, <1>2, <1>3, NothingInOrder DEF ServiceInv

\* A link that begins or ends, and a board that starts again, forget it all.
LEMMA ServiceForgets ==
  ASSUME ServiceInv, Forgets, client' \in [link : Nat, notify : BOOLEAN], linkCount' \in Nat,
         stream' = NothingAsked, handled' = <<>>, answered' = <<>>,
         \/ callback' = callback /\ (client'.link = 0 \/ callback = "idle")
         \/ callback' = "idle"
  PROVE  ServiceInv'
<1>1. rxBuffer' = <<>> /\ reply' = NoReply BY DEF Forgets
<1>2. BleShape'
  <2>1. <<>> \in Seq(Nat) /\ <<>> \in Seq(StreamUnit) /\ <<>> \in Seq([id : Nat, link : Nat])
    OBVIOUS
  <2>2. stream' \in [sizes : Seq(Nat), toWrite : Seq(StreamUnit)]
    BY <2>1 DEF NothingAsked
  <2>3. reply' \in [link : Nat, id : Nat, retries : Nat] BY <1>1 DEF NoReply
  <2>4. callback' \in {"idle", "frames", "packet", "apply"} BY DEF ServiceInv, BleShape
  <2> QED BY <1>1, <2>1, <2>2, <2>3, <2>4 DEF BleShape
<1>3. Ahead' = <<>> /\ stream'.sizes = <<>> BY <1>1 DEF Ahead, NothingAsked
<1>4. StreamInv(Ahead', stream'.sizes, handled') BY <1>3, NothingInOrder
<1>5. BufferRight' BY <1>1, BleAssumption DEF BufferRight, HeaderUnits
<1>6. Forgotten' /\ AnswersRight' BY <1>1 DEF Forgotten, AnswersRight
<1> QED BY <1>2, <1>4, <1>5, <1>6 DEF ServiceInv

\* Steps of advertising and uploading leave the stream alone.
LEMMA ServiceAlone ==
  ASSUME ServiceInv, UNCHANGED <<stream, rxBuffer, reply, handled, answered>>,
         client'.link = client.link, client' \in [link : Nat, notify : BOOLEAN],
         linkCount' = linkCount,
         \/ callback' = callback
         \/ callback \in {"idle", "apply"} /\ callback' \in {"idle", "apply"}
  PROVE  ServiceInv'
<1>1. BleShape' BY DEF ServiceInv, BleShape
<1>2. Ahead' = Ahead BY DEF Ahead
<1>3. BufferRight' BY DEF ServiceInv, BufferRight, HeaderUnits
<1>4. Forgotten' /\ AnswersRight' BY DEF ServiceInv, Forgotten, AnswersRight
<1> QED BY <1>1, <1>2, <1>3, <1>4 DEF ServiceInv

LEMMA AskStep ==
  ASSUME ServiceInv, NEW size \in Sizes, ClientAsks(size)
  PROVE  ServiceInv'
<1> DEFINE id == Len(stream.sizes) + 1
           frame == Frame(id, size)
<1>0. size \in Nat BY BleAssumption DEF Sizes
<1>1. /\ stream.sizes \in Seq(Nat) /\ stream.toWrite \in Seq(StreamUnit)
      /\ rxBuffer \in Seq(StreamUnit) /\ handled \in Seq(Nat)
  BY DEF ServiceInv, BleShape
<1>2. id \in Nat /\ frame \in Seq(StreamUnit)
  <2>1. id \in Nat BY <1>1
  <2> HIDE DEF id
  <2> QED BY <1>0, <2>1, FrameRight
<1>3. stream' = [sizes |-> Append(stream.sizes, size), toWrite |-> stream.toWrite \o frame]
  BY DEF ClientAsks
<1>4. UNCHANGED <<client, rxBuffer, callback, reply, handled, answered, linkCount>>
      /\ client.link # 0
  BY DEF ClientAsks, serving
<1> HIDE DEF frame
<1>5. Append(stream.sizes, size) \in Seq(Nat) /\ stream.toWrite \o frame \in Seq(StreamUnit)
  BY <1>0, <1>1, <1>2
<1>6. BleShape' BY <1>3, <1>4, <1>5 DEF ServiceInv, BleShape
<1>7. Ahead' = Ahead \o frame
  <2>1. Ahead' = rxBuffer \o (stream.toWrite \o frame) BY <1>3, <1>4 DEF Ahead
  <2> DEFINE rx == rxBuffer
             tw == stream.toWrite
  <2>a. rx \in Seq(StreamUnit) /\ tw \in Seq(StreamUnit) BY <1>1
  <2>2. rxBuffer \o (stream.toWrite \o frame) = (rxBuffer \o stream.toWrite) \o frame
    <3> HIDE DEF rx, tw
    <3>1. (rx \o tw) \o frame = rx \o (tw \o frame) BY <1>2, <2>a, ConcatAssociative
    <3> QED BY <3>1 DEF rx, tw
  <2> QED BY <2>1, <2>2 DEF Ahead
<1>8. StreamInv(Ahead', stream'.sizes, handled')
  <2>1. Ahead \in Seq(StreamUnit) BY AheadRight DEF ServiceInv
  <2>2. StreamInv(Ahead \o Frame(Len(stream.sizes) + 1, size), Append(stream.sizes, size), handled)
    BY <1>0, <1>1, <2>1, AskKeeps DEF ServiceInv
  <2> QED BY <1>3, <1>4, <1>7, <2>2 DEF frame
<1>9. \A i \in 1..Len(rxBuffer) : stream'.sizes[rxBuffer[i].id] = stream.sizes[rxBuffer[i].id]
  <2> SUFFICES ASSUME NEW i \in 1..Len(rxBuffer)
               PROVE  stream'.sizes[rxBuffer[i].id] = stream.sizes[rxBuffer[i].id]
    OBVIOUS
  <2>1. rxBuffer[i].id \in 1..Len(stream.sizes) BY AheadRight DEF ServiceInv
  <2> QED BY <1>0, <1>1, <1>3, <2>1
<1>10. BufferRight'
  <2>1. Len(rxBuffer) >= HeaderUnits => 2 \in 1..Len(rxBuffer) BY <1>1 DEF HeaderUnits
  <2> QED BY <1>4, <1>9, <2>1 DEF ServiceInv, BufferRight
<1>11. Forgotten' /\ AnswersRight' BY <1>4 DEF ServiceInv, Forgotten, AnswersRight
<1> QED BY <1>6, <1>8, <1>10, <1>11 DEF ServiceInv

\* A write always fits, so that it only moves units into the buffer.
LEMMA WriteStep ==
  ASSUME ServiceInv, NEW n \in 1..MaxWrite, WriteControl(n)
  PROVE  ServiceInv'
<1> DEFINE rx == rxBuffer
           tw == stream.toWrite
           new == SubSeq(tw, 1, n)
           rest == SubSeq(tw, n + 1, Len(tw))
<1>1. rx \in Seq(StreamUnit) /\ tw \in Seq(StreamUnit) /\ n \in Nat /\ n <= Len(tw)
      /\ client.link # 0 /\ callback = "idle"
  BY BleAssumption DEF ServiceInv, BleShape, WriteControl
<1>2. ~(n > Capacity - Len(rx))
  <2>1. Len(rx) \in Nat /\ Len(rx) < 2 + MaxPayload BY <1>1 DEF ServiceInv, BufferRight, HeaderUnits
  <2>2. MaxPayload \in Nat /\ MaxWrite \in Nat /\ n <= MaxPayload BY BleAssumption
  <2>3. Capacity = 2 * (2 + MaxPayload) BY DEF Capacity, HeaderUnits
  <2> QED BY <1>1, <2>1, <2>2, <2>3
<1>3. stream' = [stream EXCEPT !.toWrite = rest] /\ rxBuffer' = rx \o new /\ callback' = "frames"
      /\ UNCHANGED <<client, reply, handled, answered, linkCount>>
  BY <1>2 DEF WriteControl
<1>4. stream \in [sizes : Seq(Nat), toWrite : Seq(StreamUnit)] BY DEF ServiceInv, BleShape
<1>5. stream'.sizes = stream.sizes /\ stream'.toWrite = rest
      /\ stream' = [sizes |-> stream.sizes, toWrite |-> rest]
  BY <1>3, <1>4
<1> HIDE DEF rx, tw
<1>6. new \in Seq(StreamUnit) /\ rest \in Seq(StreamUnit) /\ rx \o new \in Seq(StreamUnit)
  BY <1>1
<1>7. new \o rest = tw
  <2>1. Len(new) = n /\ Len(rest) = Len(tw) - n /\ Len(tw) \in Nat BY <1>1
  <2>2. /\ new \o rest \in Seq(StreamUnit) /\ Len(new \o rest) = Len(tw)
        /\ \A i \in 1..Len(tw) : (new \o rest)[i] = IF i <= n THEN new[i] ELSE rest[i - n]
    <3>1. /\ new \o rest \in Seq(StreamUnit) /\ Len(new \o rest) = Len(new) + Len(rest)
          /\ \A i \in 1 .. Len(new) + Len(rest) :
               (new \o rest)[i] = IF i <= Len(new) THEN new[i] ELSE rest[i - Len(new)]
      BY <1>6, ConcatProperties
    <3>2. Len(new) + Len(rest) = Len(tw) BY <1>1, <2>1
    <3> HIDE DEF new, rest
    <3> QED BY <2>1, <3>1, <3>2, Zenon
  <2>3. \A i \in 1..n : new[i] = tw[i] BY <1>1
  <2>4. \A i \in 1 .. Len(tw) - n : rest[i] = tw[n + i] BY <1>1
  <2> HIDE DEF new, rest
  <2>5. ASSUME NEW i \in 1..Len(tw) PROVE (new \o rest)[i] = tw[i]
    <3>1. CASE i <= n BY <1>1, <2>2, <2>3, <3>1
    <3>2. CASE i > n
      <4> DEFINE k == i - n
      <4>1. k \in 1 .. Len(tw) - n /\ n + k = i /\ ~(i <= n) BY <1>1, <2>1, <3>2
      <4>2. (new \o rest)[i] = rest[k] BY <2>2, <4>1
      <4> HIDE DEF k
      <4> QED BY <2>4, <4>1, <4>2
    <3>3. i <= n \/ i > n BY <1>1, <2>1
    <3> QED BY <3>1, <3>2, <3>3, Zenon
  <2> QED BY <1>1, <2>2, <2>5, SeqEqual
<1>8. Ahead' = Ahead
  <2>1. Ahead' = (rx \o new) \o rest BY <1>3, <1>5 DEF Ahead
  <2>2. (rx \o new) \o rest = rx \o (new \o rest)
    <3> HIDE DEF new, rest
    <3> QED BY <1>1, <1>6, ConcatAssociative
  <2> QED BY <1>7, <2>1, <2>2 DEF Ahead, rx, tw
<1> HIDE DEF new, rest
<1>9. BleShape' BY <1>3, <1>4, <1>5, <1>6 DEF ServiceInv, BleShape
<1>10. BufferRight' BY <1>3 DEF BufferRight
<1>11. Forgotten' /\ AnswersRight' BY <1>1, <1>3 DEF ServiceInv, Forgotten, AnswersRight
<1> QED BY <1>3, <1>5, <1>8, <1>9, <1>10, <1>11 DEF ServiceInv

LEMMA LookStep ==
  ASSUME ServiceInv, LookAtFrame
  PROVE  ServiceInv'
<1>1. UNCHANGED <<client, stream, reply, handled, answered, linkCount>> /\ callback = "frames"
  BY DEF LookAtFrame
<1>2. /\ client \in [link : Nat, notify : BOOLEAN] /\ rxBuffer \in Seq(StreamUnit)
      /\ stream.sizes \in Seq(Nat) /\ stream.toWrite \in Seq(StreamUnit)
      /\ handled \in Seq(Nat) /\ Len(rxBuffer) \in Nat
  BY DEF ServiceInv, BleShape
<1>3. Forgotten' /\ AnswersRight'
  <2>1. rxBuffer' = rxBuffer \/ rxBuffer' = <<>> BY DEF LookAtFrame
  <2> QED BY <1>1, <2>1 DEF ServiceInv, Forgotten, AnswersRight
<1>4. MaxPayload \in Nat /\ MaxPayload > 0 BY BleAssumption
<1>5. CASE Len(rxBuffer) < HeaderUnits
  <2>1. callback' = "idle" /\ rxBuffer' = rxBuffer BY <1>5 DEF LookAtFrame
  <2>2. BleShape' /\ Ahead' = Ahead BY <1>1, <2>1 DEF ServiceInv, BleShape, Ahead
  <2>3. BufferRight' BY <1>2, <1>4, <1>5, <2>1 DEF BufferRight, HeaderUnits
  <2> QED BY <1>1, <1>3, <2>2, <2>3 DEF ServiceInv
<1>6. CASE ~(Len(rxBuffer) < HeaderUnits) /\ Garbled
  <2>1. callback' = "idle" /\ rxBuffer' = <<>> BY <1>6 DEF LookAtFrame
  <2>2. BleShape'
    <3>1. <<>> \in Seq(StreamUnit) OBVIOUS
    <3> QED BY <1>1, <2>1, <3>1 DEF ServiceInv, BleShape
  <2>3. BufferRight' BY <1>4, <2>1 DEF BufferRight, HeaderUnits
  <2> DEFINE m == Len(rxBuffer)
  <2>4. 1 \in 1..Len(rxBuffer) /\ Len(rxBuffer) >= HeaderUnits BY <1>2, <1>6 DEF HeaderUnits
  <2>5. Ahead[1] = rxBuffer[1] /\ rxBuffer[1].id \in 1..Len(stream.sizes)
        /\ Ahead # <<>> /\ Ahead \in Seq(StreamUnit) /\ Len(Ahead) = m + Len(stream.toWrite)
    BY <2>4, AheadRight DEF ServiceInv
  <2>6. LongBy(stream.sizes, Ahead[1].id)
    <3>1. CASE rxBuffer[1].part # "magic"
      BY <2>5, <3>1 DEF ServiceInv, StreamInv, InStep
    <3>2. CASE rxBuffer[1].part = "magic"
      <4>1. rxBuffer[2].id = rxBuffer[1].id BY <2>4, <3>2, FirstFrame DEF ServiceInv
      <4>2. stream.sizes[rxBuffer[1].id] > MaxPayload
        BY <1>6, <3>2, <4>1 DEF Garbled, SizeOfFirst
      <4>3. Ahead[1].id \in 1..Ahead[1].id BY <2>5
      <4> QED BY <2>5, <4>2, <4>3 DEF LongBy
    <3> QED BY <3>1, <3>2
  <2>7. m \in 0..Len(rxBuffer) /\ m \in 0..Len(Ahead) BY <1>2, <2>5
  <2>8. Ahead' = SubSeq(Ahead, m + 1, Len(Ahead))
    <3>1. SubSeq(rxBuffer, m + 1, Len(rxBuffer)) = <<>> BY <1>2
    <3>2. <<>> \o stream.toWrite = SubSeq(Ahead, m + 1, Len(Ahead))
      BY <2>7, <3>1, TakenFromAhead DEF ServiceInv
    <3> QED BY <1>1, <2>1, <3>2 DEF Ahead
  <2>9. StreamInv(Ahead', stream.sizes, handled)
    <3> HIDE DEF m
    <3>1. StreamInv(SubSeq(Ahead, m + 1, Len(Ahead)), stream.sizes, handled)
      BY <1>2, <2>5, <2>6, <2>7, DiscardKeeps DEF ServiceInv
    <3> QED BY <2>8, <3>1
  <2> QED BY <1>1, <1>3, <2>2, <2>3, <2>9 DEF ServiceInv
<1>7. CASE ~(Len(rxBuffer) < HeaderUnits) /\ ~Garbled
  <2>1. rxBuffer' = rxBuffer /\ callback' = IF Incomplete THEN "idle" ELSE "packet"
    BY <1>7 DEF LookAtFrame
  <2>2. BleShape' /\ Ahead' = Ahead BY <1>1, <2>1 DEF ServiceInv, BleShape, Ahead
  <2>3. BufferRight'
    <3> DEFINE size == stream.sizes[rxBuffer[2].id]
    <3>1. 2 \in 1..Len(rxBuffer) BY <1>2, <1>7 DEF HeaderUnits
    <3>2. rxBuffer[2].id \in 1..Len(stream.sizes) BY <3>1, AheadRight DEF ServiceInv
    <3>3. size \in Nat BY <1>2, <3>2
    <3>4. rxBuffer[1].part = "magic" /\ ~(size > MaxPayload) BY <1>7 DEF Garbled, SizeOfFirst
    <3>5. Incomplete <=> Len(rxBuffer) < HeaderUnits + size BY DEF Incomplete, SizeOfFirst
    <3>6. stream'.sizes[rxBuffer'[2].id] = size BY <1>1, <2>1
    <3> HIDE DEF size
    <3>7. CASE Len(rxBuffer) < HeaderUnits + size
      <4>1. callback' = "idle" BY <2>1, <3>5, <3>7
      <4>2. Len(rxBuffer) < HeaderUnits + MaxPayload BY <1>2, <1>4, <3>3, <3>4, <3>7 DEF HeaderUnits
      <4> QED BY <2>1, <4>1, <4>2 DEF BufferRight
    <3>8. CASE ~(Len(rxBuffer) < HeaderUnits + size)
      <4>1. callback' = "packet" BY <2>1, <3>5, <3>8
      <4>2. Len(rxBuffer) >= HeaderUnits /\ size <= MaxPayload
            /\ HeaderUnits + size <= Len(rxBuffer)
        BY <1>2, <1>4, <1>7, <3>3, <3>4, <3>8 DEF HeaderUnits
      <4> QED BY <2>1, <3>4, <3>6, <4>1, <4>2 DEF BufferRight
    <3> QED BY <3>7, <3>8
  <2> QED BY <1>1, <1>3, <2>2, <2>3 DEF ServiceInv
<1> QED BY <1>5, <1>6, <1>7

LEMMA PacketStep ==
  ASSUME ServiceInv, PacketHandled
  PROVE  ServiceInv'
<1> DEFINE id == rxBuffer[1].id
           m == HeaderUnits + stream.sizes[rxBuffer[2].id]
           w == Ahead
<1>1. /\ callback = "packet" /\ rxBuffer # <<>> /\ callback' = "frames"
      /\ handled' = Append(handled, id)
      /\ rxBuffer' = SubSeq(rxBuffer, m + 1, Len(rxBuffer))
      /\ UNCHANGED <<client, stream, answered, linkCount>>
  BY DEF PacketHandled, Rest, SizeOfFirst
<1>2. \/ reply = NoReply /\ reply' = [link |-> client.link, id |-> id, retries |-> 0]
      \/ reply' = reply
  BY DEF PacketHandled, QueuesReply
<1>3. /\ client \in [link : Nat, notify : BOOLEAN] /\ rxBuffer \in Seq(StreamUnit)
      /\ stream.sizes \in Seq(Nat) /\ stream.toWrite \in Seq(StreamUnit)
      /\ handled \in Seq(Nat) /\ Len(rxBuffer) \in Nat
      /\ answered \in Seq([id : Nat, link : Nat])
      /\ reply \in [link : Nat, id : Nat, retries : Nat]
  BY DEF ServiceInv, BleShape
<1>4. /\ Len(rxBuffer) >= HeaderUnits /\ rxBuffer[1].part = "magic" /\ m <= Len(rxBuffer)
  BY <1>1 DEF ServiceInv, BufferRight
<1>5. client.link # 0 BY <1>1 DEF ServiceInv, Forgotten
<1>6. 1 \in 1..Len(rxBuffer) /\ 2 \in 1..Len(rxBuffer) BY <1>3, <1>4 DEF HeaderUnits
<1>7. /\ w \in Seq(StreamUnit) /\ w # <<>> /\ w[1] = rxBuffer[1] /\ w[1].id = id
      /\ id \in 1..Len(stream.sizes) /\ 1 \in 1..Len(w)
  BY <1>6, AheadRight DEF ServiceInv
<1>8. m = HeaderUnits + stream.sizes[w[1].id] BY <1>4, <1>7, FirstFrame DEF ServiceInv
<1>10. id \in Nat BY <1>7
<1> HIDE DEF m, id
<1>a. stream.sizes[id] \in Nat
  <2>1. stream.sizes \in Seq(Nat) BY <1>3
  <2>2. id \in 1..Len(stream.sizes) BY <1>7
  <2> QED BY <2>1, <2>2
<1>9. m \in 0..Len(rxBuffer)
  <2>1. m = HeaderUnits + stream.sizes[id] BY <1>7, <1>8
  <2> QED BY <1>3, <1>4, <1>a, <2>1 DEF HeaderUnits
<1>11. Ahead' = SubSeq(w, m + 1, Len(w))
  <2>1. SubSeq(rxBuffer, m + 1, Len(rxBuffer)) \o stream.toWrite = SubSeq(Ahead, m + 1, Len(Ahead))
    BY <1>9, TakenFromAhead DEF ServiceInv
  <2>2. Ahead' = rxBuffer' \o stream'.toWrite BY DEF Ahead
  <2> QED BY <1>1, <2>1, <2>2
<1>12. StreamInv(w, stream.sizes, handled) BY DEF ServiceInv
<1> HIDE DEF w
<1>13. StreamInv(Ahead', stream.sizes, handled')
  <2>1. w[1].part = "magic" BY <1>4, <1>7
  <2>2. StreamInv(SubSeq(w, m + 1, Len(w)), stream.sizes, Append(handled, w[1].id))
    BY <1>3, <1>7, <1>8, <1>12, <2>1, HandleKeeps
  <2> QED BY <1>1, <1>7, <1>11, <2>2
<1>14. BleShape'
  <2>1. rxBuffer' \in Seq(StreamUnit) BY <1>1, <1>3, <1>9
  <2>2. handled' \in Seq(Nat) BY <1>1, <1>3, <1>10
  <2>3. reply' \in [link : Nat, id : Nat, retries : Nat] BY <1>2, <1>3, <1>10
  <2> QED BY <1>1, <2>1, <2>2, <2>3 DEF ServiceInv, BleShape
<1>15. BufferRight' BY <1>1 DEF BufferRight
<1>16. Forgotten' BY <1>1, <1>5 DEF Forgotten
<1>17. AnswersRight'
  <2>1. /\ Len(handled') = Len(handled) + 1 /\ handled'[Len(handled')] = id
        /\ \A j \in 1..Len(handled) : j \in 1..Len(handled') /\ handled'[j] = handled[j]
        /\ Len(handled') \in 1..Len(handled')
    BY <1>1, <1>3, <1>10
  <2>2. ASSUME NEW k, \E j \in 1..Len(handled) : handled[j] = k
        PROVE  (\E j \in 1..Len(handled') : handled'[j] = k) /\ k < id
    <3>1. PICK j \in 1..Len(handled) : handled[j] = k BY <2>2
    <3>2. j \in 1..Len(handled') /\ handled'[j] = k BY <2>1, <3>1
    <3>3. handled[j] < w[1].id BY <1>7, <1>12 DEF StreamInv, DoneBefore
    <3> QED BY <1>7, <3>1, <3>2, <3>3
  <2>3. /\ \A i, j \in 1..Len(answered) : i < j => answered[i].id < answered[j].id
        /\ \A i \in 1..Len(answered) :
             /\ answered[i].link = client.link
             /\ \E j \in 1..Len(handled) : handled[j] = answered[i].id
        /\ reply # NoReply =>
             /\ client.link # 0 /\ reply.link = client.link
             /\ \E j \in 1..Len(handled) : handled[j] = reply.id
             /\ \A i \in 1..Len(answered) : answered[i].id < reply.id
    BY DEF ServiceInv, AnswersRight
  <2>4. \A i \in 1..Len(answered) :
          (\E j \in 1..Len(handled') : handled'[j] = answered[i].id) /\ answered[i].id < id
    BY <2>2, <2>3
  <2>5. ASSUME reply' # NoReply
        PROVE  /\ client.link # 0 /\ reply'.link = client.link
               /\ \E j \in 1..Len(handled') : handled'[j] = reply'.id
               /\ \A i \in 1..Len(answered) : answered[i].id < reply'.id
    <3>1. CASE reply' = reply
      <4>1. /\ client.link # 0 /\ reply.link = client.link
            /\ \E j \in 1..Len(handled) : handled[j] = reply.id
            /\ \A i \in 1..Len(answered) : answered[i].id < reply.id
        BY <2>3, <2>5, <3>1
      <4>2. \E j \in 1..Len(handled') : handled'[j] = reply.id BY <2>2, <4>1
      <4> QED BY <3>1, <4>1, <4>2
    <3>2. CASE reply' = [link |-> client.link, id |-> id, retries |-> 0]
      <4>1. reply'.link = client.link /\ reply'.id = id BY <3>2
      <4>2. \E j \in 1..Len(handled') : handled'[j] = id BY <2>1
      <4> QED BY <1>5, <2>4, <4>1, <4>2
    <3> QED BY <1>2, <3>1, <3>2
  <2> QED BY <1>1, <2>3, <2>4, <2>5 DEF AnswersRight
<1> QED BY <1>1, <1>13, <1>14, <1>15, <1>16, <1>17 DEF ServiceInv

LEMMA NotifyStep ==
  ASSUME ServiceInv, NotifyReply
  PROVE  ServiceInv'
<1>1. /\ reply # NoReply /\ UNCHANGED <<client, stream, rxBuffer, callback, handled, linkCount>>
      /\ \/ answered' = Append(answered, [id |-> reply.id, link |-> reply.link]) /\ reply' = NoReply
         \/ UNCHANGED answered /\ reply' \in {[reply EXCEPT !.retries = @ + 1], NoReply}
  BY DEF NotifyReply
<1>2. /\ reply \in [link : Nat, id : Nat, retries : Nat]
      /\ answered \in Seq([id : Nat, link : Nat])
  BY DEF ServiceInv, BleShape
<1>3. NoReply \in [link : Nat, id : Nat, retries : Nat] BY DEF NoReply
<1>4. Ahead' = Ahead BY <1>1 DEF Ahead
<1>5. BufferRight' BY <1>1 DEF ServiceInv, BufferRight
<1>6. /\ client.link # 0 /\ reply.link = client.link
      /\ \E j \in 1..Len(handled) : handled[j] = reply.id
      /\ \A i \in 1..Len(answered) : answered[i].id < reply.id
      /\ \A i, j \in 1..Len(answered) : i < j => answered[i].id < answered[j].id
      /\ \A i \in 1..Len(answered) :
           /\ answered[i].link = client.link
           /\ \E j \in 1..Len(handled) : handled[j] = answered[i].id
  BY <1>1 DEF ServiceInv, AnswersRight
<1>7. Forgotten' BY <1>1, <1>6 DEF Forgotten
<1>8. CASE answered' = Append(answered, [id |-> reply.id, link |-> reply.link]) /\ reply' = NoReply
  <2> DEFINE answer == [id |-> reply.id, link |-> reply.link]
  <2>1. answer \in [id : Nat, link : Nat] BY <1>2
  <2>2. /\ answered' \in Seq([id : Nat, link : Nat]) /\ Len(answered') = Len(answered) + 1
        /\ answered'[Len(answered')] = answer
        /\ \A i \in 1..Len(answered) : answered'[i] = answered[i]
    BY <1>2, <1>8, <2>1
  <2>3. BleShape' BY <1>1, <1>3, <1>8, <2>2 DEF ServiceInv, BleShape
  <2>4. answer.id = reply.id /\ answer.link = reply.link OBVIOUS
  <2> HIDE DEF answer
  <2>5. \A i \in 1..Len(answered') : i \in 1..Len(answered) \/ i = Len(answered') BY <1>2, <2>2
  <2>6. ASSUME NEW i \in 1..Len(answered'), NEW j \in 1..Len(answered'), i < j
        PROVE  answered'[i].id < answered'[j].id
    <3>1. i \in 1..Len(answered) BY <1>2, <2>2, <2>6
    <3>2. CASE j = Len(answered') BY <1>6, <2>2, <2>4, <3>1, <3>2
    <3>3. CASE j \in 1..Len(answered) BY <1>6, <2>2, <2>6, <3>1, <3>3
    <3> QED BY <2>5, <3>2, <3>3
  <2>7. ASSUME NEW i \in 1..Len(answered')
        PROVE  /\ answered'[i].link = client.link
               /\ \E j \in 1..Len(handled) : handled[j] = answered'[i].id
    <3>1. CASE i = Len(answered') BY <1>6, <2>2, <2>4, <3>1
    <3>2. CASE i \in 1..Len(answered) BY <1>6, <2>2, <3>2
    <3> QED BY <2>5, <3>1, <3>2
  <2>8. AnswersRight' BY <1>1, <1>8, <2>6, <2>7 DEF AnswersRight
  <2> QED BY <1>1, <1>4, <1>5, <1>7, <2>3, <2>8 DEF ServiceInv
<1>9. CASE UNCHANGED answered /\ reply' \in {[reply EXCEPT !.retries = @ + 1], NoReply}
  <2>1. reply' \in [link : Nat, id : Nat, retries : Nat] BY <1>2, <1>3, <1>9
  <2>2. BleShape' BY <1>1, <1>9, <2>1 DEF ServiceInv, BleShape
  <2>3. reply' = NoReply \/ (reply'.link = reply.link /\ reply'.id = reply.id)
    BY <1>2, <1>9
  <2>4. AnswersRight' BY <1>1, <1>6, <1>9, <2>3 DEF AnswersRight
  <2> QED BY <1>1, <1>4, <1>5, <1>7, <2>2, <2>4 DEF ServiceInv
<1> QED BY <1>1, <1>8, <1>9

LEMMA ServiceStep == ServiceInv /\ [BleNext]_gattVars => ServiceInv'
<1> SUFFICES ASSUME ServiceInv, [BleNext]_gattVars PROVE ServiceInv'
  OBVIOUS
<1>0. client \in [link : Nat, notify : BOOLEAN] /\ linkCount \in Nat
      /\ Nobody \in [link : Nat, notify : BOOLEAN] /\ Nobody.link = 0
  BY DEF ServiceInv, BleShape, Nobody
<1>1. CASE EnableBle \/ StackReady \/ RestartWork \/ ConnectingFails \/ UNCHANGED gattVars
  BY <1>0, <1>1, ServiceAlone
  DEF EnableBle, StackReady, RestartWork, ConnectingFails, gattVars, serving
<1>2. CASE ClientConnects
  <2>1. client' \in [link : Nat, notify : BOOLEAN] /\ linkCount' \in Nat
    BY <1>0, <1>2 DEF ClientConnects
  <2> QED BY <1>2, <2>1, ServiceForgets DEF ClientConnects
<1>3. CASE ClientDisconnects
  BY <1>0, <1>3, ServiceForgets DEF ClientDisconnects
<1>4. ASSUME NEW on \in BOOLEAN, ClientSubscribes(on) PROVE ServiceInv'
  <2>1. client' = [client EXCEPT !.notify = on] BY <1>4 DEF ClientSubscribes
  <2>2. client'.link = client.link /\ client' \in [link : Nat, notify : BOOLEAN]
    BY <1>0, <2>1
  <2> QED BY <1>4, <2>2, ServiceAlone DEF ClientSubscribes, serving
<1>5. ASSUME NEW size \in Sizes, ClientAsks(size) PROVE ServiceInv'
  BY <1>5, AskStep
<1>6. ASSUME NEW n \in 1..MaxWrite, WriteControl(n) PROVE ServiceInv'
  BY <1>6, WriteStep
<1>7. CASE LookAtFrame BY <1>7, LookStep
<1>8. CASE PacketHandled BY <1>8, PacketStep
<1>9. CASE PacketHandledTooLate
  <2>1. client.link = 0
    <3>1. callback = "packet" /\ rxBuffer = <<>> BY <1>9 DEF PacketHandledTooLate
    <3>2. ~(Len(rxBuffer) >= HeaderUnits) BY <3>1 DEF HeaderUnits
    <3> QED BY <3>1, <3>2 DEF ServiceInv, BufferRight
  <2>2. stream' = NothingAsked /\ handled' = <<>> /\ answered' = <<>>
    BY <1>9, <2>1 DEF ServiceInv, Forgotten, PacketHandledTooLate
  <2> QED BY <1>0, <1>9, <2>2, ServiceForgets DEF PacketHandledTooLate
<1>10. CASE NotifyReply BY <1>10, NotifyStep
<1>11. ASSUME NEW size \in DocumentSizes, NEW n \in 1..MaxDocument, ClientUploads(size, n)
       PROVE  ServiceInv'
  <2>1. callback = "idle" /\ callback' \in {"idle", "apply"}
    BY <1>11 DEF ClientUploads, Takes
  <2> QED BY <1>0, <1>11, <2>1, ServiceAlone DEF ClientUploads
<1>12. ASSUME NEW n \in 1..MaxDocument, ClientContinues(n) PROVE ServiceInv'
  <2>1. callback = "idle" /\ callback' \in {"idle", "apply"}
    BY <1>12 DEF ClientContinues, Takes
  <2> QED BY <1>0, <1>12, <2>1, ServiceAlone DEF ClientContinues
<1>13. ASSUME NEW ok \in BOOLEAN, DocumentApplied(ok) PROVE ServiceInv'
  BY <1>0, <1>13, ServiceAlone DEF DocumentApplied
<1> QED
  BY <1>1, <1>2, <1>3, <1>4, <1>5, <1>6, <1>7, <1>8, <1>9, <1>10, <1>11, <1>12, <1>13
  DEF BleNext

\* ------------------------------------------------------------------- uploads
\* What was received of an upload that goes on is its beginning.
UploadType == [number : Nat, size : Nat, next : Nat \ {0}]
UploadChunk == [number : Nat, index : Nat]
Piece(u) == [i \in 1 .. u.next - 1 |-> [number |-> u.number, index |-> i]]
UploadInv ==
  /\ upload \in UploadType
  /\ document \in [expected : Nat, chunks : Seq(UploadChunk)]
  /\ confirmed
  /\ \/ upload.size = 0
     \/ document.expected = 0
     \/ document.expected = upload.size /\ document.chunks = Piece(upload)

LEMMA EndedRight ==
  ASSUME NEW u \in UploadType
  PROVE  Ended(u) \in UploadType /\ Ended(u).size = 0
<1>1. 0 \in Nat /\ 1 \in Nat \ {0} OBVIOUS
<1>2. Ended(u) = [u EXCEPT !.size = 0, !.next = 1] BY DEF Ended
<1> HIDE DEF Ended
<1> QED BY <1>1, <1>2 DEF UploadType

LEMMA TakesRight ==
  ASSUME NEW u \in UploadType,
         NEW d \in [expected : Nat, chunks : Seq(UploadChunk)],
         d.expected = u.size, d.chunks = Piece(u),
         NEW n \in Nat \ {0}, u.next + n - 1 <= u.size, confirmed, Takes(d, u, n)
  PROVE  UploadInv'
<1> DEFINE received == d.chunks \o Chunks(u, n)
           after == [u EXCEPT !.next = @ + n]
<1>0. u.number \in Nat /\ u.size \in Nat /\ u.next \in Nat /\ u.next >= 1 /\ n >= 1
  BY DEF UploadType
<1>a. \A i \in Nat : [number |-> u.number, index |-> i] \in UploadChunk
  BY <1>0 DEF UploadChunk
<1>1. /\ Piece(u) \in Seq(UploadChunk) /\ Len(Piece(u)) = u.next - 1
      /\ \A i \in 1 .. u.next - 1 : Piece(u)[i] = [number |-> u.number, index |-> i]
  <2>1. u.next - 1 \in Nat /\ Piece(u) = [i \in 1 .. u.next - 1 |-> [number |-> u.number, index |-> i]]
    BY <1>0 DEF Piece
  <2> DEFINE last == u.next - 1
             chunk(i) == [number |-> u.number, index |-> i]
  <2>2. \A i \in 1..last : chunk(i) \in UploadChunk BY <1>a, <2>1
  <2>3. last \in Nat /\ Piece(u) = [i \in 1..last |-> chunk(i)] BY <2>1
  <2> HIDE DEF last, chunk
  <2>4. Piece(u) \in Seq(UploadChunk) /\ Len(Piece(u)) = last
        /\ \A i \in 1..last : Piece(u)[i] = chunk(i)
    BY <2>2, <2>3
  <2> QED BY <2>4 DEF last, chunk
<1>2. /\ Chunks(u, n) \in Seq(UploadChunk) /\ Len(Chunks(u, n)) = n
      /\ \A i \in 1..n : Chunks(u, n)[i] = [number |-> u.number, index |-> u.next + i - 1]
  <2>1. \A i \in 1..n : u.next + i - 1 \in Nat BY <1>0
  <2> QED BY <1>a, <2>1 DEF Chunks
<1>b. received = Piece(u) \o Chunks(u, n) OBVIOUS
<1> HIDE DEF received
<1>3. /\ received \in Seq(UploadChunk)
      /\ Len(received) = Len(Piece(u)) + Len(Chunks(u, n))
      /\ \A i \in 1 .. Len(Piece(u)) + Len(Chunks(u, n)) :
           received[i] = IF i <= Len(Piece(u)) THEN Piece(u)[i]
                         ELSE Chunks(u, n)[i - Len(Piece(u))]
  <2> DEFINE a == Piece(u)
             b == Chunks(u, n)
  <2>1. a \in Seq(UploadChunk) /\ b \in Seq(UploadChunk) BY <1>1, <1>2
  <2> HIDE DEF a, b
  <2>2. /\ a \o b \in Seq(UploadChunk) /\ Len(a \o b) = Len(a) + Len(b)
        /\ \A i \in 1 .. Len(a) + Len(b) : (a \o b)[i] = IF i <= Len(a) THEN a[i] ELSE b[i - Len(a)]
    BY <2>1, ConcatProperties
  <2> QED BY <1>b, <2>2 DEF a, b
<1>4. Len(received) = u.next - 1 + n BY <1>0, <1>1, <1>2, <1>3
<1>5. \A i \in 1 .. u.next - 1 + n : received[i] = [number |-> u.number, index |-> i]
  <2> SUFFICES ASSUME NEW i \in 1 .. u.next - 1 + n
               PROVE  received[i] = [number |-> u.number, index |-> i]
    OBVIOUS
  <2>1. i \in 1 .. Len(Piece(u)) + Len(Chunks(u, n)) /\ i \in Nat BY <1>0, <1>1, <1>2
  <2>2. CASE i <= u.next - 1
    <3>1. i \in 1 .. u.next - 1 BY <1>0, <2>1, <2>2
    <3> QED BY <1>1, <1>3, <2>1, <2>2, <3>1
  <2>3. CASE i > u.next - 1
    <3> DEFINE k == i - (u.next - 1)
    <3>1. k \in 1..n /\ u.next + k - 1 = i /\ ~(i <= u.next - 1) BY <1>0, <2>1, <2>3
    <3>2. received[i] = Chunks(u, n)[k] BY <1>1, <1>3, <2>1, <3>1
    <3> HIDE DEF k
    <3> QED BY <1>2, <3>1, <3>2
  <2> QED BY <1>0, <2>1, <2>2, <2>3
<1>6. document' = [d EXCEPT !.chunks = received] BY DEF Takes, received
<1>7. /\ document' \in [expected : Nat, chunks : Seq(UploadChunk)]
      /\ document'.expected = u.size /\ document'.chunks = received
  BY <1>3, <1>6
<1>8. CASE Len(received) = d.expected
  <2>1. upload' = Ended(u) /\ confirmed' = (confirmed /\ received = WholeUpload(u))
    BY <1>8 DEF Takes, received
  <2>2. upload' \in UploadType /\ upload'.size = 0
    BY <2>1, EndedRight
  <2>3. received = WholeUpload(u)
    <3>1. WholeUpload(u) \in Seq(UploadChunk) /\ Len(WholeUpload(u)) = u.size
          /\ \A i \in 1..u.size : WholeUpload(u)[i] = [number |-> u.number, index |-> i]
      BY <1>0, <1>a DEF WholeUpload
    <3>2. Len(received) = u.size /\ u.next - 1 + n = u.size BY <1>4, <1>8
    <3>3. \A i \in 1..Len(received) : received[i] = WholeUpload(u)[i] BY <1>5, <3>1, <3>2
    <3> HIDE DEF WholeUpload
    <3> QED BY <1>3, <3>1, <3>2, <3>3, SeqEqual
  <2> QED BY <1>7, <2>1, <2>2, <2>3 DEF UploadInv
<1>9. CASE Len(received) # d.expected
  <2>1. upload' = after /\ confirmed' = confirmed BY <1>9 DEF Takes, received
  <2>2. /\ after \in UploadType /\ after.next = u.next + n
        /\ after.number = u.number /\ after.size = u.size
    <3>1. u.next + n \in Nat \ {0} BY <1>0
    <3> QED BY <1>0, <3>1 DEF UploadType
  <2> HIDE DEF after
  <2>3. received = Piece(after)
    <3>1. /\ Piece(after) \in Seq(UploadChunk) /\ Len(Piece(after)) = u.next - 1 + n
          /\ \A i \in 1 .. u.next - 1 + n : Piece(after)[i] = [number |-> u.number, index |-> i]
      <4>1. after.next - 1 = u.next - 1 + n /\ u.next - 1 + n \in Nat BY <1>0, <2>2
      <4> QED BY <1>a, <2>2, <4>1 DEF Piece
    <3>2. \A i \in 1..Len(received) : received[i] = Piece(after)[i] BY <1>4, <1>5, <3>1
    <3> QED BY <1>3, <1>4, <3>1, <3>2, SeqEqual
  <2> QED BY <1>7, <2>1, <2>2, <2>3 DEF UploadInv
<1> QED BY <1>8, <1>9

LEMMA UploadStep == UploadInv /\ [BleNext]_gattVars => UploadInv'
<1> SUFFICES ASSUME UploadInv, [BleNext]_gattVars PROVE UploadInv'
  OBVIOUS
<1>0. /\ upload \in UploadType
      /\ document \in [expected : Nat, chunks : Seq(UploadChunk)]
      /\ <<>> \in Seq(UploadChunk) /\ confirmed
  BY DEF UploadInv
<1>1. CASE UNCHANGED <<upload, document, confirmed>>
  BY <1>1 DEF UploadInv, Piece
<1>2. CASE EnableBle \/ StackReady \/ RestartWork \/ ConnectingFails \/ UNCHANGED gattVars
           \/ (\E on \in BOOLEAN : ClientSubscribes(on))
           \/ (\E size \in Sizes : ClientAsks(size)) \/ (\E n \in 1..MaxWrite : WriteControl(n))
           \/ LookAtFrame \/ PacketHandled \/ NotifyReply
  <2>1. UNCHANGED <<upload, document, confirmed>>
    BY <1>2 DEF EnableBle, StackReady, RestartWork, ConnectingFails, ClientSubscribes,
               ClientAsks, WriteControl, LookAtFrame, PacketHandled, NotifyReply,
               uploading, gattVars
  <2> QED BY <1>1, <2>1
<1>3. CASE ClientConnects \/ ClientDisconnects \/ PacketHandledTooLate
  <2>1. document' = [document EXCEPT !.expected = 0, !.chunks = <<>>]
        /\ UNCHANGED <<upload, confirmed>>
    BY <1>3 DEF ClientConnects, ClientDisconnects, PacketHandledTooLate, Forgets
  <2>2. document' \in [expected : Nat, chunks : Seq(UploadChunk)]
        /\ document'.expected = 0
    BY <1>0, <2>1
  <2> QED BY <1>0, <2>1, <2>2 DEF UploadInv
<1>4. ASSUME NEW size \in DocumentSizes, NEW n \in 1..MaxDocument, ClientUploads(size, n)
      PROVE  UploadInv'
  <2> DEFINE u == [number |-> upload.number + 1, size |-> size, next |-> 1]
  <2>1. size \in Nat /\ n \in Nat \ {0} /\ n <= size
    BY <1>4, BleAssumption DEF DocumentSizes, ClientUploads
  <2>2. u \in UploadType
    <3>1. upload.number + 1 \in Nat /\ 1 \in Nat \ {0} BY <1>0 DEF UploadType
    <3> QED BY <2>1, <3>1 DEF UploadType
  <2>3. Starts(size) \in [expected : Nat, chunks : Seq(UploadChunk)]
        /\ Starts(size).expected = size /\ Starts(size).chunks = <<>>
    BY <2>1 DEF Starts
  <2>4. CASE size > MaxDocument
    <3>1. document' = Starts(size) /\ upload' = Ended(u) /\ confirmed' = confirmed
      BY <1>4, <2>4 DEF ClientUploads
    <3>2. upload' \in UploadType /\ upload'.size = 0
      BY <2>2, <3>1, EndedRight
    <3> QED BY <1>0, <2>3, <3>1, <3>2 DEF UploadInv
  <2>5. CASE ~(size > MaxDocument)
    <3>1. Takes(Starts(size), u, n) BY <1>4, <2>5 DEF ClientUploads
    <3>2. u.size = size /\ u.next + n - 1 <= u.size BY <2>1
    <3>3. Piece(u) = <<>> BY DEF Piece
    <3> HIDE DEF u
    <3> QED BY <1>0, <2>1, <2>2, <2>3, <3>1, <3>2, <3>3, TakesRight
  <2> QED BY <2>4, <2>5
<1>5. ASSUME NEW n \in 1..MaxDocument, ClientContinues(n) PROVE UploadInv'
  <2>1. n \in Nat \ {0} /\ upload.next + n - 1 <= upload.size
    BY <1>5, BleAssumption DEF ClientContinues
  <2>2. upload.size # 0 BY <1>0, <2>1 DEF UploadType
  <2>3. CASE document.expected # 0 /\ Len(document.chunks) + n <= document.expected
    <3>1. Takes(document, upload, n) BY <1>5, <2>3 DEF ClientContinues
    <3>2. document.expected = upload.size /\ document.chunks = Piece(upload)
      BY <2>2, <2>3 DEF UploadInv
    <3> QED BY <1>0, <2>1, <3>1, <3>2, TakesRight
  <2>4. CASE ~(document.expected # 0 /\ Len(document.chunks) + n <= document.expected)
    <3>1. upload' = Ended(upload) /\ UNCHANGED <<document, confirmed>>
      BY <1>5, <2>4 DEF ClientContinues
    <3>2. upload' \in UploadType /\ upload'.size = 0
      BY <1>0, <3>1, EndedRight
    <3> QED BY <1>0, <3>1, <3>2 DEF UploadInv
  <2> QED BY <2>3, <2>4
<1>6. ASSUME NEW ok \in BOOLEAN, DocumentApplied(ok) PROVE UploadInv'
  <2>1. document' = [expected |-> 0, chunks |-> <<>>] /\ UNCHANGED <<upload, confirmed>>
    BY <1>6 DEF DocumentApplied, NothingReceived
  <2> QED BY <1>0, <2>1 DEF UploadInv
<1> QED BY <1>2, <1>3, <1>4, <1>5, <1>6 DEF BleNext

\* --------------------------------------------------------------- the whole
BleInv ==
  /\ ServiceInv /\ UploadInv /\ ReportIsIts /\ CanBeFound
  /\ air \in [ready : BOOLEAN, enabled : BOOLEAN, advertising : BOOLEAN, due : BOOLEAN,
              failed : BOOLEAN]

LEMMA BleInvInit == BleInit => BleInv
<1> SUFFICES ASSUME BleInit PROVE BleInv OBVIOUS
<1>1. UploadInv
  <2>1. <<>> \in Seq(UploadChunk) OBVIOUS
  <2>2. upload \in UploadType /\ upload.size = 0 BY DEF BleInit, NoUpload, UploadType
  <2> QED BY <2>1, <2>2 DEF BleInit, UploadInv, NothingReceived
<1>2. ReportIsIts /\ CanBeFound BY DEF BleInit, ReportIsIts, CanBeFound, Nobody
<1> QED BY <1>1, <1>2, ServiceInit DEF BleInit, BleInv

LEMMA AirStep ==
  ASSUME BleInv, [BleNext]_gattVars
  PROVE  /\ ReportIsIts' /\ CanBeFound'
         /\ air' \in [ready : BOOLEAN, enabled : BOOLEAN, advertising : BOOLEAN, due : BOOLEAN,
                      failed : BOOLEAN]
<1> DEFINE Air == [ready : BOOLEAN, enabled : BOOLEAN, advertising : BOOLEAN, due : BOOLEAN,
                   failed : BOOLEAN]
<1>0. air \in Air /\ ReportIsIts /\ CanBeFound /\ linkCount \in Nat
      /\ client \in [link : Nat, notify : BOOLEAN]
  BY DEF BleInv, ServiceInv, BleShape
<1> SUFFICES ReportIsIts' /\ CanBeFound' /\ air' \in Air
  OBVIOUS
<1>1. ASSUME NEW a \in Air, Advertises(a), UNCHANGED <<client, report>>
      PROVE  ReportIsIts' /\ CanBeFound' /\ air' \in Air
  BY <1>0, <1>1 DEF Advertises, ReportIsIts, CanBeFound
<1>2. CASE EnableBle
  <2>1. [air EXCEPT !.enabled = TRUE] \in Air BY <1>0
  <2> QED BY <1>1, <1>2, <2>1 DEF EnableBle, uploading
<1>3. CASE StackReady
  <2>1. [air EXCEPT !.ready = TRUE] \in Air BY <1>0
  <2> QED BY <1>1, <1>3, <2>1 DEF StackReady, uploading
<1>4. CASE RestartWork
  <2>1. [air EXCEPT !.due = FALSE] \in Air BY <1>0
  <2> QED BY <1>1, <1>4, <2>1 DEF RestartWork, uploading
<1>5. CASE ClientConnects
  <2>1. client'.link # 0 /\ report'.link = 0 BY <1>0, <1>5 DEF ClientConnects, NoReport
  <2>2. air' = [air EXCEPT !.advertising = FALSE] BY <1>5 DEF ClientConnects
  <2> QED BY <1>0, <2>1, <2>2 DEF ReportIsIts, CanBeFound
<1>6. CASE ConnectingFails
  BY <1>0, <1>6 DEF ConnectingFails, ReportIsIts, CanBeFound, uploading
<1>7. CASE ClientDisconnects
  BY <1>0, <1>7 DEF ClientDisconnects, ReportIsIts, CanBeFound, Nobody
<1>8. CASE PacketHandledTooLate
  BY <1>0, <1>8 DEF PacketHandledTooLate, ReportIsIts, CanBeFound, Nobody, NoReport
<1>9. ASSUME client'.link = client.link, air' = air,
             report' = report \/ report'.link \in {0, client.link}
      PROVE  ReportIsIts' /\ CanBeFound' /\ air' \in Air
  BY <1>0, <1>9 DEF ReportIsIts, CanBeFound
<1>10. ASSUME NEW on \in BOOLEAN, ClientSubscribes(on)
       PROVE  ReportIsIts' /\ CanBeFound' /\ air' \in Air
  <2>1. client'.link = client.link BY <1>0, <1>10 DEF ClientSubscribes
  <2> QED BY <1>9, <1>10, <2>1 DEF ClientSubscribes, uploading
<1>11. CASE (\E size \in Sizes : ClientAsks(size)) \/ (\E n \in 1..MaxWrite : WriteControl(n))
            \/ LookAtFrame \/ PacketHandled \/ NotifyReply \/ UNCHANGED gattVars
  BY <1>9, <1>11 DEF ClientAsks, WriteControl, LookAtFrame, PacketHandled, NotifyReply,
                    gattVars, uploading
<1>12. ASSUME NEW size \in DocumentSizes, NEW n \in 1..MaxDocument, ClientUploads(size, n)
       PROVE  ReportIsIts' /\ CanBeFound' /\ air' \in Air
  BY <1>9, <1>12 DEF ClientUploads, NoReport
<1>13. ASSUME NEW n \in 1..MaxDocument, ClientContinues(n)
       PROVE  ReportIsIts' /\ CanBeFound' /\ air' \in Air
  BY <1>9, <1>13 DEF ClientContinues
<1>14. ASSUME NEW ok \in BOOLEAN, DocumentApplied(ok)
       PROVE  ReportIsIts' /\ CanBeFound' /\ air' \in Air
  <2>1. air' = [air EXCEPT !.enabled = @ /\ ~ok] BY <1>14 DEF DocumentApplied
  <2>2. /\ air' \in Air /\ air'.ready = air.ready /\ (air'.enabled => air.enabled)
        /\ air'.advertising = air.advertising /\ air'.due = air.due /\ air'.failed = air.failed
    BY <1>0, <2>1
  <2>3. CanBeFound' BY <1>0, <1>14, <2>2 DEF CanBeFound, DocumentApplied
  <2>4. ReportIsIts' BY <1>14 DEF ReportIsIts, DocumentApplied
  <2> QED BY <2>2, <2>3, <2>4
<1> QED
  BY <1>2, <1>3, <1>4, <1>5, <1>6, <1>7, <1>8, <1>10, <1>11, <1>12, <1>13, <1>14 DEF BleNext

LEMMA BleInvStep == BleInv /\ [BleNext]_gattVars => BleInv'
BY ServiceStep, UploadStep, AirStep DEF BleInv

\* However a client cuts its writes, whichever links are lost and notifications
\* are slow, and for payloads, writes and documents of any size: requests are
\* handled in order and once, answers and results are of the client's own link,
\* a write always fits, a document that is applied is one whole upload, and a
\* node that is open to provisioning can be found.
THEOREM ClientIsServedHolds == BleSpec => []ClientIsServed
<1>1. BleInv => ClientIsServed
  <2> SUFFICES ASSUME BleInv PROVE ClientIsServed OBVIOUS
  <2>0. ServiceInv /\ BleShape BY DEF BleInv, ServiceInv
  <2>1. HandledInOrder
    <3>1. AllInOrder(handled) BY <2>0 DEF ServiceInv, StreamInv, DoneBefore
    <3> SUFFICES ASSUME NEW id \in 1..Len(stream.sizes)
                 PROVE  \/ \E i \in 1..Len(handled) : handled[i] = id
                        \/ \E unit \in 1..Len(stream.toWrite) : stream.toWrite[unit].id = id
                        \/ \E unit \in 1..Len(rxBuffer) : rxBuffer[unit].id = id
                        \/ \E long \in 1..id : TooLong(long)
      BY <3>1 DEF HandledInOrder
    <3>2. \/ \E i \in 1..Len(handled) : handled[i] = id
          \/ \E k \in 1..Len(Ahead) : Ahead[k].id = id
          \/ LongBy(stream.sizes, id)
      BY <2>0 DEF ServiceInv, StreamInv, NoneLost
    <3>3. ASSUME NEW k \in 1..Len(Ahead), Ahead[k].id = id
          PROVE  \/ \E unit \in 1..Len(stream.toWrite) : stream.toWrite[unit].id = id
                 \/ \E unit \in 1..Len(rxBuffer) : rxBuffer[unit].id = id
      <4> DEFINE n == Len(rxBuffer)
      <4>1. /\ n \in Nat /\ Len(stream.toWrite) \in Nat /\ Len(Ahead) = n + Len(stream.toWrite)
            /\ \A i \in 1..n : Ahead[i] = rxBuffer[i]
            /\ \A i \in 1..Len(stream.toWrite) : Ahead[n + i] = stream.toWrite[i]
        <5>1. rxBuffer \in Seq(StreamUnit) /\ stream.toWrite \in Seq(StreamUnit)
          BY <2>0 DEF BleShape
        <5>2. n \in Nat /\ Len(stream.toWrite) \in Nat BY <5>1
        <5>3. /\ Len(Ahead) = Len(rxBuffer) + Len(stream.toWrite)
              /\ \A i \in 1..Len(rxBuffer) : Ahead[i] = rxBuffer[i]
              /\ \A i \in 1..Len(stream.toWrite) : Ahead[Len(rxBuffer) + i] = stream.toWrite[i]
          BY <2>0, AheadRight, Zenon DEF ServiceInv
        <5> QED BY <5>2, <5>3
      <4> HIDE DEF n
      <4>2. CASE k <= n
        <5>1. k \in 1..n BY <4>1, <4>2
        <5> QED BY <3>3, <4>1, <5>1 DEF n
      <4>3. CASE k > n
        <5> DEFINE i == k - n
        <5>1. i \in 1..Len(stream.toWrite) /\ n + i = k BY <4>1, <4>3
        <5> HIDE DEF i
        <5> QED BY <3>3, <4>1, <5>1
      <4> QED BY <4>1, <4>2, <4>3
    <3>4. LongBy(stream.sizes, id) => \E long \in 1..id : TooLong(long)
      BY DEF LongBy, TooLong
    <3> QED BY <3>2, <3>3, <3>4
  <2>2. WritesFit
    <3> SUFFICES ASSUME callback = "idle" PROVE Len(rxBuffer) + MaxWrite <= Capacity
      BY DEF WritesFit
    <3>1. Len(rxBuffer) \in Nat /\ Len(rxBuffer) < 2 + MaxPayload
      BY <2>0 DEF ServiceInv, BufferRight, BleShape, HeaderUnits
    <3>2. MaxPayload \in Nat /\ MaxWrite \in Nat /\ MaxWrite <= MaxPayload BY BleAssumption
    <3>3. Capacity = 2 * (2 + MaxPayload) BY DEF Capacity, HeaderUnits
    <3> QED BY <3>1, <3>2, <3>3
  <2>3. AnswersAreIts
    <3>1. /\ \A i, j \in 1..Len(answered) : i < j => answered[i].id < answered[j].id
          /\ \A i \in 1..Len(answered) :
               /\ answered[i].link = client.link
               /\ \E j \in 1..Len(handled) : handled[j] = answered[i].id
      BY <2>0 DEF ServiceInv, AnswersRight
    <3> DEFINE ids == [i \in 1..Len(answered) |-> answered[i].id]
    <3>2. Len(ids) = Len(answered) /\ \A i \in 1..Len(answered) : ids[i] = answered[i].id
      BY <2>0 DEF BleShape
    <3> HIDE DEF ids
    <3>3. AllInOrder(ids) BY <3>1, <3>2 DEF AllInOrder
    <3> QED BY <3>1, <3>3 DEF AnswersAreIts, ids
  <2> QED BY <2>1, <2>2, <2>3 DEF BleInv, UploadInv, DocumentWhole, ClientIsServed
<1> QED BY <1>1, BleInvInit, BleInvStep, PTL DEF BleSpec
===============================================================================
