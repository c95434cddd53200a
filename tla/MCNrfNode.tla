------------------------------ MODULE MCNrfNode ------------------------------
(***************************************************************************)
(* The groups of threads that share state on the nRF54 node, each of them  *)
(* checked by itself: the node that may lose power, a radio start, beacons *)
(* and an NVS write; its sensors; its Bluetooth services; its GPS stream.  *)
(***************************************************************************)
EXTENDS NrfNode, NrfSensors, NrfBle, NrfGps

VARIABLE group    \* the group that runs

nodeVars == <<vars, sensorVars, gattVars, gpsVars, group>>

NodeInit ==
  /\ group \in {"node", "sensors", "gatt", "gps"}
  /\ Init /\ (group # "node" => nvsMqtt = None /\ nvsProfile = None)
  /\ SensorsInit /\ (group # "sensors" => wanted = "none")
  /\ BleInit
  /\ GpsInit /\ (group # "gps" => enabled)

NodeNext ==
  /\ UNCHANGED group
  /\ \/ group = "node" /\ Next /\ UNCHANGED <<sensorVars, gattVars, gpsVars>>
     \/ group = "sensors" /\ SensorsNext /\ UNCHANGED <<vars, gattVars, gpsVars>>
     \/ group = "gatt" /\ BleNext /\ UNCHANGED <<vars, sensorVars, gpsVars>>
     \/ group = "gps" /\ GpsNext /\ UNCHANGED <<vars, sensorVars, gattVars>>

NodeSpec ==
  /\ NodeInit /\ [][NodeNext]_nodeVars
  /\ group = "node" => Fairness
===============================================================================
