------------------------------- MODULE MCBoards -------------------------------
(***************************************************************************)
(* The groups of tasks that share state on the ESP32 board, in the app and *)
(* the portal, and the installer, each of them checked by itself: a        *)
(* behaviour runs one group and leaves the others where they start.        *)
(***************************************************************************)
EXTENDS EspStartup, EspTelemetry, EspTopology, SensorScript, RelayPeers,
        AppSession, Portal, Installer, ScriptOutput, AppProvision

VARIABLE group    \* the group that runs

boardVars == <<startupVars, telemetryVars, topologyVars, scriptVars, peerVars,
               appVars, portalVars, installVars, outputVars, dialogVars, group>>

BoardsInit ==
  /\ group \in {"startup", "telemetry", "topology", "script", "peers", "app",
                "portal", "install", "output", "dialog"}
  /\ StartupInit /\ TopologyInit /\ ScriptInit /\ PeersInit /\ AppInit
  /\ TelemetryInit /\ (group # "telemetry" => upstream)
  /\ PortalInit /\ (group # "portal" => account = NoOperator)
  /\ InstallInit /\ (group # "install" => readScope)
  /\ OutputInit
  /\ DialogInit /\ pasture = CHOOSE p \in Pastures : TRUE

BoardsNext ==
  /\ UNCHANGED group
  /\ \/ /\ group = "startup" /\ StartupNext
        /\ UNCHANGED <<telemetryVars, topologyVars, scriptVars, peerVars, appVars,
                       portalVars, installVars, outputVars, dialogVars>>
     \/ /\ group = "telemetry" /\ TelemetryNext
        /\ UNCHANGED <<startupVars, topologyVars, scriptVars, peerVars, appVars,
                       portalVars, installVars, outputVars, dialogVars>>
     \/ /\ group = "topology" /\ TopologyNext
        /\ UNCHANGED <<startupVars, telemetryVars, scriptVars, peerVars, appVars,
                       portalVars, installVars, outputVars, dialogVars>>
     \/ /\ group = "script" /\ ScriptNext
        /\ UNCHANGED <<startupVars, telemetryVars, topologyVars, peerVars, appVars,
                       portalVars, installVars, outputVars, dialogVars>>
     \/ /\ group = "peers" /\ PeersNext
        /\ UNCHANGED <<startupVars, telemetryVars, topologyVars, scriptVars, appVars,
                       portalVars, installVars, outputVars, dialogVars>>
     \/ /\ group = "app" /\ AppNext
        /\ UNCHANGED <<startupVars, telemetryVars, topologyVars, scriptVars, peerVars,
                       portalVars, installVars, outputVars, dialogVars>>
     \/ /\ group = "portal" /\ PortalNext
        /\ UNCHANGED <<startupVars, telemetryVars, topologyVars, scriptVars, peerVars,
                       appVars, installVars, outputVars, dialogVars>>
     \/ /\ group = "install" /\ InstallNext
        /\ UNCHANGED <<startupVars, telemetryVars, topologyVars, scriptVars, peerVars,
                       appVars, portalVars, outputVars, dialogVars>>
     \/ /\ group = "output" /\ OutputNext
        /\ UNCHANGED <<startupVars, telemetryVars, topologyVars, scriptVars, peerVars,
                       appVars, portalVars, installVars, dialogVars>>
     \/ /\ group = "dialog" /\ DialogNext
        /\ UNCHANGED <<startupVars, telemetryVars, topologyVars, scriptVars, peerVars,
                       appVars, portalVars, installVars, outputVars>>

BoardsSpec ==
  /\ BoardsInit /\ [][BoardsNext]_boardVars
  /\ \/ group = "startup" /\ StartupFairness
     \/ group = "telemetry" /\ TelemetryFairness
     \/ group \notin {"startup", "telemetry"}

\* Every variable of the ten groups keeps its type; queues and tables keep
\* their lengths, also where the code adds without a look at them.
BoardsTypeOK == StartupTypeOK /\ TelemetryTypeOK /\ TopologyTypeOK /\ ScriptTypeOK
                /\ PeersTypeOK /\ AppTypeOK /\ PortalTypeOK /\ InstallTypeOK
                /\ OutputTypeOK /\ DialogTypeOK
\* The board's own report, made every 30 s by gateway_telemetry_task, is always
\* made and always leaves it or meets a full queue, on a gateway and on a leaf,
\* also if a sensor script never gives the hardware back.
BoardHeard == group = "telemetry" => GatewayIsHeard
===============================================================================
