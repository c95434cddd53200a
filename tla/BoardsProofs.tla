------------------------------ MODULE BoardsProofs -----------------------------
(***************************************************************************)
(* Proofs about the composition of MCBoards: it runs its ten groups, each  *)
(* by its own specification and with the others at rest, so that what      *)
(* EspBoardProofs and AppPortalProofs prove of a group holds of it.        *)
(***************************************************************************)
EXTENDS MCBoards, EspBoardProofs, AppPortalProofs

LEMMA GroupsStart ==
  BoardsInit =>
    /\ StartupInit /\ TelemetryInit /\ TopologyInit /\ ScriptInit /\ PeersInit
    /\ AppInit /\ PortalInit /\ InstallInit /\ OutputInit /\ DialogInit
  BY DEF BoardsInit

\* A step of the composition is a step of one group and changes no other.
LEMMA GroupsStep ==
  [BoardsNext]_boardVars =>
    /\ [StartupNext]_startupVars /\ [TelemetryNext]_telemetryVars
    /\ [TopologyNext]_topologyVars /\ [ScriptNext]_scriptVars
    /\ [PeersNext]_peerVars /\ [AppNext]_appVars
    /\ [PortalNext]_portalVars /\ [InstallNext]_installVars
    /\ [OutputNext]_outputVars /\ [DialogNext]_dialogVars
<1> SUFFICES ASSUME [BoardsNext]_boardVars
             PROVE  /\ [StartupNext]_startupVars /\ [TelemetryNext]_telemetryVars
                    /\ [TopologyNext]_topologyVars /\ [ScriptNext]_scriptVars
                    /\ [PeersNext]_peerVars /\ [AppNext]_appVars
                    /\ [PortalNext]_portalVars /\ [InstallNext]_installVars
                    /\ [OutputNext]_outputVars /\ [DialogNext]_dialogVars
  OBVIOUS
<1>1. [StartupNext]_startupVars
  BY DEF BoardsNext, boardVars
<1>2. [TelemetryNext]_telemetryVars
  BY DEF BoardsNext, boardVars
<1>3. [TopologyNext]_topologyVars
  BY DEF BoardsNext, boardVars
<1>4. [ScriptNext]_scriptVars
  BY DEF BoardsNext, boardVars
<1>5. [PeersNext]_peerVars
  BY DEF BoardsNext, boardVars
<1>6. [AppNext]_appVars
  BY DEF BoardsNext, boardVars
<1>7. [PortalNext]_portalVars
  BY DEF BoardsNext, boardVars
<1>8. [InstallNext]_installVars
  BY DEF BoardsNext, boardVars
<1>9. [OutputNext]_outputVars
  BY DEF BoardsNext, boardVars
<1>10. [DialogNext]_dialogVars
  BY DEF BoardsNext, boardVars
<1> QED
  BY <1>1, <1>2, <1>3, <1>4, <1>5, <1>6, <1>7, <1>8, <1>9, <1>10

\* The composition implements the specification of every one of its groups.
THEOREM BoardsRunGroups ==
  BoardsSpec =>
    /\ StartupSpec /\ TelemetrySpec /\ TopologySpec /\ ScriptSpec /\ PeersSpec
    /\ AppSpec /\ PortalSpec /\ InstallSpec /\ OutputSpec /\ DialogSpec
<1>1. BoardsSpec => BoardsInit /\ [][BoardsNext]_boardVars
  BY DEF BoardsSpec
<1> QED
  BY <1>1, GroupsStart, GroupsStep, PTL
     DEF StartupSpec, TelemetrySpec, TopologySpec, ScriptSpec, PeersSpec, AppSpec,
         PortalSpec, InstallSpec, OutputSpec, DialogSpec

\* Every variable of the ten groups keeps its type, for any devices, users,
\* scripts and documents, any sizes of the queues and tables, and any number of
\* faults.
THEOREM BoardsTypesHold == BoardsSpec => []BoardsTypeOK
<1>1. BoardsTypeOK <=>
        /\ StartupTypeOK /\ TelemetryTypeOK /\ TopologyTypeOK /\ ScriptTypeOK /\ PeersTypeOK
        /\ AppTypeOK /\ PortalTypeOK /\ InstallTypeOK /\ OutputTypeOK /\ DialogTypeOK
  BY DEF BoardsTypeOK
<1>2. OutputSpec => []OutputTypeOK
  BY OutputTypeCorrect
<1> QED
  BY <1>1, <1>2, BoardsRunGroups, StartupTypeCorrect, TelemetryTypeCorrect, TopologyTypeCorrect,
     ScriptTypeCorrect, PeersTypeCorrect, AppTypesHold, PortalTypesHold, InstallTypesHold,
     DialogTypesHold, PTL

\* What the proofs of the groups say of the ten specifications holds together, of
\* the composition that the runs check: nothing of one group is lost beside
\* another.
THEOREM BoardsStaySafe ==
  BoardsSpec =>
    [](/\ AcknowledgedIsStored /\ SecondClientNeedsOverlap
       /\ OutageLosesOne /\ NeighboursListed /\ CommandFindsItsLeaf
       /\ PinsExclusive /\ ToldIsTrue /\ BlobIsOfItsRun
       /\ UsersApart /\ PortalShowsSelected /\ InstallRepeatable /\ SetupIsRight)
  BY BoardsRunGroups, AcknowledgedIsStoredHolds, SecondClientNeedsOverlapHolds,
     OutageLosesOneHolds, NeighboursListedHolds, CommandFindsItsLeafHolds, PinsExclusiveHolds,
     ToldIsTrueHolds, BlobIsOfItsRunHolds, UsersStayApart, PortalAlwaysShowsSelected,
     InstallStaysRepeatable, SetupStaysRight, PTL

\* And no board of the composition is left that cannot be reached, provided that
\* 750 ms are enough for the handler of a document.
THEOREM BoardsNeverDeaf ==
  ASSUME HandlerInTime
  PROVE  BoardsSpec => []NeverDeaf
<1>1. StartupSpec => []NeverDeaf
  BY NeverDeafHolds
<1> QED
  BY <1>1, BoardsRunGroups, PTL
===============================================================================
