------------------------------ MODULE EspTopology ------------------------------
(***************************************************************************)
(* The neighbours of an ESP32 in its status report (firmware/src/main.cpp):*)
(* remember_topology_peer keeps the nodes whose beacons were heard in a    *)
(* table of fixed size, append_topology lists the mesh's routes and the    *)
(* nodes heard lately.  The table is locked for each of the two, so that   *)
(* each is one step.                                                       *)
(***************************************************************************)
EXTENDS Naturals, FiniteSets

CONSTANTS
  Nodes,      \* nodes and boards in range, each with its radio
  Slots,      \* positions of the table
  MaxLinks,   \* links in a report
  MaxAge      \* kTopologyPeerMaxAgeMs, in units of time of the model

ASSUME TopologyAssumption ==
  /\ IsFiniteSet(Nodes)
  /\ IsFiniteSet(Slots) /\ Slots # {}
  /\ MaxLinks = Cardinality(Slots)
  /\ MaxAge \in Nat

VARIABLES
  peers,    \* topology_peers
  routes,   \* originators BATMAN has a route to
  heardAt   \* how long ago each node was heard, for the properties

topologyVars == <<peers, routes, heardAt>>

\* Ages beyond the limit make no difference.
Never == MaxAge + 1
Ages == 0..Never
Older(age) == IF age = Never THEN Never ELSE age + 1
FreeSlot == [occupied |-> FALSE]
Peer(n, age) == [occupied |-> TRUE, node |-> n, age |-> age]
Occupied == {s \in Slots : peers[s].occupied}

TopologyInit ==
  /\ peers = [s \in Slots |-> FreeSlot]
  /\ routes = {}
  /\ heardAt = [n \in Nodes |-> Never]

\* remember_topology_peer: the node's own slot, else a free one, else one of
\* those heard longest ago.
\* (NewestPeers: as if the comparison of the times were the other way round.)
NewestPeers == {s \in Occupied : \A t \in Occupied : peers[t].age >= peers[s].age}
OwnSlot(n) == {s \in Occupied : peers[s].node = n}
OldestPeers == {s \in Occupied : \A t \in Occupied : peers[t].age <= peers[s].age}
SlotFor(n) ==
  IF OwnSlot(n) # {} THEN OwnSlot(n)
  ELSE IF Slots \ Occupied # {} THEN Slots \ Occupied
  ELSE OldestPeers

HearNode(n) ==
  /\ \E s \in SlotFor(n) : peers' = [peers EXCEPT ![s] = Peer(n, 0)]
  /\ heardAt' = [heardAt EXCEPT ![n] = 0]
  /\ UNCHANGED routes

TimePasses ==
  /\ peers' = [s \in Slots |-> IF peers[s].occupied
                               THEN Peer(peers[s].node, Older(peers[s].age))
                               ELSE peers[s]]
  /\ heardAt' = [n \in Nodes |-> Older(heardAt[n])]
  /\ UNCHANGED routes

\* BATMAN finds and loses routes (those refreshed within kTopologyPeerMaxAgeMs);
\* a snapshot holds no more than a report.
RoutesChange ==
  /\ routes' \in {r \in SUBSET Nodes : Cardinality(r) <= MaxLinks}
  /\ UNCHANGED <<peers, heardAt>>

\* append_topology: all routes, then recent peers that are not among them, in
\* the table's order, as long as there is room.
RecentPeers == {peers[s].node : s \in {t \in Occupied : peers[t].age <= MaxAge}} \ routes
Reports ==
  LET room == MaxLinks - Cardinality(routes)
  IN IF Cardinality(RecentPeers) <= room THEN {routes \cup RecentPeers}
     ELSE {routes \cup some : some \in {p \in SUBSET RecentPeers : Cardinality(p) = room}}

TopologyNext == (\E n \in Nodes : HearNode(n)) \/ TimePasses \/ RoutesChange
TopologySpec == TopologyInit /\ [][TopologyNext]_topologyVars

TopologyTypeOK ==
  /\ peers \in [Slots -> {FreeSlot} \cup
                         [occupied : {TRUE}, node : Nodes, age : Ages]]
  /\ routes \subseteq Nodes
  /\ heardAt \in [Nodes -> Ages]

\* A report lists a route or a node heard lately and nothing else, and lists
\* every node heard lately as long as all of them and the routes fit: no slot is
\* given to one node twice, and a full table forgets the node not heard longest.
Lately == {n \in Nodes : heardAt[n] <= MaxAge}
NeighboursListed ==
  \A report \in Reports :
    /\ report \subseteq routes \cup Lately
    /\ Cardinality(routes \cup Lately) <= MaxLinks => Lately \subseteq report
=============================================================================
