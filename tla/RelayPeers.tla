------------------------------ MODULE RelayPeers ------------------------------
(***************************************************************************)
(* The peer table of the MQTT layer-2 relay (mqtt_l2_relay.cpp): leaves    *)
(* advertise their serial, the gateway's receive callback keeps serial and *)
(* originator address in a table of fixed size, and the MQTT task looks an *)
(* application command's serial up in it.  A lock is declared, and taken   *)
(* by neither: one step is one access to an entry.                         *)
(***************************************************************************)
EXTENDS Naturals, FiniteSets

CONSTANTS
  Leaves,       \* leaves; each has one serial and one radio
  PeerCount,    \* kPeerCount
  NoLeaf,       \* an empty serial, an address of nobody
  MaxAdverts,   \* bound: advertisements received
  MaxLookups    \* bound: commands for leaves

ASSUME PeersAssumption ==
  /\ IsFiniteSet(Leaves) /\ NoLeaf \notin Leaves
  /\ PeerCount \in Nat \ {0}
  /\ MaxAdverts \in Nat /\ MaxLookups \in Nat

VARIABLES
  table,       \* peers: used entries have a serial
  adverts,     \* advertisements so far; also the time
  receiving,   \* the receive callback: its step, the entry and the leaf
  lookup,      \* the MQTT task: its step, the leaf wanted, the entry looked at
  lookups,     \* commands so far
  advertised,  \* leaves heard since the start, for the property
  forwarded    \* commands sent: to whom, for whom

peerVars == <<table, adverts, receiving, lookup, lookups, advertised, forwarded>>

Entries == 1..PeerCount
NoPeer == [serial |-> NoLeaf, mac |-> NoLeaf, seen |-> 0]
NotReceiving == [at |-> "idle", entry |-> 1, leaf |-> NoLeaf]
NoLookup == [at |-> "idle", leaf |-> NoLeaf, entry |-> 1]

PeersInit ==
  /\ table = [i \in Entries |-> NoPeer]
  /\ adverts = 0 /\ lookups = 0
  /\ receiving = NotReceiving
  /\ lookup = NoLookup
  /\ advertised = {} /\ forwarded = {}

\* ---------------------------------------------------------- receive callback

\* remember_peer_serial: the leaf's own entry, else the first free one, else
\* the first of those heard longest ago.
EntriesOf(l) == {i \in Entries : table[i].serial = l}
Oldest == {i \in Entries : \A j \in Entries : table[i].seen <= table[j].seen}
First(entries) == CHOOSE i \in entries : \A j \in entries : i <= j

\* As if the leaf's own entry were not looked for.
EntryAnew(l) == IF EntriesOf(NoLeaf) # {} THEN First(EntriesOf(NoLeaf)) ELSE First(Oldest)

EntryFor(l) ==
  IF EntriesOf(l) # {} THEN First(EntriesOf(l))
  ELSE IF EntriesOf(NoLeaf) # {} THEN First(EntriesOf(NoLeaf))
  ELSE First(Oldest)

\* mqtt_l2_relay_receive, kPeerAdvertise: the entry is chosen ...
Advertise(l) ==
  /\ receiving.at = "idle" /\ adverts < MaxAdverts
  /\ adverts' = adverts + 1
  /\ advertised' = advertised \cup {l}
  /\ receiving' = [at |-> "serial", entry |-> EntryFor(l), leaf |-> l]
  /\ UNCHANGED <<table, lookup, lookups, forwarded>>

\* ... its serial written, then the address and the time.
WriteSerial ==
  /\ receiving.at = "serial"
  /\ table' = [table EXCEPT ![receiving.entry].serial = receiving.leaf]
  /\ receiving' = [receiving EXCEPT !.at = "mac"]
  /\ UNCHANGED <<adverts, lookup, lookups, advertised, forwarded>>

WriteMac ==
  /\ receiving.at = "mac"
  /\ table' = [table EXCEPT ![receiving.entry].mac = receiving.leaf,
                            ![receiving.entry].seen = adverts]
  /\ receiving' = NotReceiving
  /\ UNCHANGED <<adverts, lookup, lookups, advertised, forwarded>>

\* ----------------------------------------------------------------- MQTT task

\* While a used serial is replaced, the bytes in between may match any serial;
\* over an empty one they are a prefix, which is the serial of no leaf.
Torn(i) == receiving.at = "serial" /\ receiving.entry = i
           /\ table[i].serial \notin {NoLeaf, receiving.leaf}
Matches(i, l) == IF Torn(i) THEN BOOLEAN ELSE {table[i].serial = l}

\* The bytes of two addresses may make the address of anyone.
TornMac(i) == receiving.at = "mac" /\ receiving.entry = i
              /\ table[i].mac \notin {NoLeaf, receiving.leaf}
MacsOf(i) == IF TornMac(i) THEN Leaves \cup {NoLeaf} ELSE {table[i].mac}

\* mqtt_l2_relay_forward_command, an application command; a system command
\* names the radio itself and needs no table.
LookUp(l) ==
  /\ lookup.at = "idle" /\ lookups < MaxLookups
  /\ lookups' = lookups + 1
  /\ lookup' = [at |-> "scan", leaf |-> l, entry |-> 1]
  /\ UNCHANGED <<table, adverts, receiving, advertised, forwarded>>

\* peer_for_serial: entry by entry; a leaf that is not found gets nothing.
ScanEntry ==
  /\ lookup.at = "scan"
  /\ \E match \in Matches(lookup.entry, lookup.leaf) :
       lookup' = IF match THEN [lookup EXCEPT !.at = "copy"]
                 ELSE IF lookup.entry = PeerCount THEN NoLookup
                 ELSE [lookup EXCEPT !.entry = @ + 1]
  /\ UNCHANGED <<table, adverts, receiving, lookups, advertised, forwarded>>

CopyMac ==
  /\ lookup.at = "copy"
  /\ \E mac \in MacsOf(lookup.entry) :
       forwarded' = forwarded \cup {[to |-> mac, for |-> lookup.leaf]}
  /\ lookup' = NoLookup
  /\ UNCHANGED <<table, adverts, receiving, lookups, advertised>>

\* ------------------------------------------------------------ specification

PeersNext ==
  \/ \E l \in Leaves : Advertise(l) \/ LookUp(l)
  \/ WriteSerial \/ WriteMac \/ ScanEntry \/ CopyMac

PeersSpec == PeersInit /\ [][PeersNext]_peerVars

\* --------------------------------------------------------------- properties

PeersTypeOK ==
  /\ table \in [Entries -> [serial : Leaves \cup {NoLeaf}, mac : Leaves \cup {NoLeaf},
                            seen : 0..MaxAdverts]]
  /\ adverts \in 0..MaxAdverts /\ lookups \in 0..MaxLookups
  /\ receiving \in [at : {"idle", "serial", "mac"}, entry : Entries,
                    leaf : Leaves \cup {NoLeaf}]
  /\ lookup \in [at : {"idle", "scan", "copy"}, leaf : Leaves \cup {NoLeaf},
                 entry : Entries]
  /\ advertised \subseteq Leaves
  /\ forwarded \subseteq [to : Leaves \cup {NoLeaf}, for : Leaves \cup {NoLeaf}]

\* As long as the leaves heard fit into the table, the missing lock does no
\* harm: a command goes to the leaf it is for, or to an address of nobody while
\* that leaf's first advertisement is being stored.  (With more leaves it may
\* reach another one, whose topic check drops it.)
CommandFindsItsLeaf ==
  Cardinality(advertised) <= PeerCount =>
    \A c \in forwarded : c.to \in {c.for, NoLeaf}
=============================================================================
