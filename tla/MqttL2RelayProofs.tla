-------------------------- MODULE MqttL2RelayProofs --------------------------
(***************************************************************************)
(* The theorems about the relay, for every number of stations, slots,      *)
(* message lengths and duplicates: its types, DeliveredWhole,              *)
(* OneSlotPerMessage, OnlyOldestGivesWay, FirstFragmentKept and the        *)
(* refinement of RelayService.  They rest on one inductive invariant,      *)
(* Integrity: every frame on the air is a fragment of a message that was   *)
(* sent, and every slot holds a prefix of one, the first fragment at       *)
(* least.                                                                  *)
(***************************************************************************)
EXTENDS MqttL2Relay, WellFoundedInduction, TLAPS

\* ------------------------------------------------------ the inductive invariant

\* A sender and an id name one message.
UniqueIds == \A m1, m2 \in sent : m1.src = m2.src /\ m1.id = m2.id => m1 = m2

\* Every frame on the air is a fragment of a message that was sent.
FramesGenuine ==
  \A f \in network : \E m \in sent : \E o \in 0..m.total - 1 : f = Fragment(m, o)

\* A slot holds the first bytes of m, with its topic from the first one on: no
\* less than the first fragment, if anything.
Rebuilds(slot, m) ==
  /\ slot \in Assembly(m.total)
  /\ slot.received # 0 => slot.received >= ChunkOf(m, 0)
  /\ slot.source = m.src /\ slot.id = m.id /\ slot.type = m.type
  /\ \A k \in 1..slot.received : slot.payload[k] = ByteAt(m, k)
  /\ slot.topic = IF slot.received = 0 THEN None ELSE TopicOf(m)

\* Every slot in use rebuilds a message addressed to its station.
SlotsGenuine ==
  /\ DOMAIN assemblies = Node
  /\ \A n \in Node :
       /\ DOMAIN assemblies[n] = Slots
       /\ \A s \in Slots :
            \/ assemblies[n][s] = EmptySlot
            \/ \E m \in sent : m.dst = n /\ Rebuilds(assemblies[n][s], m)

\* What station n may be given: the messages that were sent to it.
ContentsFor(n) == {ContentOf(m) : m \in {x \in sent : x.dst = n}}

QueuesGenuine ==
  /\ DOMAIN queue = Node
  /\ \A n \in Node : queue[n] \in Seq(ContentsFor(n)) /\ Len(queue[n]) <= QueueDepth

HandedGenuine ==
  /\ DOMAIN handed = Node
  /\ \A n \in Node : handed[n] \subseteq ContentsFor(n)

Scalars ==
  /\ sent \subseteq Message
  /\ duplicates \in 0..MaxDuplicates
  /\ clock \in [Node -> Nat]

Integrity ==
  /\ Scalars
  /\ UniqueIds
  /\ FramesGenuine
  /\ SlotsGenuine
  /\ QueuesGenuine
  /\ HandedGenuine
  /\ OneSlotPerMessage

-----------------------------------------------------------------------------
\* Operators.

\* A set of natural numbers that is not empty has a least element.
LEMMA NatMin ==
  ASSUME NEW S \in SUBSET Nat, S # {}
  PROVE \E x \in S : \A y \in S : x <= y
<1> DEFINE R == OpToRel(<, Nat)
<1>1. IsWellFoundedOn(R, Nat)
  BY NatLessThanWellFounded
<1>2. PICK x \in S : \A y \in S : ~(<<y, x>> \in R)
  BY <1>1, WFMin
<1>3. \A y \in S : ~(y < x)
  BY <1>2 DEF OpToRel
<1> QED
  BY <1>3

\* LowestOf picks a member of the set.
LEMMA LowestOfMember ==
  ASSUME NEW S \in SUBSET Slots, S # {}
  PROVE LowestOf(S) \in S
<1>1. S \in SUBSET Nat
  BY RelayAssumption DEF Slots
<1>2. \E s \in S : \A t \in S : s <= t
  BY <1>1, NatMin
<1> QED
  BY <1>2 DEF LowestOf

\* Of slots that are all in use one was touched longest ago, and OldestSlot is
\* such a one.
LEMMA OldestSlotIsOldest ==
  ASSUME NEW table, \A s \in Slots : table[s].updated \in Nat
  PROVE /\ OldestSlot(table) \in Slots
        /\ \A t \in Slots : table[OldestSlot(table)].updated <= table[t].updated
<1> DEFINE times == {table[s].updated : s \in Slots}
           oldest == {s \in Slots : \A t \in Slots : table[s].updated <= table[t].updated}
<1>1. times \in SUBSET Nat /\ times # {}
  <2>1. times \in SUBSET Nat
    OBVIOUS
  <2>2. 1 \in Slots
    BY RelayAssumption DEF Slots
  <2>3. table[1].updated \in times
    BY <2>2
  <2> QED
    BY <2>1, <2>3
<1>2. PICK x \in times : \A y \in times : x <= y
  BY <1>1, NatMin
<1>3. PICK s \in Slots : x = table[s].updated
  BY <1>2
<1>4. s \in oldest
  BY <1>2, <1>3
<1>5. LowestOf(oldest) \in oldest
  BY <1>4, LowestOfMember
<1> QED
  BY <1>5 DEF OldestSlot

\* find_assembly returns the message's slot when there is one, and a slot in
\* use that is not the message's only when none is free, and then the oldest.
LEMMA FindAssemblySlot ==
  ASSUME NEW table, NEW f,
         \A s \in Slots : table[s].used => table[s].updated \in Nat
  PROVE /\ FindAssembly(table, f) \in Slots
        /\ Matching(table, f) # {} => SameMessage(table[FindAssembly(table, f)], f)
        /\ table[FindAssembly(table, f)].used
           => \/ SameMessage(table[FindAssembly(table, f)], f)
              \/ \A t \in Slots :
                   /\ table[t].used
                   /\ table[FindAssembly(table, f)].updated <= table[t].updated
<1>1. CASE Matching(table, f) # {}
  <2>1. FindAssembly(table, f) \in Matching(table, f)
    BY <1>1, LowestOfMember DEF FindAssembly, Matching
  <2> QED
    BY <2>1 DEF Matching
<1>2. CASE Matching(table, f) = {} /\ FreeSlots(table) # {}
  <2>1. FindAssembly(table, f) \in FreeSlots(table)
    BY <1>2, LowestOfMember DEF FindAssembly, FirstFreeElseOldest, FreeSlots
  <2> QED
    BY <1>2, <2>1 DEF FreeSlots
<1>3. CASE Matching(table, f) = {} /\ FreeSlots(table) = {}
  <2>1. FindAssembly(table, f) = OldestSlot(table)
    BY <1>3 DEF FindAssembly, FirstFreeElseOldest
  <2>2. \A s \in Slots : table[s].used /\ table[s].updated \in Nat
    BY <1>3 DEF FreeSlots
  <2> QED
    BY <1>3, <2>1, <2>2, OldestSlotIsOldest
<1> QED
  BY <1>1, <1>2, <1>3

\* A fragment is not empty and does not reach past the end of the message.
LEMMA ChunkBounds ==
  ASSUME NEW m \in Message, NEW o \in 0..m.total - 1
  PROVE /\ m.total \in Nat \ {0}
        /\ ChunkOf(m, o) \in 1..m.total - o
<1>1. m.total \in Nat \ {0}
  BY RelayAssumption DEF Message
<1> QED
  BY <1>1, RelayAssumption DEF ChunkOf, Smaller, TopicBytes

-----------------------------------------------------------------------------
\* Reassembly.

\* What Integrity says of the slots, in the form the lemmas above ask for.
LEMMA SlotTimes ==
  ASSUME SlotsGenuine, NEW n \in Node
  PROVE \A s \in Slots : assemblies[n][s].used => assemblies[n][s].updated \in Nat
<1> SUFFICES ASSUME NEW s \in Slots, assemblies[n][s].used
             PROVE assemblies[n][s].updated \in Nat
  OBVIOUS
<1>1. assemblies[n][s] # EmptySlot
  BY DEF EmptySlot
<1>2. PICK m \in sent : assemblies[n][s] \in Assembly(m.total)
  BY <1>1 DEF SlotsGenuine, Rebuilds
<1> QED
  BY <1>2 DEF Assembly

\* The slot find_assembly returns for a fragment of m rebuilds m.
LEMMA FoundRebuilds ==
  ASSUME Integrity, NEW m \in sent, NEW o \in 0..m.total - 1,
         NEW f, f = Fragment(m, o)
  PROVE Rebuilds(Found(f.dst, f), m)
<1> DEFINE n == f.dst
           s == FindAssembly(assemblies[n], f)
<1>1. /\ m \in Message /\ n = m.dst /\ n \in Node
      /\ f.src = m.src /\ f.id = m.id /\ f.type = m.type /\ f.total = m.total
  BY DEF Integrity, Scalars, Fragment, Message
<1>2. s \in Slots
  BY <1>1, SlotTimes, FindAssemblySlot DEF Integrity
<1>3. CASE SameMessage(assemblies[n][s], f)
  <2>1. PICK x \in sent : Rebuilds(assemblies[n][s], x)
    BY <1>1, <1>2, <1>3 DEF Integrity, SlotsGenuine, SameMessage, EmptySlot
  <2>2. x.src = m.src /\ x.id = m.id
    BY <1>1, <1>3, <2>1 DEF Rebuilds, SameMessage
  <2>3. x = m
    BY <2>2 DEF Integrity, UniqueIds
  <2> QED
    BY <1>3, <2>1, <2>3 DEF Found
<1>4. CASE ~SameMessage(assemblies[n][s], f)
  <2>1. clock[n] + 1 \in Nat /\ m.total \in Nat \ {0}
    BY <1>1, ChunkBounds DEF Integrity, Scalars
  <2>2. NewAssembly(f, clock[n] + 1) \in Assembly(m.total)
    BY <1>1, <2>1 DEF NewAssembly, Assembly, AnyByte, Message, Fragment
  <2>3. Rebuilds(NewAssembly(f, clock[n] + 1), m)
    BY <1>1, <2>1, <2>2 DEF NewAssembly, Rebuilds
  <2> QED
    BY <1>4, <2>3 DEF Found
<1> QED
  BY <1>3, <1>4

\* Appending the next fragment of m to a slot that rebuilds m gives a longer
\* prefix of m, and with the last fragment m itself.
LEMMA AppendedPrefix ==
  ASSUME NEW m \in Message, NEW o \in 0..m.total - 1, NEW f, f = Fragment(m, o),
         NEW slot, Rebuilds(slot, m), Accepts(slot, f), NEW now \in Nat
  PROVE LET next == Appended(slot, f, now)
        IN /\ next.received = next.total => Delivery(next) = ContentOf(m)
           /\ next.received # next.total => Rebuilds(next, m)
<1> DEFINE next == Appended(slot, f, now)
<1>1. /\ m.total \in Nat \ {0}
      /\ f.length \in 1..m.total - o
      /\ f.offset = o /\ f.total = m.total /\ f.type = m.type
      /\ f.data = [k \in o + 1..o + f.length |-> ByteAt(m, k)]
      /\ f.topic = IF o = 0 THEN TopicOf(m) ELSE None
  BY ChunkBounds DEF Fragment
<1>2. /\ slot.received = o /\ slot.total = m.total /\ slot.type = m.type
      /\ slot.payload \in [1..m.total -> AnyByte(m.total)]
      /\ \A k \in 1..o : slot.payload[k] = ByteAt(m, k)
      /\ slot.topic = IF o = 0 THEN None ELSE TopicOf(m)
  BY <1>1 DEF Rebuilds, Assembly, Accepts
<1>3. /\ next.used = slot.used /\ next.source = slot.source /\ next.id = slot.id
      /\ next.type = slot.type /\ next.total = slot.total
      /\ next.received = slot.received + f.length
      /\ next.updated = now
      /\ next.topic = TopicAfter(slot, f)
      /\ next.payload = [k \in 1..m.total |-> IF k \in DOMAIN f.data THEN f.data[k]
                                              ELSE slot.payload[k]]
  BY <1>2 DEF Appended, Rebuilds, Assembly
<1>4. next.topic = TopicOf(m)
  BY <1>1, <1>2, <1>3 DEF TopicAfter
<1>5. next.received \in 1..m.total
  BY <1>1, <1>2, <1>3
<1>6. \A k \in 1..next.received : next.payload[k] = ByteAt(m, k)
  <2> SUFFICES ASSUME NEW k \in 1..next.received
               PROVE next.payload[k] = ByteAt(m, k)
    OBVIOUS
  <2>1. k \in 1..m.total /\ (k \in 1..o \/ k \in o + 1..o + f.length)
    BY <1>1, <1>2, <1>3, <1>5
  <2>2. CASE k \in o + 1..o + f.length
    BY <1>1, <1>3, <2>1, <2>2
  <2>3. CASE k \notin o + 1..o + f.length
    BY <1>1, <1>2, <1>3, <2>1, <2>3
  <2> QED
    BY <2>2, <2>3
<1>7. CASE next.received = next.total
  <2>1. next.total = m.total
    BY <1>2, <1>3
  <2>2. next.payload = [k \in 1..m.total |-> ByteAt(m, k)]
    BY <1>3, <1>6, <1>7, <2>1
  <2> QED
    BY <1>2, <1>3, <1>4, <1>7, <2>1, <2>2 DEF Delivery, ContentOf
<1>8. CASE next.received # next.total
  <2>1. next.received \in 1..m.total - 1
    BY <1>1, <1>2, <1>3, <1>5, <1>8
  <2>2. m.total \in Nat /\ \A k \in 1..m.total : ByteAt(m, k) \in AnyByte(m.total)
    BY <1>1 DEF ByteAt, AnyByte, Message
  <2>3. \A k \in 1..m.total : next.payload[k] \in AnyByte(m.total)
    BY <1>1, <1>2, <1>3, <1>6, <2>2
  <2>4. next.payload \in [1..m.total -> AnyByte(m.total)]
    BY <1>3, <2>3
  <2>5. TopicOf(m) \in Kinds \cup {None}
    BY DEF TopicOf, Message
  <2>6. next \in Assembly(m.total)
    <3> DEFINE bytes == [k \in DOMAIN slot.payload |-> IF k \in DOMAIN f.data THEN f.data[k]
                                                     ELSE slot.payload[k]]
               withTopic == [slot EXCEPT !.topic = TopicAfter(slot, f)]
               withBytes == [withTopic EXCEPT !.payload = bytes]
               withCount == [withBytes EXCEPT !.received = slot.received + f.length]
    <3>1. slot \in Assembly(m.total)
      BY DEF Rebuilds
    <3>2. TopicAfter(slot, f) \in Kinds \cup {None} /\ bytes \in [1..m.total -> AnyByte(m.total)]
      BY <1>2, <1>3, <1>4, <2>4, <2>5
    <3>3. slot.received + f.length \in 0..m.total - 1
      BY <1>3, <2>1
    <3> HIDE DEF bytes
    <3>4. withTopic \in Assembly(m.total)
      BY <3>1, <3>2 DEF Assembly
    <3> HIDE DEF withTopic
    <3>5. withBytes \in Assembly(m.total)
      BY <3>2, <3>4 DEF Assembly
    <3> HIDE DEF withBytes
    <3>6. withCount \in Assembly(m.total)
      BY <3>3, <3>5 DEF Assembly
    <3> HIDE DEF withCount
    <3>7. [withCount EXCEPT !.updated = now] \in Assembly(m.total)
      BY <3>6 DEF Assembly
    <3> QED
      BY <3>7 DEF Appended, withCount, withBytes, withTopic, bytes
  <2>7. next.received >= ChunkOf(m, 0)
    <3>1. CASE o = 0
      <4>1. f.length = ChunkOf(m, 0)
        BY <3>1 DEF Fragment
      <4> QED
        BY <1>1, <1>2, <1>3, <3>1, <4>1
    <3>2. CASE o # 0
      <4>1. 0 \in 0..m.total - 1
        BY <1>1
      <4>2. ChunkOf(m, 0) \in Nat
        BY <1>1, <4>1, ChunkBounds
      <4>3. slot.received >= ChunkOf(m, 0)
        BY <1>2, <3>2 DEF Rebuilds
      <4> QED
        BY <1>1, <1>2, <1>3, <4>2, <4>3
    <3> QED
      BY <3>1, <3>2
  <2> QED
    BY <1>2, <1>3, <1>4, <1>6, <2>1, <2>6, <2>7 DEF Rebuilds
<1> QED
  BY <1>7, <1>8

-----------------------------------------------------------------------------
\* One lemma per handler: it keeps Integrity.

\* The receiver's part of Integrity survives when more messages were sent.
LEMMA MoreSent ==
  ASSUME Integrity, sent \subseteq sent', UNCHANGED <<assemblies, queue, handed>>
  PROVE SlotsGenuine' /\ QueuesGenuine' /\ HandedGenuine' /\ OneSlotPerMessage'
<1>1. \A n \in Node : ContentsFor(n) \subseteq ContentsFor(n)'
  BY DEF ContentsFor
<1>2. SlotsGenuine'
  BY DEF Integrity, SlotsGenuine
<1>3. QueuesGenuine'
  <2>1. \A n \in Node : queue[n] \in Seq(ContentsFor(n)')
    BY <1>1 DEF Integrity, QueuesGenuine
  <2> QED
    BY <2>1 DEF Integrity, QueuesGenuine
<1>4. HandedGenuine'
  BY <1>1 DEF Integrity, HandedGenuine
<1>5. OneSlotPerMessage'
  BY DEF Integrity, OneSlotPerMessage
<1> QED
  BY <1>2, <1>3, <1>4, <1>5

\* send_message puts fragments of the new message, and of no other, on the air.
LEMMA SendKeeps ==
  ASSUME Integrity, NEW m \in Message, SendMessage(m)
  PROVE Integrity'
<1>1. sent' = sent \cup {m} /\ FreshId(m.src, m.id)
      /\ UNCHANGED <<duplicates, assemblies, clock, queue, handed>>
  BY DEF SendMessage, receiverVars
<1>2. Scalars'
  BY <1>1 DEF Integrity, Scalars
<1>3. UniqueIds'
  BY <1>1 DEF Integrity, UniqueIds, FreshId
<1>4. FramesGenuine'
  <2>1. PICK failing \in Offsets(m) \cup {m.total} :
          network' = network \cup {Fragment(m, o) : o \in {p \in Offsets(m) : p < failing}}
    BY DEF SendMessage
  <2>2. m.total \in Nat \ {0}
    BY RelayAssumption DEF Message
  <2>3. \A o \in Offsets(m) : o = 0 \/ o \in 1..m.total - 1
    BY DEF Offsets
  <2>4. Offsets(m) \subseteq 0..m.total - 1
    BY <2>2, <2>3
  <2> QED
    BY <1>1, <2>1, <2>4 DEF Integrity, FramesGenuine
<1> QED
  BY <1>1, <1>2, <1>3, <1>4, MoreSent DEF Integrity

\* A slot given up, or brought to rebuild f's message, keeps the slots genuine
\* and the message in one slot.
LEMMA SlotChangeKeeps ==
  ASSUME Integrity, NEW m \in sent, NEW o \in 0..m.total - 1, NEW f, f = Fragment(m, o),
         NEW x, x = EmptySlot \/ Rebuilds(x, m), UNCHANGED sent,
         assemblies' = [assemblies EXCEPT ![f.dst][FindAssembly(assemblies[f.dst], f)] = x]
  PROVE SlotsGenuine' /\ OneSlotPerMessage'
<1> DEFINE n == f.dst
           table == assemblies[n]
           place == FindAssembly(table, f)
<1>1. n = m.dst /\ n \in Node /\ f.src = m.src /\ f.id = m.id
  BY DEF Integrity, Scalars, Fragment, Message
<1>2. /\ place \in Slots
      /\ Matching(table, f) # {} => SameMessage(table[place], f)
  BY <1>1, SlotTimes, FindAssemblySlot DEF Integrity
<1>3. /\ DOMAIN assemblies = Node
      /\ \A i \in Node : DOMAIN assemblies[i] = Slots
  BY DEF Integrity, SlotsGenuine
<1>4. /\ DOMAIN assemblies' = Node
      /\ \A i \in Node : DOMAIN assemblies'[i] = Slots
      /\ \A i \in Node, s \in Slots :
           assemblies'[i][s] = IF i = n /\ s = place THEN x ELSE assemblies[i][s]
  BY <1>1, <1>2, <1>3
<1>5. SlotsGenuine'
  <2> SUFFICES ASSUME NEW i \in Node, NEW s \in Slots
               PROVE \/ assemblies'[i][s] = EmptySlot
                     \/ \E y \in sent : y.dst = i /\ Rebuilds(assemblies'[i][s], y)
    BY <1>4 DEF SlotsGenuine
  <2> QED
    BY <1>1, <1>4 DEF Integrity, SlotsGenuine
<1>6. OneSlotPerMessage'
  <2> SUFFICES ASSUME NEW i \in Node, NEW s \in Slots, NEW t \in Slots,
                      assemblies'[i][s].used, assemblies'[i][t].used,
                      assemblies'[i][s].id = assemblies'[i][t].id,
                      assemblies'[i][s].source = assemblies'[i][t].source
               PROVE s = t
    BY DEF OneSlotPerMessage
  <2>1. x.used => x.id = f.id /\ x.source = f.src
    BY <1>1 DEF EmptySlot, Rebuilds
  <2>2. ASSUME NEW u \in Slots, u # place, table[u].used, table[u].id = f.id,
               table[u].source = f.src
        PROVE FALSE
    <3>1. u \in Matching(table, f)
      BY <2>2 DEF Matching, SameMessage
    <3>2. /\ table[place].used /\ table[place].id = table[u].id
          /\ table[place].source = table[u].source
      BY <1>2, <2>2, <3>1 DEF SameMessage
    <3> QED
      BY <1>1, <1>2, <2>2, <3>2 DEF Integrity, OneSlotPerMessage
  <2>3. CASE i # n \/ (s # place /\ t # place)
    BY <1>4, <2>3 DEF Integrity, OneSlotPerMessage
  <2>4. CASE i = n /\ s = place
    BY <1>1, <1>2, <1>4, <2>1, <2>2, <2>4
  <2>5. CASE i = n /\ t = place
    BY <1>1, <1>2, <1>4, <2>1, <2>2, <2>5
  <2> QED
    BY <2>3, <2>4, <2>5
<1> QED
  BY <1>5, <1>6

\* mqtt_l2_relay_receive keeps it: a slot gains the next bytes of its message,
\* and only a whole message enters the queue.
LEMMA ReceiveKeeps ==
  ASSUME Integrity, NEW f \in network, Receive(f)
  PROVE Integrity'
<1> DEFINE n == f.dst
           now == clock[n] + 1
           next == Appended(Found(n, f), f, now)
<1>0. PICK m \in sent : \E o \in 0..m.total - 1 : f = Fragment(m, o)
  BY DEF Integrity, FramesGenuine
<1>1. PICK o \in 0..m.total - 1 : f = Fragment(m, o)
  BY <1>0
<1>2. m \in Message /\ n = m.dst /\ n \in Node /\ now \in Nat
  BY <1>1 DEF Integrity, Scalars, Fragment, Message
<1>3. UNCHANGED <<sent, handed>>
  BY DEF Receive
<1>4. Rebuilds(Found(n, f), m)
  BY <1>1, FoundRebuilds
<1>5. Accepts(Found(n, f), f)
      => /\ next.received = next.total => Delivery(next) = ContentOf(m)
         /\ next.received # next.total => Rebuilds(next, m)
  BY <1>1, <1>2, <1>4, AppendedPrefix
<1>6. PICK slotMemory \in AllocOutcomes, deliveryMemory \in AllocOutcomes :
        Reassemble(n, f, slotMemory, deliveryMemory)
  BY DEF Receive
<1>7. /\ \E x : /\ x = EmptySlot \/ Rebuilds(x, m)
                /\ assemblies' = [assemblies EXCEPT ![n][FindAssembly(assemblies[n], f)] = x]
      /\ \/ UNCHANGED queue
         \/ /\ QueueHasRoom(n)
            /\ queue' = [queue EXCEPT ![n] = Append(@, ContentOf(m))]
      /\ clock' = clock \/ clock' = [clock EXCEPT ![n] = now]
  BY <1>4, <1>5, <1>6 DEF Reassemble
<1>8. SlotsGenuine' /\ OneSlotPerMessage'
  <2>1. PICK x : /\ x = EmptySlot \/ Rebuilds(x, m)
                 /\ assemblies' = [assemblies EXCEPT ![n][FindAssembly(assemblies[n], f)] = x]
    BY <1>7
  <2>2. UNCHANGED sent
    BY <1>3
  <2> HIDE DEF n
  <2> QED
    BY <1>1, <2>1, <2>2, SlotChangeKeeps DEF n
<1>9. Scalars'
  <2>1. duplicates' \in 0..MaxDuplicates
    BY RelayAssumption DEF Receive, TakeFrame, Integrity, Scalars
  <2> QED
    BY <1>2, <1>3, <1>7, <2>1 DEF Integrity, Scalars
<1>10. UniqueIds' /\ HandedGenuine'
  BY <1>3 DEF Integrity, UniqueIds, HandedGenuine, ContentsFor
<1>11. FramesGenuine'
  <2>1. network' \subseteq network
    BY DEF Receive, TakeFrame
  <2> QED
    BY <1>3, <2>1 DEF Integrity, FramesGenuine
<1>12. QueuesGenuine'
  <2>1. \A i \in Node : ContentsFor(i)' = ContentsFor(i)
    BY <1>3 DEF ContentsFor
  <2>2. ContentOf(m) \in ContentsFor(n)
    BY <1>2 DEF ContentsFor
  <2>3. CASE UNCHANGED queue
    BY <2>1, <2>3 DEF Integrity, QueuesGenuine
  <2>4. CASE QueueHasRoom(n) /\ queue' = [queue EXCEPT ![n] = Append(@, ContentOf(m))]
    <3>1. queue[n] \in Seq(ContentsFor(n)) /\ Len(queue[n]) < QueueDepth
      BY <1>2, <2>4 DEF Integrity, QueuesGenuine, QueueHasRoom
    <3>2. /\ Append(queue[n], ContentOf(m)) \in Seq(ContentsFor(n))
          /\ Len(Append(queue[n], ContentOf(m))) <= QueueDepth
      BY <2>2, <3>1, RelayAssumption
    <3> QED
      BY <1>2, <2>1, <2>4, <3>2 DEF Integrity, QueuesGenuine
  <2> QED
    BY <1>7, <2>3, <2>4
<1> QED
  BY <1>8, <1>9, <1>10, <1>11, <1>12 DEF Integrity

\* delivery_task keeps it: what it hands over was in the queue.
LEMMA DeliverKeeps ==
  ASSUME Integrity, NEW n \in Node, Deliver(n)
  PROVE Integrity'
<1>1. UNCHANGED <<sent, network, duplicates, assemblies, clock>>
  BY DEF Deliver, radioVars
<1>2. Scalars' /\ UniqueIds' /\ FramesGenuine' /\ SlotsGenuine' /\ OneSlotPerMessage'
  BY <1>1 DEF Integrity, Scalars, UniqueIds, FramesGenuine, SlotsGenuine, OneSlotPerMessage
<1>3. \A i \in Node : ContentsFor(i)' = ContentsFor(i)
  BY <1>1 DEF ContentsFor
<1>4. /\ queue[n] \in Seq(ContentsFor(n)) /\ Len(queue[n]) <= QueueDepth
      /\ queue[n] # <<>>
  BY DEF Integrity, QueuesGenuine, Deliver
<1>5. /\ Head(queue[n]) \in ContentsFor(n)
      /\ Tail(queue[n]) \in Seq(ContentsFor(n))
      /\ Len(Tail(queue[n])) <= QueueDepth
  BY <1>4, RelayAssumption
<1>6. QueuesGenuine'
  BY <1>3, <1>5 DEF Integrity, QueuesGenuine, Deliver
<1>7. HandedGenuine'
  BY <1>3, <1>5 DEF Integrity, HandedGenuine, Deliver
<1> QED
  BY <1>2, <1>6, <1>7 DEF Integrity

\* Nothing is sent, held or delivered at the start.
LEMMA IntegrityInit == Init => Integrity
<1> SUFFICES ASSUME Init PROVE Integrity
  OBVIOUS
<1>1. Scalars /\ UniqueIds /\ FramesGenuine
  BY RelayAssumption DEF Init, Scalars, UniqueIds, FramesGenuine
<1>2. SlotsGenuine /\ HandedGenuine
  BY DEF Init, SlotsGenuine, HandedGenuine
<1>3. QueuesGenuine
  BY RelayAssumption DEF Init, QueuesGenuine
<1>4. OneSlotPerMessage
  BY DEF Init, OneSlotPerMessage, EmptySlot
<1> QED
  BY <1>1, <1>2, <1>3, <1>4 DEF Integrity

\* Every step keeps Integrity.
LEMMA IntegrityNext == Integrity /\ [Next]_vars => Integrity'
<1> SUFFICES ASSUME Integrity, [Next]_vars PROVE Integrity'
  OBVIOUS
<1>1. ASSUME NEW l \in Leaves, Publish(l) PROVE Integrity'
  <2>1. PICK m \in Message : SendMessage(m)
    BY <1>1 DEF Publish, Message, Node, Types
  <2> QED
    BY <2>1, SendKeeps
<1>2. ASSUME NEW g \in Gateways, ForwardCommand(g) PROVE Integrity'
  <2>1. PICK m \in Message : SendMessage(m)
    BY <1>2 DEF ForwardCommand, Message, Node, Types
  <2> QED
    BY <2>1, SendKeeps
<1>3. ASSUME NEW f \in network, Receive(f) PROVE Integrity'
  BY <1>3, ReceiveKeeps
<1>4. ASSUME NEW n \in Node, Deliver(n) PROVE Integrity'
  BY <1>4, DeliverKeeps
<1>5. CASE UNCHANGED vars
  BY <1>5 DEF vars, radioVars, receiverVars, Integrity, Scalars, UniqueIds, FramesGenuine,
              SlotsGenuine, QueuesGenuine, HandedGenuine, ContentsFor, OneSlotPerMessage
<1> QED
  BY <1>1, <1>2, <1>3, <1>4, <1>5 DEF Next

-----------------------------------------------------------------------------
\* The theorems.

\* Integrity holds in every reachable state.
THEOREM IntegrityHolds == Spec => []Integrity
<1> QED
  BY IntegrityInit, IntegrityNext, PTL DEF Spec

\* The relay's variables keep their types: no queue outgrows delivery_queue and
\* no slot counts more bytes than its payload buffer has.
THEOREM TypeCorrect == Spec => []TypeOK
<1>1. Integrity => TypeOK
  <2> SUFFICES ASSUME Integrity PROVE TypeOK
    OBVIOUS
  <2>1. \A m \in sent : m.total \in Lengths
    BY DEF Integrity, Scalars, Message
  <2>2. \A n \in Node, s \in Slots :
          \/ assemblies[n][s] = EmptySlot
          \/ \E t \in Lengths : assemblies[n][s] \in Assembly(t)
    BY <2>1 DEF Integrity, SlotsGenuine, Rebuilds
  <2> QED
    BY <2>2 DEF Integrity, Scalars, SlotsGenuine, QueuesGenuine, TypeOK
<1> QED
  BY <1>1, IntegrityHolds, PTL

\* Whatever loss, duplication and reordering the mesh does, and however many
\* slots were given up, what a station's callback gets is byte for byte one
\* message that was addressed to it.
THEOREM DeliveredWholeHolds == Spec => []DeliveredWhole
<1>1. Integrity => DeliveredWhole
  <2> SUFFICES ASSUME Integrity, NEW n \in Node
               PROVE /\ \A d \in handed[n] : <<n, d>> \in SentContents
                     /\ \A i \in 1..Len(queue[n]) : <<n, queue[n][i]>> \in SentContents
    BY DEF DeliveredWhole
  <2>1. \A d \in ContentsFor(n) : <<n, d>> \in SentContents
    BY DEF ContentsFor, SentContents
  <2>2. handed[n] \subseteq ContentsFor(n) /\ queue[n] \in Seq(ContentsFor(n))
    BY DEF Integrity, HandedGenuine, QueuesGenuine
  <2>3. \A i \in 1..Len(queue[n]) : queue[n][i] \in ContentsFor(n)
    BY <2>2
  <2> QED
    BY <2>1, <2>2, <2>3
<1> QED
  BY <1>1, IntegrityHolds, PTL

\* find_assembly never gives one message two slots.
THEOREM OneSlotPerMessageHolds == Spec => []OneSlotPerMessage
<1>1. Integrity => OneSlotPerMessage
  BY DEF Integrity
<1> QED
  BY <1>1, IntegrityHolds, PTL

\* A message loses its slot to another only when no slot is free and it is the
\* one that waited longest.
THEOREM OnlyOldestGivesWayHolds == Spec => OnlyOldestGivesWay
<1> DEFINE Fair == \A n \in Node, s \in Slots : GivesWay(n, s) =>
                     \A t \in Slots :
                       /\ assemblies[n][t].used
                       /\ assemblies[n][s].updated <= assemblies[n][t].updated
<1>1. Integrity /\ [Next]_vars => [Fair]_vars
  <2> SUFFICES ASSUME Integrity, [Next]_vars, NEW n \in Node, NEW s \in Slots, GivesWay(n, s)
               PROVE \A t \in Slots :
                       /\ assemblies[n][t].used
                       /\ assemblies[n][s].updated <= assemblies[n][t].updated
    OBVIOUS
  <2>1. assemblies' # assemblies
    BY DEF GivesWay
  <2>2. PICK f \in network : Receive(f)
    <3>1. ASSUME NEW m, SendMessage(m) PROVE assemblies' = assemblies
      BY <3>1 DEF SendMessage, receiverVars
    <3>2. ASSUME NEW l \in Leaves, Publish(l) PROVE assemblies' = assemblies
      BY <3>1, <3>2 DEF Publish
    <3>3. ASSUME NEW g \in Gateways, ForwardCommand(g) PROVE assemblies' = assemblies
      BY <3>1, <3>3 DEF ForwardCommand
    <3>4. ASSUME NEW i \in Node, Deliver(i) PROVE assemblies' = assemblies
      BY <3>4 DEF Deliver
    <3>5. Next
      BY <2>1 DEF vars, receiverVars
    <3> QED
      BY <2>1, <3>2, <3>3, <3>4, <3>5, Zenon DEF Next
  <2>3. PICK m \in sent : \E o \in 0..m.total - 1 : f = Fragment(m, o)
    BY DEF Integrity, FramesGenuine
  <2>4. PICK o \in 0..m.total - 1 : f = Fragment(m, o)
    BY <2>3
  <2>5. f.dst \in Node /\ f.src = m.src /\ f.id = m.id
    BY <2>4 DEF Integrity, Scalars, Fragment, Message
  <2> DEFINE table == assemblies[f.dst]
             place == FindAssembly(table, f)
  <2>6. /\ place \in Slots
        /\ table[place].used => \/ SameMessage(table[place], f)
                                \/ \A t \in Slots :
                                     /\ table[t].used
                                     /\ table[place].updated <= table[t].updated
    BY <2>5, SlotTimes, FindAssemblySlot DEF Integrity
  <2>7. Rebuilds(Found(f.dst, f), m)
    BY <2>4, FoundRebuilds
  <2>8. PICK x : /\ x.used => x.id = f.id /\ x.source = f.src
                 /\ assemblies' = [assemblies EXCEPT ![f.dst][place] = x]
    <3>1. Appended(Found(f.dst, f), f, clock[f.dst] + 1).id = m.id
          /\ Appended(Found(f.dst, f), f, clock[f.dst] + 1).source = m.src
      BY <2>7 DEF Rebuilds, Assembly, Appended
    <3> QED
      BY <2>2, <2>5, <2>7, <3>1 DEF Receive, Reassemble, EmptySlot, Rebuilds
  <2>9. n = f.dst /\ s = place
    BY <2>5, <2>6, <2>8 DEF GivesWay, Integrity, SlotsGenuine
  <2>10. ~SameMessage(table[place], f)
    BY <2>5, <2>6, <2>8, <2>9 DEF GivesWay, SameMessage, Integrity, SlotsGenuine
  <2> QED
    BY <2>6, <2>9, <2>10 DEF GivesWay
<1> QED
  BY <1>1, IntegrityHolds, PTL DEF Spec, OnlyOldestGivesWay

\* A frame that leaves the air while the clock of its station moves was received
\* there.
LEMMA FrameTaken ==
  ASSUME [Next]_vars, NEW f \in network \ network', clock'[f.dst] # clock[f.dst]
  PROVE  Receive(f)
<1>1. ASSUME NEW m, SendMessage(m) PROVE network \subseteq network'
  BY <1>1 DEF SendMessage
<1>2. ASSUME NEW l \in Leaves, Publish(l) PROVE FALSE
  BY <1>1, <1>2 DEF Publish
<1>3. ASSUME NEW g \in Gateways, ForwardCommand(g) PROVE FALSE
  BY <1>1, <1>3 DEF ForwardCommand
<1>4. ASSUME NEW n \in Node, Deliver(n) PROVE FALSE
  BY <1>4 DEF Deliver, radioVars
<1>5. ASSUME NEW g \in network, Receive(g) PROVE g = f
  BY <1>5 DEF Receive, TakeFrame
<1>6. Next
  BY DEF vars, radioVars
<1> QED
  BY <1>2, <1>3, <1>4, <1>5, <1>6 DEF Next

\* With memory for it, the first fragment of a longer message is in a slot after
\* mqtt_l2_relay_receive: at its place, or because it had been there before.
LEMMA FirstFragmentStays ==
  ASSUME Integrity, NEW f \in network, Receive(f), clock'[f.dst] # clock[f.dst],
         f.offset = 0, f.length < f.total
  PROVE  \E s \in Slots : /\ SameMessage(assemblies'[f.dst][s], f)
                          /\ \A k \in DOMAIN f.data :
                               assemblies'[f.dst][s].payload[k] = f.data[k]
<1> DEFINE n == f.dst
           s == FindAssembly(assemblies[n], f)
           slot == Found(n, f)
           next == Appended(slot, f, clock[n] + 1)
<1>1. PICK m \in sent : f = Fragment(m, 0)
  <2>1. PICK m \in sent : \E o \in 0..m.total - 1 : f = Fragment(m, o)
    BY DEF Integrity, FramesGenuine
  <2>2. PICK o \in 0..m.total - 1 : f = Fragment(m, o)
    BY <2>1
  <2>3. f.offset = o
    BY <2>2 DEF Fragment
  <2> QED
    BY <2>2, <2>3
<1>m. m \in Message
  BY <1>1 DEF Integrity, Scalars
<1>2. /\ m \in Message /\ n \in Node
      /\ f.src = m.src /\ f.id = m.id /\ f.type = m.type /\ f.total = m.total
      /\ f.length = ChunkOf(m, 0) /\ f.topic = TopicOf(m)
      /\ f.data = [k \in 1..f.length |-> ByteAt(m, k)]
  <2>1. ChunkOf(m, 0) \in Int
    <3>1. m.total \in Nat \ {0}
      BY <1>m, RelayAssumption DEF Message
    <3>2. 0 \in 0..m.total - 1
      BY <3>1
    <3> QED
      BY <1>m, <3>2, ChunkBounds
  <2>2. 0 + 1..0 + ChunkOf(m, 0) = 1..ChunkOf(m, 0)
    BY <2>1
  <2> QED
    BY <1>1, <1>m, <2>2 DEF Fragment, Message
<1>3. m.total \in Nat \ {0} /\ 0 \in 0..m.total - 1 /\ f.length \in 1..m.total
  <2>1. m.total \in Nat \ {0}
    BY <1>2, RelayAssumption DEF Message
  <2>2. 0 \in 0..m.total - 1
    BY <2>1
  <2>3. ChunkOf(m, 0) \in 1..m.total - 0
    BY <1>2, <2>2, ChunkBounds
  <2> QED
    BY <1>2, <2>1, <2>2, <2>3
<1>4. Rebuilds(slot, m)
  BY <1>1, <1>3, FoundRebuilds
<1>5. /\ slot.used /\ slot.id = f.id /\ slot.source = f.src
      /\ slot.received \in 0..m.total - 1 /\ slot.total = m.total
      /\ DOMAIN slot.payload = 1..m.total
      /\ slot.received # 0 => slot.received >= f.length
      /\ \A k \in 1..slot.received : slot.payload[k] = ByteAt(m, k)
  BY <1>2, <1>4 DEF Rebuilds, Assembly
<1>6. s \in Slots
  BY <1>2, SlotTimes, FindAssemblySlot DEF Integrity
<1>7. DOMAIN assemblies = Node /\ \A i \in Node : DOMAIN assemblies[i] = Slots
  BY DEF Integrity, SlotsGenuine
<1>8. \A x : assemblies' = [assemblies EXCEPT ![n][s] = x] => assemblies'[n][s] = x
  <2> HIDE DEF n, s
  <2> QED
    BY <1>2, <1>6, <1>7
<1>9. PICK slotMemory \in AllocOutcomes, deliveryMemory \in AllocOutcomes :
        Reassemble(n, f, slotMemory, deliveryMemory)
  BY DEF Receive
<1>10. \/ ~Accepts(slot, f) /\ assemblies' = [assemblies EXCEPT ![n][s] = slot]
       \/ /\ Accepts(slot, f) /\ next.received # next.total
          /\ assemblies' = [assemblies EXCEPT ![n][s] = next]
       \/ Accepts(slot, f) /\ next.received = next.total
  BY <1>9 DEF Reassemble
<1>11. CASE ~Accepts(slot, f) /\ assemblies' = [assemblies EXCEPT ![n][s] = slot]
  <2>1. f.type = "command" => TopicAfter(slot, f) # None
    BY <1>2, RelayAssumption DEF TopicAfter, TopicOf, Message
  <2>2. slot.received # 0
    BY <1>11, <2>1 DEF Accepts
  <2>3. \A k \in 1..f.length : k \in 1..slot.received
    BY <1>3, <1>5, <2>2
  <2>4. \A k \in DOMAIN f.data : slot.payload[k] = f.data[k]
    BY <1>2, <1>5, <2>3
  <2>5. assemblies'[n][s] = slot
    BY <1>8, <1>11
  <2> QED
    BY <1>5, <1>6, <2>4, <2>5 DEF SameMessage
<1>12. next.used = slot.used /\ next.id = slot.id /\ next.source = slot.source
       /\ next.total = slot.total /\ next.received = slot.received + f.length
       /\ next.payload = [k \in DOMAIN slot.payload |-> IF k \in DOMAIN f.data THEN f.data[k]
                                                        ELSE slot.payload[k]]
  BY <1>4 DEF Appended, Rebuilds, Assembly
<1>13. CASE /\ Accepts(slot, f) /\ next.received # next.total
            /\ assemblies' = [assemblies EXCEPT ![n][s] = next]
  <2>1. assemblies'[n][s] = next
    BY <1>8, <1>13
  <2>2. \A k \in DOMAIN f.data : k \in 1..m.total
    BY <1>2, <1>3
  <2>3. \A k \in DOMAIN f.data : next.payload[k] = f.data[k]
    BY <1>5, <1>12, <2>2
  <2>4. SameMessage(next, f)
    BY <1>5, <1>12 DEF SameMessage
  <2> HIDE DEF next
  <2> QED
    BY <1>6, <2>1, <2>3, <2>4
<1>14. ~(Accepts(slot, f) /\ next.received = next.total)
  <2> SUFFICES ASSUME Accepts(slot, f), next.received = next.total PROVE FALSE
    OBVIOUS
  <2>1. slot.received = 0
    BY DEF Accepts
  <2> QED
    BY <1>2, <1>3, <1>5, <1>12, <2>1
<1> QED
  BY <1>10, <1>11, <1>13, <1>14

\* However many slots fragments that were lost have left behind, the first fragment
\* of a longer message that a station has memory for is kept.
THEOREM FirstFragmentKeptHolds == Spec => FirstFragmentKept
<1>1. Integrity /\ [Next]_vars =>
        [\A f \in network \ network' :
           f.offset = 0 /\ f.length < f.total /\ clock'[f.dst] # clock[f.dst]
           => \E s \in Slots : /\ SameMessage(assemblies'[f.dst][s], f)
                               /\ \A k \in DOMAIN f.data :
                                    assemblies'[f.dst][s].payload[k] = f.data[k]]_vars
  BY FrameTaken, FirstFragmentStays
<1> QED
  BY <1>1, IntegrityHolds, PTL DEF Spec, FirstFragmentKept

\* Every behaviour of the relay is one of the service it offers: what is handed
\* to a station was sent to it, whole.
THEOREM ServiceImplemented == Spec => ImplementsService
<1>1. Init => Service!Init
  BY DEF Init, Service!Init, SentContents
<1>2. Integrity /\ [Next]_vars => [Service!Next]_(Service!vars)
  <2> SUFFICES ASSUME Integrity, [Next]_vars PROVE [Service!Next]_(Service!vars)
    OBVIOUS
  <2>1. ASSUME NEW m, SendMessage(m) PROVE Service!Send
    <3>1. sent' = sent \cup {m} /\ UNCHANGED handed
      BY <2>1 DEF SendMessage
    <3>2. SentContents' = SentContents \cup {<<m.dst, ContentOf(m)>>}
      BY <3>1 DEF SentContents
    <3> QED
      BY <3>1, <3>2 DEF Service!Send
  <2>2. ASSUME NEW l \in Leaves, Publish(l) PROVE Service!Next
    BY <2>1, <2>2 DEF Publish, Service!Next
  <2>3. ASSUME NEW g \in Gateways, ForwardCommand(g) PROVE Service!Next
    BY <2>1, <2>3 DEF ForwardCommand, Service!Next
  <2>4. ASSUME NEW f \in network, Receive(f) PROVE UNCHANGED Service!vars
    BY <2>4 DEF Receive, Service!vars, SentContents
  <2>5. ASSUME NEW n \in Node, Deliver(n) PROVE [Service!Next]_(Service!vars)
    <3>1. SentContents' = SentContents
      BY <2>5 DEF Deliver, SentContents
    <3>2. CASE handed' = handed
      BY <3>1, <3>2 DEF Service!vars
    <3>3. CASE handed' = [handed EXCEPT ![n] = @ \cup {Head(queue[n])}]
      <4>1. queue[n] \in Seq(ContentsFor(n)) /\ queue[n] # <<>>
        BY <2>5 DEF Integrity, QueuesGenuine, Deliver
      <4>2. Head(queue[n]) \in ContentsFor(n)
        BY <4>1
      <4>3. <<n, Head(queue[n])>> \in SentContents
        BY <4>2 DEF ContentsFor, SentContents
      <4> QED
        BY <3>1, <3>3, <4>3 DEF Service!Next, Service!Hand
    <3> QED
      BY <2>5, <3>2, <3>3 DEF Deliver
  <2>6. CASE UNCHANGED vars
    BY <2>6 DEF vars, Service!vars, SentContents
  <2> QED
    BY <2>2, <2>3, <2>4, <2>5, <2>6 DEF Next
<1> QED
  BY <1>1, <1>2, IntegrityHolds, PTL DEF Spec, ImplementsService, Service!Spec
=============================================================================
