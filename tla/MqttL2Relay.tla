----------------------------- MODULE MqttL2Relay -----------------------------
(***************************************************************************)
(* firmware/src/mqtt_l2_relay.cpp: MQTT messages carried over the BATMAN   *)
(* mesh between HaLow-only leaves and the gateways that own an MQTT        *)
(* session.  A message is cut into fragments that fit a radio frame, every *)
(* fragment is broadcast with the receiver as inner Ethernet destination,  *)
(* and the receiver rebuilds the message in one of kAssemblyCount slots    *)
(* and passes it through a short queue to the delivery task.               *)
(*                                                                         *)
(* A byte of the model stands for a run of bytes of the code: the first    *)
(* byte of a payload is the kind byte, the others are named after the      *)
(* message and their position, so that damage and mixing are visible.      *)
(***************************************************************************)
EXTENDS Integers, Sequences, FiniteSets

CONSTANTS
  Gateways,       \* stations started with is_gateway
  Leaves,         \* stations started without it
  MsgIds,         \* values of esp_random() used as message_id
  Kinds,          \* the leading bytes: system (0), telemetry/application (1)
  Lengths,        \* payload lengths in model bytes, kind byte included
  FragmentBytes,  \* kFrameLimit - sizeof(Header), in model bytes
  AssemblyCount,  \* kAssemblyCount
  QueueDepth,     \* length of delivery_queue
  AllocOutcomes,  \* results heap_caps_malloc may have: TRUE works, FALSE fails
  MaxSends,       \* bound: messages sent in a behaviour
  MaxDuplicates,  \* bound: frames the mesh delivers more than once
  None            \* no topic; a byte not written yet

ASSUME RelayAssumption ==
  /\ Gateways \cap Leaves = {}
  /\ None \notin Gateways \cup Leaves
  /\ None \notin Kinds
  /\ Lengths \subseteq Nat \ {0}
  /\ FragmentBytes \in Nat /\ FragmentBytes > 1
  /\ AssemblyCount \in Nat \ {0}
  /\ QueueDepth \in Nat
  /\ AllocOutcomes \subseteq BOOLEAN
  /\ MaxSends \in Nat
  /\ MaxDuplicates \in Nat

VARIABLES
  sent,        \* every message a send_message call was made for
  network,     \* frames on the air
  duplicates,  \* frames delivered more than once so far
  assemblies,  \* assemblies[n][s]: slot s of node n's reassembly table
  clock,       \* clock[n]: esp_timer_get_time, counted in table updates
  queue,       \* queue[n]: delivery_queue of node n
  handed       \* handed[n]: what node n gave publish_callback/command_callback

radioVars == <<network, duplicates>>
receiverVars == <<assemblies, clock, queue>>
vars == <<sent, network, duplicates, assemblies, clock, queue, handed>>

Node == Gateways \cup Leaves
Slots == 1..AssemblyCount
Types == {"publish", "command"}

Message == [src : Node, dst : Node, id : MsgIds, type : Types, kind : Kinds,
            total : Lengths]

\* Only a command carries its topic; the topic says the command's namespace.
\* QoS and the retain flag travel like the type and are left out.
TopicOf(m) == IF m.type = "command" THEN m.kind ELSE None

ByteAt(m, k) == IF k = 1 THEN m.kind ELSE <<m.src, m.id, k>>

\* What the receiving side rebuilds of a message, a Delivery of the code.
ContentOf(m) == [type |-> m.type, topic |-> TopicOf(m), total |-> m.total,
               payload |-> [k \in 1..m.total |-> ByteAt(m, k)]]

\* ------------------------------------------------------------- sending side

\* send_message: what is left, at most what fits beside header and topic.
Smaller(a, b) == IF a < b THEN a ELSE b
TopicBytes(m, offset) == IF offset = 0 /\ m.type = "command" THEN 1 ELSE 0
ChunkOf(m, offset) ==
  Smaller(FragmentBytes - TopicBytes(m, offset), m.total - offset)

\* The frame send_message builds at an offset; the topic is in the first only.
Fragment(m, offset) ==
  [dst |-> m.dst, src |-> m.src, id |-> m.id, type |-> m.type,
   total |-> m.total, offset |-> offset, length |-> ChunkOf(m, offset),
   topic |-> IF offset = 0 THEN TopicOf(m) ELSE None,
   data |-> [k \in offset + 1..offset + ChunkOf(m, offset) |-> ByteAt(m, k)]]

\* 32 random bits: two messages of one sender do not share an id.
FreshId(src, id) == \A m \in sent : m.src = src => m.id # id

\* Where the fragments of a message begin.
Offsets(m) ==
  {0} \cup {o \in 1..m.total - 1 : (o - ChunkOf(m, 0)) % FragmentBytes = 0}

\* send_message.  A frame stays on the air for as long as the mesh likes, so
\* frames sent one after the other are put there together; the loop ends early,
\* at a fragment that begins at `failing', when send_relay_frame fails.
SendMessage(m) ==
  /\ Cardinality(sent) < MaxSends
  /\ FreshId(m.src, m.id)
  /\ sent' = sent \cup {m}
  /\ \E failing \in Offsets(m) \cup {m.total} :
       network' = network \cup {Fragment(m, o) : o \in {p \in Offsets(m) : p < failing}}
  /\ UNCHANGED <<duplicates, receiverVars, handed>>

\* mqtt_l2_relay_publish on a leaf: the destination is read once, here, and is
\* whatever gateway halow_selected_mqtt_gateway returns at this moment.
Publish(l) ==
  \E g \in Gateways, id \in MsgIds, kind \in Kinds, total \in Lengths :
    SendMessage([src |-> l, dst |-> g, id |-> id, type |-> "publish",
               kind |-> kind, total |-> total])

\* mqtt_l2_relay_forward_command: the address comes from the proxy topic or
\* from the peer table, so any other station may be named.
ForwardCommand(g) ==
  \E dst \in Node \ {g}, id \in MsgIds, kind \in Kinds, total \in Lengths :
    SendMessage([src |-> g, dst |-> dst, id |-> id, type |-> "command",
               kind |-> kind, total |-> total])

\* ------------------------------------------------------------ receiving side

EmptySlot == [used |-> FALSE]

\* The payload buffer is not cleared: None is a byte not written yet.
NewAssembly(f, now) ==
  [used |-> TRUE, source |-> f.src, id |-> f.id, type |-> f.type,
   total |-> f.total, received |-> 0, topic |-> None,
   payload |-> [k \in 1..f.total |-> None], updated |-> now]

SameMessage(slot, f) == slot.used /\ slot.id = f.id /\ slot.source = f.src

LowestOf(S) == CHOOSE s \in S : \A t \in S : s <= t

\* As if the comparison of updated_us were the other way round.
NewestSlot(table) ==
  LowestOf({s \in Slots : \A t \in Slots : table[s].updated >= table[t].updated})

\* Of the slots touched longest ago the first one.
OldestSlot(table) ==
  LowestOf({s \in Slots : \A t \in Slots : table[s].updated <= table[t].updated})

Matching(table, f) == {s \in Slots : SameMessage(table[s], f)}
FreeSlots(table) == {s \in Slots : ~table[s].used}

\* Where a message that has no slot goes; it drops the oldest one's message.
FirstFreeElseOldest(table, f) ==
  IF FreeSlots(table) # {} THEN LowestOf(FreeSlots(table)) ELSE OldestSlot(table)

\* find_assembly: the message's own slot, else a free one, else the oldest.
FindAssembly(table, f) ==
  IF Matching(table, f) # {} THEN LowestOf(Matching(table, f))
  ELSE FirstFreeElseOldest(table, f)

\* As if a reused slot kept its byte count: *item = {} forgotten.
FoundUncleared(n, f) ==
  LET slot == assemblies[n][FindAssembly(assemblies[n], f)]
  IN IF SameMessage(slot, f) THEN slot
     ELSE IF slot.used /\ slot.received < f.total
          THEN [NewAssembly(f, clock[n] + 1) EXCEPT !.received = slot.received]
          ELSE NewAssembly(f, clock[n] + 1)

\* The slot as find_assembly returns it.
Found(n, f) ==
  LET slot == assemblies[n][FindAssembly(assemblies[n], f)]
  IN IF SameMessage(slot, f) THEN slot ELSE NewAssembly(f, clock[n] + 1)

TopicAfter(slot, f) == IF f.topic # None THEN f.topic ELSE slot.topic

\* As if fragments could be taken in any order.
AcceptsAnyOffset(slot, f) ==
  f.type = "command" => TopicAfter(slot, f) # None

\* Only the next fragment in order is taken, and a command needs its topic.
Accepts(slot, f) ==
  /\ slot.received = f.offset
  /\ f.type = "command" => TopicAfter(slot, f) # None

\* As if the bytes were copied to the start of the payload, not to the offset.
AppendedAtStart(slot, f, now) ==
  [slot EXCEPT !.topic = TopicAfter(slot, f),
               !.payload = [k \in DOMAIN slot.payload |->
                              IF k + f.offset \in DOMAIN f.data
                              THEN f.data[k + f.offset] ELSE slot.payload[k]],
               !.received = @ + f.length,
               !.updated = now]

Appended(slot, f, now) ==
  [slot EXCEPT !.topic = TopicAfter(slot, f),
               !.payload = [k \in DOMAIN slot.payload |->
                              IF k \in DOMAIN f.data THEN f.data[k]
                              ELSE slot.payload[k]],
               !.received = @ + f.length,
               !.updated = now]

Delivery(slot) == [type |-> slot.type, topic |-> slot.topic,
                   total |-> slot.total, payload |-> slot.payload]

\* The receiver's role decides the type it takes, its address the frames.
ForThisStation(n, f) ==
  /\ f.dst = n
  /\ (f.type = "publish") <=> (n \in Gateways)

QueueHasRoom(n) == Len(queue[n]) < QueueDepth

\* mqtt_l2_relay_receive after the address, type and header checks.  slotMemory
\* and deliveryMemory say whether heap_caps_malloc finds room for a new slot's
\* payload and for the Delivery.
Reassemble(n, f, slotMemory, deliveryMemory) ==
  LET s == FindAssembly(assemblies[n], f)
      known == SameMessage(assemblies[n][s], f)
      slot == Found(n, f)
      now == clock[n] + 1
      next == Appended(slot, f, now)
      whole == next.received = next.total
      Becomes(x) == assemblies' = [assemblies EXCEPT ![n][s] = x]
  IN \/ \* no memory for a new slot: it stays cleared, the frame is dropped
        /\ ~known /\ ~slotMemory
        /\ Becomes(EmptySlot)
        /\ UNCHANGED <<clock, queue>>
     \/ /\ known \/ slotMemory
        /\ clock' = [clock EXCEPT ![n] = now]
        /\ \/ \* a repeated or early fragment: a new slot stays, empty
              /\ ~Accepts(slot, f)
              /\ Becomes(slot)
              /\ UNCHANGED queue
           \/ \* the next fragment, and not the last
              /\ Accepts(slot, f)
              /\ ~whole
              /\ Becomes(next)
              /\ UNCHANGED queue
           \/ \* the last one: to the queue without waiting, the slot is cleared
              /\ Accepts(slot, f)
              /\ whole
              /\ Becomes(EmptySlot)
              /\ queue' = IF deliveryMemory /\ QueueHasRoom(n)
                          THEN [queue EXCEPT ![n] = Append(@, Delivery(next))]
                          ELSE queue

\* The frame leaves the air, or stays to be received once more.  A frame that
\* nobody takes is one the mesh lost.
TakeFrame(f) ==
  \/ /\ network' = network \ {f}
     /\ UNCHANGED duplicates
  \/ /\ duplicates < MaxDuplicates
     /\ duplicates' = duplicates + 1
     /\ UNCHANGED network

Receive(f) ==
  /\ ForThisStation(f.dst, f)
  /\ \E slotMemory, deliveryMemory \in AllocOutcomes :
       Reassemble(f.dst, f, slotMemory, deliveryMemory)
  /\ TakeFrame(f)
  /\ UNCHANGED <<sent, handed>>

\* delivery_task: a payload of the kind byte alone is rejected.
Rejected(d) == d.total < 2

Deliver(n) ==
  /\ queue[n] # <<>>
  /\ queue' = [queue EXCEPT ![n] = Tail(@)]
  /\ handed' = IF Rejected(Head(queue[n])) THEN handed
               ELSE [handed EXCEPT ![n] = @ \cup {Head(queue[n])}]
  /\ UNCHANGED <<sent, radioVars, assemblies, clock>>

Init ==
  /\ sent = {}
  /\ network = {}
  /\ duplicates = 0
  /\ assemblies = [n \in Node |-> [s \in Slots |-> EmptySlot]]
  /\ clock = [n \in Node |-> 0]
  /\ queue = [n \in Node |-> <<>>]
  /\ handed = [n \in Node |-> {}]

Next ==
  \/ \E l \in Leaves : Publish(l)
  \/ \E g \in Gateways : ForwardCommand(g)
  \/ \E f \in network : Receive(f)
  \/ \E n \in Node : Deliver(n)

Spec == Init /\ [][Next]_vars
-----------------------------------------------------------------------------
\* Properties.

AnyByte(t) == Kinds \cup {None} \cup (Node \X MsgIds \X (1..t))
Assembly(t) ==
  [used : {TRUE}, source : Node, id : MsgIds, type : Types, total : {t},
   received : 0..t - 1, topic : Kinds \cup {None},
   payload : [1..t -> AnyByte(t)], updated : Nat]

\* Every variable has its type; the delivery queue keeps its length and no
\* slot counts more bytes than the message has.
TypeOK ==
  /\ sent \subseteq Message
  /\ duplicates \in 0..MaxDuplicates
  /\ clock \in [Node -> Nat]
  /\ DOMAIN assemblies = Node
  /\ \A n \in Node :
       /\ DOMAIN assemblies[n] = Slots
       /\ \A s \in Slots : \/ assemblies[n][s] = EmptySlot
                          \/ \E t \in Lengths : assemblies[n][s] \in Assembly(t)
  /\ \A n \in Node : Len(queue[n]) <= QueueDepth

\* What the callers of the relay sent, as its users see it.
SentContents == {<<m.dst, ContentOf(m)>> : m \in sent}

\* Nothing damaged, mixed or misdirected waits for delivery or was delivered:
\* every delivery of find_assembly and mqtt_l2_relay_receive is, byte for
\* byte, one message some station addressed to this one.
DeliveredWhole ==
  \A n \in Node :
    /\ \A d \in handed[n] : <<n, d>> \in SentContents
    /\ \A i \in 1..Len(queue[n]) : <<n, queue[n][i]>> \in SentContents

\* A station never splits one message over two slots: find_assembly looks at
\* all of them before it takes a free one.
OneSlotPerMessage ==
  \A n \in Node, s, t \in Slots :
    /\ assemblies[n][s].used /\ assemblies[n][t].used
    /\ assemblies[n][s].id = assemblies[n][t].id
    /\ assemblies[n][s].source = assemblies[n][t].source
    => s = t

\* A message under reassembly gives its slot to another one only when no slot
\* is free and none has waited longer for a fragment.
GivesWay(n, s) ==
  /\ assemblies[n][s].used /\ assemblies'[n][s].used
  /\ \/ assemblies'[n][s].id # assemblies[n][s].id
     \/ assemblies'[n][s].source # assemblies[n][s].source
OnlyOldestGivesWay ==
  [][\A n \in Node, s \in Slots : GivesWay(n, s) =>
       \A t \in Slots : /\ assemblies[n][t].used
                        /\ assemblies[n][s].updated <= assemblies[n][t].updated]_vars

\* Slots left behind by lost fragments never time out, and still no station
\* runs out of them: unless there is no memory for it, the first fragment of a
\* longer message finds its place at once.
FirstFragmentKept ==
  [][\A f \in network \ network' :
       f.offset = 0 /\ f.length < f.total /\ clock'[f.dst] # clock[f.dst]
       => \E s \in Slots : /\ SameMessage(assemblies'[f.dst][s], f)
                           /\ \A k \in DOMAIN f.data :
                                assemblies'[f.dst][s].payload[k] = f.data[k]]_vars

\* The relay implements RelayService.
Service == INSTANCE RelayService WITH sent <- SentContents
ImplementsService == Service!Spec
=============================================================================
