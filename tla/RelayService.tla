---------------------------- MODULE RelayService ----------------------------
(***************************************************************************)
(* What the layer-2 MQTT relay promises to its two users, the leaf's       *)
(* publisher and the gateway's command forwarder: whatever is handed to a  *)
(* node's callback was sent to that node, whole.  The mesh is broadcast,   *)
(* QoS 0 and unacknowledged, so a message may be handed over never, once   *)
(* or more than once; it may not be handed over damaged, mixed with        *)
(* another one, or to a node it was not addressed to.                      *)
(***************************************************************************)
CONSTANT Node     \* every station of the mesh

VARIABLES sent,   \* the <<destination, content>> pairs given to the relay
          handed  \* handed[n]: the contents node n's callback was given

vars == <<sent, handed>>

Init == /\ sent = {}
        /\ handed = [n \in Node |-> {}]

Send == \E message \in sent' : /\ sent' = sent \cup {message}
                               /\ UNCHANGED handed

Hand == \E message \in sent :
          /\ handed' = [handed EXCEPT ![message[1]] = @ \cup {message[2]}]
          /\ UNCHANGED sent

Next == Send \/ Hand

Spec == Init /\ [][Next]_vars
=============================================================================
