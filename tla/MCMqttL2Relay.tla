---------------------------- MODULE MCMqttL2Relay ----------------------------
(* A small mesh for TLC; the constants' values are in MCMqttL2Relay.cfg. *)
EXTENDS MqttL2Relay, TLC

\* The stations of one role and the message ids are interchangeable.
Symmetry == Permutations(Gateways) \cup Permutations(Leaves)
              \cup Permutations(MsgIds)
=============================================================================
