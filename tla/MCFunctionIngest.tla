-------------------------- MODULE MCFunctionIngest --------------------------
(* FunctionIngest on a gateway and a leaf; the .cfg files name the payloads. *)
EXTENDS FunctionIngest, TLC

CONSTANTS gw, leaf, field, road

Reading(client, place) ==
  [client |-> client, place |-> place, ota |-> Nothing, downlink |-> Nothing]
OtaReport(request, status) ==
  [client |-> gw, place |-> Nothing, ota |-> <<request, status>>, downlink |-> Nothing]
Applied(e, request) == [e EXCEPT !.downlink = <<request, "applied">>]

LeafOfGw == [d \in Devices |-> IF d = leaf THEN gw ELSE Nothing]
NoRules == {}
\* One area, the field, with both alerts for all devices.
FieldRule == {[inside |-> {field}, enter |-> TRUE, exit |-> TRUE, devices |-> {}]}

\* Readings of the gateway and its leaf, mixed and repeated, the leaf's own with
\* fixes inside and outside of the field, and a leaf that reports for the gateway.
MixedPublishes ==
  {<<gw, <<Reading(gw, Nothing), Reading(leaf, Nothing)>>>>,
   <<gw, <<Reading(leaf, field), Reading(leaf, Nothing)>>>>,
   <<leaf, <<Reading(leaf, road)>>>>,
   <<leaf, <<Reading(leaf, Nothing), Reading(gw, Nothing)>>>>}

OwnPublish == {<<gw, <<Reading(gw, Nothing)>>>>}

\* Everything a call may carry.
AllPublishes ==
  {<<gw, <<Reading(leaf, field), Reading(leaf, Nothing)>>>>,
   <<gw, <<Reading(gw, Nothing)>>>>}
    \cup {<<gw, <<Applied(Reading(leaf, road), q)>>>> : q \in DownRequests}
    \cup {<<gw, <<OtaReport(r, status)>>>> : r \in OtaRequests,
             status \in {"pending", "succeeded"}}

\* Calls are interchangeable, and so are the requests of OTA updates.
Symmetry == Permutations(Calls) \cup Permutations(OtaRequests)
=============================================================================
