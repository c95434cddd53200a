--------------------------- MODULE FunctionIngest ---------------------------
(***************************************************************************)
(* function/src/main.js: the Function that Appwrite calls for every MQTT   *)
(* publish of a device and for every deleted device.  A call checks that   *)
(* the publisher may report for every device of its batch, appends the     *)
(* readings to the time series, and then, one awaited request after the    *)
(* other, updates the device's location, its one row of latest telemetry,  *)
(* geofence alarms, OTA updates and downlinks.  Calls run concurrently and *)
(* share only the tables, which have unique indexes and no transactions;   *)
(* a call that is refused a request, or takes too long, ends where it is.  *)
(*                                                                         *)
(* One step of the model is one request of a call.                         *)
(***************************************************************************)
EXTENDS Naturals, Sequences, FiniteSets, FiniteSetsExt

CONSTANTS
  Devices,      \* ids of Appwrite devices
  GatewayOf,    \* gatewayDeviceId of each device, or Nothing
  Calls,        \* invocations of the Function
  MaxOpen,      \* bound: invocations that run at the same time
  Publishes,    \* well-formed publishes: <<publisher, batch of entries>>
  Rules,        \* the farm's geofence rules, see RuleType
  Places,       \* fixes a device may report
  OtaRequests,  \* ids of OTA requests
  DownRequests, \* ids of downlink requests
  Versions,     \* firmware versions
  Answers,      \* what latestReleaseVersion may return
  MaxInstant,   \* bound: last millisecond of the clock
  MaxFaults,    \* bound: requests that fail or time out
  MaxDeletions, \* bound: devices users delete
  Nothing       \* no place, no report, no row, an unknown version

Events == {"enter", "exit"}
OtaStatuses == {"pending", "succeeded", "failed", "busy"}
DownStatuses == {"cached", "transmitting", "applied", "failed", "expired"}
Entry == [client : Devices, place : Places \cup {Nothing},
          ota : (OtaRequests \X OtaStatuses) \cup {Nothing},
          downlink : (DownRequests \X DownStatuses) \cup {Nothing}]

\* The places inside a rule's area, its two switches and the devices it is for.
RuleType == [inside : SUBSET Places, enter : BOOLEAN, exit : BOOLEAN,
             devices : SUBSET Devices]

\* A row of latest telemetry: the reading it shows, by call and entry.
Row == [reading : Calls \X Nat, receivedAt : Nat, place : Places \cup {Nothing}]

\* A row of the geofence alarm table.
AlarmRow == [active : BOOLEAN, lastLocation : Places]

\* A row of the ota-updates table.
UpdateRow == [device : Devices, status : OtaStatuses, target : Versions \cup {Nothing}]

ASSUME IngestAssumption ==
  /\ Nothing \notin Devices \cup Places \cup Versions \cup OtaRequests \cup DownRequests
  /\ Nothing \notin Row \cup AlarmRow \cup UpdateRow
  /\ GatewayOf \in [Devices -> Devices \cup {Nothing}]
  /\ \A p \in Publishes : p[1] \in Devices /\ p[2] \in Seq(Entry) /\ Len(p[2]) \in 1..16
  /\ Rules \subseteq RuleType
  /\ Answers \subseteq Versions \cup {Nothing}
  /\ MaxOpen \in Nat /\ MaxInstant \in Nat /\ MaxFaults \in Nat /\ MaxDeletions \in Nat

VARIABLES
  devices,   \* the Devices service: what it knows of each device, or Nothing
  deleted,   \* devices.*.delete events on their way
  calls,     \* the invocations
  clock,     \* Date.now()
  points,    \* the Time Series Store: <<device, timestamp>> to reading
  latest,    \* the telemetry table, one row per device
  alarms,    \* the geofence alarm table, by <<rule, device, event>>
  updates,   \* the ota-updates table, by request
  downlinks, \* the downlinks table, by request
  faults     \* requests that failed so far

tables == <<latest, alarms, updates, downlinks>>
vars == <<devices, deleted, calls, clock, points, tables, faults>>

Idle == [at |-> "idle"]
Called(publisher, batch) ==
  [at |-> "device", publisher |-> publisher, own |-> Nothing, batch |-> batch,
   entry |-> 0, firmware |-> [k \in DOMAIN batch |-> Nothing], receivedAt |-> 0, found |-> {}]

Ended(c) == calls[c].at \in {"accepted", "refused", "error"}
Open == {c \in Calls : calls[c] # Idle /\ ~Ended(c)}
EntryOf(c) == calls[c].batch[calls[c].entry]
TargetOf(c) == EntryOf(c).client
Becomes(c, call) == calls' = [calls EXCEPT ![c] = call]
Goes(c, step) == Becomes(c, [calls[c] EXCEPT !.at = step])

\* The requests a call makes for its entry k, in their order.
Stages == <<"locate", "update", "fences", "ota", "reconcile", "downlink">>
Needed(call, k, stage) ==
  LET e == call.batch[k]
  IN CASE stage \in {"locate", "fences"} -> e.place # Nothing
       [] stage = "update" -> TRUE
       [] stage = "ota" -> e.ota # Nothing
       [] stage = "reconcile" -> call.firmware[k] # Nothing
       [] stage = "downlink" -> e.downlink # Nothing

\* The stages from the i-th on that entry k needs.
Left(call, k, i) == {j \in i..Len(Stages) : Needed(call, k, Stages[j])}

\* The call on its way to the next entry, or accepted after the last one.
WithEntry(call, k) ==
  IF k > Len(call.batch) THEN [call EXCEPT !.at = "accepted", !.found = {}]
  ELSE [call EXCEPT !.entry = k, !.at = Stages[Min(Left(call, k, 1))], !.found = {}]

\* The call once it is done with a stage of its current entry.
After(c, stage) ==
  LET n == CHOOSE i \in DOMAIN Stages : Stages[i] = stage
      left == Left(calls[c], calls[c].entry, n + 1)
  IN IF left # {} THEN [calls[c] EXCEPT !.at = Stages[Min(left)], !.found = {}]
     ELSE WithEntry(calls[c], calls[c].entry + 1)

\* ------------------------------------------------------- devices and owners

\* A device, or a gateway for its leaves, publishes; Appwrite calls the Function.
Call(c) ==
  /\ calls[c] = Idle
  /\ Cardinality(Open) < MaxOpen
  /\ \E p \in Publishes : devices[p[1]] # Nothing /\ Becomes(c, Called(p[1], p[2]))
  /\ UNCHANGED <<devices, deleted, clock, points, tables, faults>>

\* The Devices service learns that a device runs other firmware.
ReportFirmware(d, version) ==
  /\ devices[d] # Nothing
  /\ devices[d].firmware # version
  /\ devices' = [devices EXCEPT ![d].firmware = version]
  /\ UNCHANGED <<deleted, calls, clock, points, tables, faults>>

Delete(d) ==
  /\ devices[d] # Nothing
  /\ Cardinality({x \in Devices : devices[x] = Nothing}) < MaxDeletions
  /\ devices' = [devices EXCEPT ![d] = Nothing]
  /\ deleted' = deleted \cup {d}
  /\ UNCHANGED <<calls, clock, points, tables, faults>>

\* ---------------------------------------------------------- before any write

\* getDevice of the publisher; an unknown one is refused.
LookupPublisher(c) ==
  LET device == devices[calls[c].publisher]
  IN /\ calls[c].at = "device"
     /\ Becomes(c, IF device = Nothing THEN [calls[c] EXCEPT !.at = "refused"]
                   ELSE [calls[c] EXCEPT !.at = "lookup", !.own = device.firmware])
     /\ UNCHANGED <<devices, deleted, clock, points, tables, faults>>

\* As if the batch went on to be stored once its first entry was checked.
LookedUpFirst(call) == call.entry >= 1
LookedUp(call) == call.entry = Len(call.batch)

\* getDevice of the next entry's device, unless it is the publisher; a device
\* of another gateway or an unknown one refuses the whole batch.
Lookup(c) ==
  LET next == [calls[c] EXCEPT !.entry = @ + 1]
      client == next.batch[next.entry].client
      own == client = next.publisher
      known == [next EXCEPT !.firmware[next.entry] =
                              IF own THEN next.own ELSE devices[client].firmware]
  IN /\ calls[c].at = "lookup"
     /\ IF own \/ (devices[client] # Nothing /\ GatewayOf[client] = next.publisher)
        THEN Becomes(c, IF LookedUp(next) THEN [known EXCEPT !.at = "store"] ELSE known)
        ELSE Goes(c, "refused")
     /\ UNCHANGED <<devices, deleted, clock, points, tables, faults>>

\* As if every reading of a batch had the time of its arrival.
SameInstant(instant, k) == 16 * instant

\* telemetryLine: nanoseconds, of which an entry's position in its batch is the
\* smallest part.
Timestamp(instant, k) == 16 * instant + k - 1

\* receivedAt is the time of day, which moves on at its own pace; then
\* writeTimeseries, one request for the whole batch.  A point of the same
\* measurement, tags and timestamp is written over.
Store(c) ==
  LET batch == calls[c].batch
      key(k, now) == <<batch[k].client, Timestamp(now, k)>>
      last(x, now) == CHOOSE k \in DOMAIN batch :
        key(k, now) = x /\ \A l \in DOMAIN batch : key(l, now) = x => l <= k
  IN /\ calls[c].at = "store"
     /\ clock' \in {t \in clock..clock + 1 : t <= MaxInstant}
     /\ LET keys == {key(k, clock') : k \in DOMAIN batch}
        IN points' = [x \in DOMAIN points \cup keys |->
                        IF x \in keys THEN <<c, last(x, clock')>> ELSE points[x]]
     /\ Becomes(c, WithEntry([calls[c] EXCEPT !.receivedAt = clock'], 1))
     /\ UNCHANGED <<devices, deleted, tables, faults>>

\* ------------------------------------------------- location and latest reading

\* updateDeviceLocation; a device deleted since its lookup ends the call.
Locate(c) ==
  LET d == TargetOf(c)
  IN /\ calls[c].at = "locate"
     /\ IF devices[d] = Nothing THEN Goes(c, "error") /\ UNCHANGED devices
        ELSE /\ devices' = [devices EXCEPT ![d].place = EntryOf(c).place]
             /\ Becomes(c, After(c, "locate"))
     /\ UNCHANGED <<deleted, clock, points, tables, faults>>

\* As if a reading without a fix took the last fix out of the row.
RowWithoutOld(c, old) ==
  [reading |-> <<c, calls[c].entry>>, receivedAt |-> calls[c].receivedAt,
   place |-> EntryOf(c).place]

\* The row's new content: a reading without a fix leaves the location as it was.
RowOf(c, old) ==
  [reading |-> <<c, calls[c].entry>>, receivedAt |-> calls[c].receivedAt,
   place |-> IF EntryOf(c).place = Nothing /\ old # Nothing THEN old.place
             ELSE EntryOf(c).place]

PutRow(c) == latest' = [latest EXCEPT ![TargetOf(c)] = RowOf(c, @)]

\* upsertLatestTelemetry: update, and create if there is no row.
Update(c) ==
  /\ calls[c].at = "update"
  /\ IF latest[TargetOf(c)] = Nothing
     THEN Goes(c, "create") /\ UNCHANGED latest
     ELSE PutRow(c) /\ Becomes(c, After(c, "update"))
  /\ UNCHANGED <<devices, deleted, clock, points, alarms, updates, downlinks, faults>>

\* As if a row created by another call were an error.
GivesUp == "error"
OnConflict == "again"

Create(c) ==
  /\ calls[c].at = "create"
  /\ IF latest[TargetOf(c)] # Nothing
     THEN Goes(c, OnConflict) /\ UNCHANGED latest
     ELSE PutRow(c) /\ Becomes(c, After(c, "update"))
  /\ UNCHANGED <<devices, deleted, clock, points, alarms, updates, downlinks, faults>>

UpdateAgain(c) ==
  /\ calls[c].at = "again"
  /\ IF latest[TargetOf(c)] = Nothing
     THEN Goes(c, "error") /\ UNCHANGED latest
     ELSE PutRow(c) /\ Becomes(c, After(c, "update"))
  /\ UNCHANGED <<devices, deleted, clock, points, alarms, updates, downlinks, faults>>

\* ------------------------------------------------------------------- geofences

\* containsArea and the rule's switch for this event.
Matches(rule, event, place) ==
  IF event = "enter" THEN rule.enter /\ place \in rule.inside
  ELSE rule.exit /\ place \notin rule.inside

RulesFor(d) == {rule \in Rules : rule.devices = {} \/ d \in rule.devices}

\* As if an alarm were never cleared.
NeedsRaise(alarm, matches) == matches /\ (alarm = Nothing \/ ~alarm.active)

\* Whether evaluateGeofences writes: a missing alarm that matches is created, an
\* alarm in the other state is updated.
NeedsWrite(alarm, matches) ==
  IF alarm = Nothing THEN matches ELSE alarm.active # matches

\* evaluateGeofences lists areas, rules and the device's alarms once; what it
\* then writes follows from this list.
ListAlarms(c) ==
  LET d == TargetOf(c)
      place == EntryOf(c).place
      matches(x) == Matches(x[1], x[2], place)
      alarm(x) == alarms[<<x[1], d, x[2]>>]
      writes == {[key |-> <<x[1], d, x[2]>>, active |-> matches(x),
                  create |-> alarm(x) = Nothing] :
                   x \in {y \in RulesFor(d) \X Events : NeedsWrite(alarm(y), matches(y))}}
  IN /\ calls[c].at = "fences"
     /\ Becomes(c, IF writes = {} THEN After(c, "fences")
                   ELSE [calls[c] EXCEPT !.at = "alarm", !.found = writes])
     /\ UNCHANGED <<devices, deleted, clock, points, tables, faults>>

\* What is written: raised or cleared, and where.
AlarmOf(c, w) == [active |-> w.active, lastLocation |-> EntryOf(c).place]

\* One write of its loop; creating an alarm that exists by now ends the call.
WriteAlarm(c) ==
  /\ calls[c].at = "alarm"
  /\ \E w \in calls[c].found :
       IF w.create /\ alarms[w.key] # Nothing
       THEN Goes(c, "error") /\ UNCHANGED alarms
       ELSE /\ alarms' = [alarms EXCEPT ![w.key] = AlarmOf(c, w)]
            /\ Becomes(c, IF calls[c].found = {w} THEN After(c, "fences")
                          ELSE [calls[c] EXCEPT !.found = @ \ {w}])
  /\ UNCHANGED <<devices, deleted, clock, points, latest, updates, downlinks, faults>>

\* ------------------------------------------------------ OTA updates, downlinks

\* syncOtaUpdate looks for the request's row, and takes the target version of
\* the row or, if it has none, the latest release's.
ListUpdate(c) ==
  LET row == updates[EntryOf(c).ota[1]]
  IN /\ calls[c].at = "ota"
     /\ \E answer \in Answers :
          LET target == IF row # Nothing /\ row.target # Nothing THEN row.target ELSE answer
          IN Becomes(c, [calls[c] EXCEPT !.at = "otaWrite",
                          !.found = {[create |-> row = Nothing, target |-> target]}])
     /\ UNCHANGED <<devices, deleted, clock, points, tables, faults>>

WriteUpdate(c) ==
  LET request == EntryOf(c).ota[1]
      row == CHOOSE w \in calls[c].found : TRUE
  IN /\ calls[c].at = "otaWrite"
     /\ IF row.create /\ updates[request] # Nothing
        THEN Goes(c, "error") /\ UNCHANGED updates
        ELSE /\ updates' = [updates EXCEPT ![request] =
                  [device |-> TargetOf(c), status |-> EntryOf(c).ota[2],
                   target |-> row.target]]
             /\ Becomes(c, After(c, "ota"))
     /\ UNCHANGED <<devices, deleted, clock, points, latest, alarms, downlinks, faults>>

RunsTarget(version, target) == target # Nothing /\ version = target

\* As if the pending updates were listed without the query for the device.
PendingOfAnyone(d) ==
  {r \in OtaRequests : updates[r] # Nothing /\ updates[r].status = "pending"}
PendingOf(d) ==
  {r \in OtaRequests : /\ updates[r] # Nothing
                       /\ updates[r].device = d
                       /\ updates[r].status = "pending"}

\* As if only one pending update were looked at.
FirstOf(requests) == {CHOOSE r \in requests : TRUE}
AllOf(requests) == requests

\* reconcileOtaUpdate, with the firmware the device had at its lookup, if any: the
\* pending updates whose target it runs.  A row without target gets the latest
\* release's.  (The limit of 25 rows is not reached.)
ListPending(c) ==
  LET version == calls[c].firmware[calls[c].entry]
      target(r, answer) == IF updates[r].target # Nothing THEN updates[r].target ELSE answer
  IN /\ calls[c].at = "reconcile"
     /\ \E answer \in Answers :
          LET done == {r \in PendingOf(TargetOf(c)) : RunsTarget(version, target(r, answer))}
          IN Becomes(c, IF done = {} THEN After(c, "reconcile")
                        ELSE [calls[c] EXCEPT !.at = "complete",
                               !.found = {[request |-> r, target |-> target(r, answer)] :
                                            r \in AllOf(done)}])
     /\ UNCHANGED <<devices, deleted, clock, points, tables, faults>>

CompleteUpdate(c) ==
  /\ calls[c].at = "complete"
  /\ \E w \in calls[c].found :
       /\ updates' = [updates EXCEPT ![w.request].status = "succeeded",
                                     ![w.request].target = w.target]
       /\ Becomes(c, IF calls[c].found = {w} THEN After(c, "reconcile")
                     ELSE [calls[c] EXCEPT !.found = @ \ {w}])
  /\ UNCHANGED <<devices, deleted, clock, points, latest, alarms, downlinks, faults>>

\* syncDownlink: the same, on the downlinks table.
ListDownlink(c) ==
  /\ calls[c].at = "downlink"
  /\ Becomes(c, [calls[c] EXCEPT !.at = "downlinkWrite",
                  !.found = {[create |-> downlinks[EntryOf(c).downlink[1]] = Nothing]}])
  /\ UNCHANGED <<devices, deleted, clock, points, tables, faults>>

WriteDownlink(c) ==
  LET request == EntryOf(c).downlink[1]
  IN /\ calls[c].at = "downlinkWrite"
     /\ IF [create |-> TRUE] \in calls[c].found /\ downlinks[request] # Nothing
        THEN Goes(c, "error") /\ UNCHANGED downlinks
        ELSE /\ downlinks' = [downlinks EXCEPT ![request] =
                  [device |-> TargetOf(c), status |-> EntryOf(c).downlink[2]]]
             /\ Becomes(c, After(c, "downlink"))
     /\ UNCHANGED <<devices, deleted, clock, points, latest, alarms, updates, faults>>

\* -------------------------------------------------------- failures, deletions

\* As if the status of the time-series response were not looked at.
UncheckedStore(c) ==
  IF calls[c].at = "store"
  THEN WithEntry([calls[c] EXCEPT !.receivedAt = clock], 1)
  ELSE [calls[c] EXCEPT !.at = "error"]

AfterFault(c) == [calls[c] EXCEPT !.at = "error"]

\* A request fails, or the Function's 15 s are over: what was written stays, and
\* nobody calls again.
Fault(c) ==
  /\ c \in Open
  /\ faults < MaxFaults
  /\ faults' = faults + 1
  /\ Becomes(c, AfterFault(c))
  /\ UNCHANGED <<devices, deleted, clock, points, tables>>

\* The call for a deleted device removes its row, if there is one.
RemoveLatest(d) ==
  /\ deleted' = deleted \ {d}
  /\ \/ /\ latest' = [latest EXCEPT ![d] = Nothing]
        /\ UNCHANGED faults
     \/ /\ faults < MaxFaults
        /\ faults' = faults + 1
        /\ UNCHANGED latest
  /\ UNCHANGED <<devices, calls, clock, points, alarms, updates, downlinks>>

AlarmKeys == Rules \X Devices \X Events

Init ==
  /\ devices \in [Devices -> [place : {Nothing}, firmware : Versions \cup {Nothing}]]
  /\ deleted = {}
  /\ calls = [c \in Calls |-> Idle]
  /\ clock = 0
  /\ points = <<>>
  /\ latest = [d \in Devices |-> Nothing]
  /\ alarms = [x \in AlarmKeys |-> Nothing]
  /\ updates = [r \in OtaRequests |-> Nothing]
  /\ downlinks = [r \in DownRequests |-> Nothing]
  /\ faults = 0

Proceed(c) ==
  \/ LookupPublisher(c) \/ Lookup(c) \/ Store(c) \/ Locate(c)
  \/ Update(c) \/ Create(c) \/ UpdateAgain(c)
  \/ ListAlarms(c) \/ WriteAlarm(c)
  \/ ListUpdate(c) \/ WriteUpdate(c) \/ ListPending(c) \/ CompleteUpdate(c)
  \/ ListDownlink(c) \/ WriteDownlink(c)

Next ==
  \/ \E c \in Calls : Call(c) \/ Proceed(c) \/ Fault(c)
  \/ \E d \in Devices, version \in Versions : ReportFirmware(d, version)
  \/ \E d \in Devices : Delete(d)
  \/ \E d \in deleted : RemoveLatest(d)

Spec == Init /\ [][Next]_vars
-----------------------------------------------------------------------------
\* Properties.

Device == [place : Places \cup {Nothing}, firmware : Versions \cup {Nothing}]
Steps == {Stages[i] : i \in DOMAIN Stages}
           \cup {"device", "lookup", "store", "create", "again", "alarm", "otaWrite",
                 "complete", "downlinkWrite", "accepted", "refused", "error"}

\* What a call keeps of a list until it has written what follows from it.
AlarmWrite == [key : AlarmKeys, active : BOOLEAN, create : BOOLEAN]
UpdateWrite == [create : BOOLEAN, target : Versions \cup {Nothing}]
Completion == [request : OtaRequests, target : Versions \cup {Nothing}]
DownlinkWrite == [create : BOOLEAN]
Finding == AlarmWrite \cup UpdateWrite \cup Completion \cup DownlinkWrite

CallType ==
  [at : Steps, publisher : Devices, own : Versions \cup {Nothing}, batch : Seq(Entry),
   entry : Nat, firmware : Seq(Versions \cup {Nothing}), receivedAt : Nat,
   found : SUBSET Finding]

\* Every variable has its type, and a batch a report of firmware for each entry.
TypeOK ==
  /\ devices \in [Devices -> Device \cup {Nothing}]
  /\ deleted \subseteq Devices
  /\ DOMAIN calls = Calls
  /\ \A c \in Calls : calls[c] # Idle =>
       /\ calls[c] \in CallType
       /\ Len(calls[c].batch) \in 1..16
       /\ Len(calls[c].firmware) = Len(calls[c].batch)
  /\ clock \in Nat
  /\ DOMAIN points \subseteq Devices \X Nat
  /\ \A x \in DOMAIN points : points[x] \in Calls \X Nat
  /\ latest \in [Devices -> Row \cup {Nothing}]
  /\ alarms \in [AlarmKeys -> AlarmRow \cup {Nothing}]
  /\ updates \in [OtaRequests -> UpdateRow \cup {Nothing}]
  /\ downlinks \in [DownRequests ->
                       [device : Devices, status : DownStatuses] \cup {Nothing}]
  /\ faults \in Nat

\* What became of reading k of call c: where main() stores it, and whether
\* another call of the same millisecond wrote a reading over it.
PointOf(c, k) == <<calls[c].batch[k].client, Timestamp(calls[c].receivedAt, k)>>
Kept(c, k) == PointOf(c, k) \in DOMAIN points /\ points[PointOf(c, k)] = <<c, k>>
SharesInstant(c) ==
  \E b \in Calls \ {c} : calls[b] # Idle /\ calls[b].receivedAt = calls[c].receivedAt

\* A batch with one entry the publisher may not report leaves nothing behind:
\* with devices that keep their gateway, whatever a call stored, all entries of
\* its batch were the publisher's or its leaves'.
AllOrNothing ==
  \A x \in DOMAIN points :
    LET call == calls[points[x][1]]
    IN \A k \in DOMAIN call.batch :
         \/ call.batch[k].client = call.publisher
         \/ GatewayOf[call.batch[k].client] = call.publisher

\* Repeated entries of a device remain separate points: every reading of an
\* accepted batch is in the time series, unless calls share a millisecond.
HistoryComplete ==
  \A c \in Calls : calls[c].at = "accepted" =>
    SharesInstant(c) \/ \A k \in DOMAIN calls[c].batch : Kept(c, k)

\* The current state never shows a reading the history does not have.
RowInHistory ==
  \A d \in Devices : latest[d] # Nothing =>
    LET reading == latest[d].reading
    IN Kept(reading[1], reading[2]) \/ SharesInstant(reading[1])

\* upsertLatestTelemetry copes with calls that create the same row: a call that
\* writes to no other unique index fails only by a failing request or because
\* its device was deleted.
LostOnlyToFaults ==
  \A c \in Calls : calls[c].at = "error" =>
    \/ faults > 0
    \/ \E k \in DOMAIN calls[c].batch :
         LET e == calls[c].batch[k]
         IN devices[e.client] = Nothing \/ e.place # Nothing \/ e.ota # Nothing
            \/ e.downlink # Nothing

Quiet == Open = {} /\ deleted = {}
LastCall(c) ==
  /\ calls[c] # Idle
  /\ \A b \in Calls \ {c} : calls[b] # Idle => calls[b].receivedAt < calls[c].receivedAt

\* Calls that follow one another keep the alarms current, after failed calls
\* too: once a call is accepted an alarm is active exactly if the device's last
\* fix matches its rule.
AlarmCurrent ==
  \A c \in Calls : Quiet /\ LastCall(c) /\ calls[c].at = "accepted" =>
    \A k \in DOMAIN calls[c].batch :
      LET e == calls[c].batch[k]
          later == {l \in DOMAIN calls[c].batch :
                      l > k /\ calls[c].batch[l].client = e.client
                            /\ calls[c].batch[l].place # Nothing}
      IN e.place # Nothing /\ later = {} =>
           \A rule \in RulesFor(e.client), event \in Events :
             LET alarm == alarms[<<rule, e.client, event>>]
             IN (alarm # Nothing /\ alarm.active) <=> Matches(rule, event, e.place)

\* The device, the row of latest telemetry and readings without a fix: as long as
\* no call fails and calls follow one another, row and device show the same fix.
SameFix ==
  Quiet /\ (\A c \in Calls : calls[c].at # "error") =>
    \A d \in Devices : devices[d] # Nothing /\ latest[d] # Nothing =>
      latest[d].place = devices[d].place

\* Between calls that follow one another the tables tell one story: alarms,
\* device and row of latest telemetry are those of the same fix.
TablesAgree == AlarmCurrent /\ SameFix

\* An update is shown as succeeded only if its device reported so or a call found
\* that it runs the firmware the update was for.
SucceededWasSeen ==
  \A r \in OtaRequests : updates[r] # Nothing /\ updates[r].status = "succeeded" =>
    \E c \in Calls : calls[c] # Idle /\ \E k \in DOMAIN calls[c].batch :
      \/ calls[c].batch[k].ota = <<r, "succeeded">>
      \/ /\ calls[c].batch[k].client = updates[r].device
         /\ calls[c].firmware[k] = updates[r].target

\* Any accepted reading of a device ends the wait for updates whose answer was
\* lost: none stays pending that was for the firmware the device ran when the
\* call looked it up for the last of its entries in the batch.
ReconcileCompletes ==
  \A c \in Calls : Quiet /\ LastCall(c) /\ calls[c].at = "accepted" =>
    \A k \in DOMAIN calls[c].batch, r \in OtaRequests :
      /\ \A l \in DOMAIN calls[c].batch :
           l > k => calls[c].batch[l].client # calls[c].batch[k].client
      /\ updates[r] # Nothing /\ updates[r].device = calls[c].batch[k].client
      /\ updates[r].target # Nothing
      /\ updates[r].target = calls[c].firmware[k]
      => updates[r].status # "pending"

\* An update ends as succeeded when its device reports or runs what it was for,
\* and only then.
UpdatesSettle == SucceededWasSeen /\ ReconcileCompletes

\* TablesDB keeps the last reading of each device (function/README.md).
LatestIsNewest ==
  Quiet => \A d \in Devices, c \in Calls : calls[c].at = "accepted" =>
    \A k \in DOMAIN calls[c].batch :
      calls[c].batch[k].client = d /\ latest[d] # Nothing
      => latest[d].receivedAt >= calls[c].receivedAt

\* When a device is deleted its latest-telemetry row is removed (function/README.md).
DeletedLeavesNoRow ==
  Quiet /\ faults = 0 =>
    \A d \in Devices : devices[d] = Nothing => latest[d] = Nothing
=============================================================================
