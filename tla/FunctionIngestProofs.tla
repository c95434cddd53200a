-------------------------- MODULE FunctionIngestProofs -------------------------
(***************************************************************************)
(* Proofs about FunctionIngest, for any number of devices, calls, rules    *)
(* and requests and however the requests of calls interleave: types, that  *)
(* a batch is stored only if its publisher may report all of it, that the  *)
(* time series keeps every reading, that the table of latest telemetry     *)
(* shows none the series does not have, and what calls may fail of.  Where *)
(* calls follow one another (MaxOpen = 1), that updates settle and that    *)
(* device, row and geofence alarms are those of the same fix.              *)
(***************************************************************************)
EXTENDS FunctionIngest, FiniteSetTheorems, TLAPS

\* ------------------------------------------------------------- calls and stages

StageNames == {"locate", "update", "fences", "ota", "reconcile", "downlink"}

\* The steps of a call between writeTimeseries and its end, and their stages.
Working == StageNames \cup {"create", "again", "alarm", "otaWrite", "complete",
                            "downlinkWrite"}
StageOf(step) ==
  CASE step \in {"update", "create", "again"} -> "update"
    [] step \in {"fences", "alarm"} -> "fences"
    [] step \in {"ota", "otaWrite"} -> "ota"
    [] step \in {"reconcile", "complete"} -> "reconcile"
    [] step \in {"downlink", "downlinkWrite"} -> "downlink"
    [] OTHER -> "locate"

\* The publisher may report for entry k: it is its own or one of its leaves'.
Allowed(call, k) ==
  \/ call.batch[k].client = call.publisher
  \/ GatewayOf[call.batch[k].client] = call.publisher

\* A call knows how far it is: while it works it is at a stage that its entry
\* needs, with what it listed for it, and all its entries are allowed.
CallRight(call) ==
  /\ call \in CallType
  /\ Len(call.batch) \in 1..16 /\ Len(call.firmware) = Len(call.batch)
  /\ call.at = "device" => call.entry = 0
  /\ call.at = "lookup" => /\ call.entry \in 0..(Len(call.batch) - 1)
                           /\ \A k \in 1..call.entry : Allowed(call, k)
  /\ call.at \in Working \cup {"store", "accepted"} =>
       \A k \in 1..Len(call.batch) : Allowed(call, k)
  /\ call.at \in Working => /\ call.entry \in 1..Len(call.batch)
                            /\ Needed(call, call.entry, StageOf(call.at))
  /\ call.at = "alarm" => call.found \subseteq AlarmWrite
  /\ call.at = "otaWrite" => \E w \in UpdateWrite : call.found = {w}
  /\ call.at = "complete" => call.found \subseteq Completion

LEMMA StagesRight ==
  /\ DOMAIN Stages = 1..6 /\ Len(Stages) = 6
  /\ \A i \in 1..6 : Stages[i] \in StageNames
  /\ \A stage \in StageNames : \E i \in 1..6 : Stages[i] = stage
  /\ Stages[2] = "update"
<1>1. Stages[1] = "locate" /\ Stages[2] = "update" /\ Stages[3] = "fences"
      /\ Stages[4] = "ota" /\ Stages[5] = "reconcile" /\ Stages[6] = "downlink"
  BY DEF Stages
<1>2. DOMAIN Stages = 1..6 /\ Len(Stages) = 6 BY DEF Stages
<1>3. \A i \in 1..6 : i = 1 \/ i = 2 \/ i = 3 \/ i = 4 \/ i = 5 \/ i = 6 OBVIOUS
<1>4. \A i \in 1..6 : Stages[i] \in StageNames BY <1>1, <1>3 DEF StageNames
<1>5. ASSUME NEW stage \in StageNames PROVE \E i \in 1..6 : Stages[i] = stage
  BY <1>1 DEF StageNames
<1> QED BY <1>1, <1>2, <1>4, <1>5

LEMMA StepsRight ==
  /\ Working \subseteq Steps
  /\ {"device", "lookup", "store", "accepted", "refused", "error"} \subseteq Steps
  /\ \A stage \in StageNames : StageOf(stage) = stage
  /\ "idle" \notin Steps
<1>1. \A stage \in StageNames : stage \in {Stages[i] : i \in DOMAIN Stages}
  BY StagesRight
<1>2. {Stages[i] : i \in DOMAIN Stages} \subseteq StageNames BY StagesRight
<1> QED BY <1>1, <1>2 DEF Steps, Working, StageNames, StageOf

\* Min chooses the least of some numbers of stages.
LEMMA MinIsOne ==
  ASSUME NEW S, S \subseteq 1..6, S # {}
  PROVE  Min(S) \in S /\ \A m \in S : Min(S) =< m
<1>1. \E n \in S : \A m \in S : n =< m
  <2>1. \A n \in S : n = 1 \/ n = 2 \/ n = 3 \/ n = 4 \/ n = 5 \/ n = 6 OBVIOUS
  <2>2. CASE 1 \in S BY <2>1, <2>2
  <2>3. CASE 1 \notin S /\ 2 \in S BY <2>1, <2>3
  <2>4. CASE 1 \notin S /\ 2 \notin S /\ 3 \in S BY <2>1, <2>4
  <2>5. CASE 1 \notin S /\ 2 \notin S /\ 3 \notin S /\ 4 \in S BY <2>1, <2>5
  <2>6. CASE S \subseteq 5..6 /\ 5 \in S
    BY <2>6
  <2>7. CASE S \subseteq 5..6 /\ 5 \notin S
    <3>1. \A n \in S : n = 6 BY <2>7
    <3>2. PICK n \in S : TRUE OBVIOUS
    <3>3. \A m \in S : n =< m BY <3>1, <3>2
    <3> QED BY <3>3
  <2> QED BY <2>1, <2>2, <2>3, <2>4, <2>5, <2>6, <2>7
<1> QED BY <1>1 DEF Min

\* What a call takes along from one step to the next.
Same(call, after) ==
  /\ after.batch = call.batch /\ after.publisher = call.publisher
  /\ after.receivedAt = call.receivedAt

\* Where a call stands after a stage: at a stage, or accepted.
StageReached(call, after) ==
  CallRight(after) /\ Same(call, after) /\ after.at \in StageNames \cup {"accepted"}

LEMMA WithEntryRight ==
  ASSUME NEW call, NEW k \in Nat \ {0},
         call \in CallType, Len(call.batch) \in 1..16, Len(call.firmware) = Len(call.batch),
         \A l \in 1..Len(call.batch) : Allowed(call, l)
  PROVE  StageReached(call, WithEntry(call, k))
<1> DEFINE r == WithEntry(call, k)
<1>1. CASE k > Len(call.batch)
  <2>1. r = [call EXCEPT !.at = "accepted", !.found = {}] BY <1>1 DEF WithEntry
  <2>2. r \in CallType /\ r.at = "accepted" /\ r.batch = call.batch
        /\ r.publisher = call.publisher /\ r.receivedAt = call.receivedAt
        /\ r.firmware = call.firmware
    BY <2>1, StepsRight DEF CallType
  <2>3. "accepted" \notin Working BY DEF Working, StageNames
  <2> HIDE DEF r
  <2>4. CallRight(r) BY <2>2, <2>3 DEF CallRight, Allowed
  <2> QED BY <2>2, <2>4 DEF StageReached, Same, r
<1>2. CASE ~(k > Len(call.batch))
  <2> DEFINE left == Left(call, k, 1)
  <2>1. left \subseteq 1..6 BY StagesRight DEF Left
  <2>2. 2 \in left
    <3>1. Needed(call, k, "update") BY DEF Needed
    <3> QED BY <3>1, StagesRight DEF Left
  <2>3. Min(left) \in left BY <2>1, <2>2, MinIsOne
  <2> DEFINE stage == Stages[Min(left)]
  <2>4. stage \in StageNames /\ Needed(call, k, stage) BY <2>1, <2>3, StagesRight DEF Left
  <2> HIDE DEF stage
  <2>5. r = [call EXCEPT !.entry = k, !.at = stage, !.found = {}]
    BY <1>2 DEF WithEntry, stage
  <2>6. stage \in Working /\ stage \in Steps BY <2>4, StepsRight DEF Working
  <2>7. r \in CallType /\ r.at = stage /\ r.batch = call.batch /\ r.entry = k
        /\ r.publisher = call.publisher /\ r.receivedAt = call.receivedAt
        /\ r.firmware = call.firmware
    BY <2>5, <2>6 DEF CallType
  <2>8. stage \notin {"device", "lookup", "alarm", "otaWrite", "complete"} BY <2>4 DEF StageNames
  <2>9. Needed(r, k, stage) BY <2>4, <2>7 DEF Needed
  <2> HIDE DEF r
  <2>10. k \in 1..Len(call.batch) BY <1>2
  <2>11. CallRight(r) BY <2>4, <2>7, <2>8, <2>9, <2>10, StepsRight DEF CallRight, Allowed
  <2> QED BY <2>4, <2>7, <2>11 DEF StageReached, Same, r
<1> QED BY <1>1, <1>2

LEMMA AfterRight ==
  ASSUME NEW c, CallRight(calls[c]), calls[c].at \in Working, NEW stage \in StageNames
  PROVE  StageReached(calls[c], After(c, stage))
<1> DEFINE call == calls[c]
           n == CHOOSE i \in DOMAIN Stages : Stages[i] = stage
           left == Left(call, call.entry, n + 1)
           r == After(c, stage)
<1>1. n \in 1..6 BY StagesRight
<1>2. /\ call \in CallType /\ Len(call.batch) \in 1..16
      /\ Len(call.firmware) = Len(call.batch) /\ call.entry \in 1..Len(call.batch)
      /\ \A l \in 1..Len(call.batch) : Allowed(call, l)
  BY DEF CallRight
<1>3. CASE left # {}
  <2>1. left \subseteq 1..6 BY <1>1, StagesRight DEF Left
  <2>2. Min(left) \in left BY <1>3, <2>1, MinIsOne
  <2> DEFINE next == Stages[Min(left)]
  <2>3. next \in StageNames /\ Needed(call, call.entry, next)
    BY <2>1, <2>2, StagesRight DEF Left
  <2>4. r = [call EXCEPT !.at = next, !.found = {}] BY <1>3 DEF After
  <2> HIDE DEF next, left, n
  <2>5. next \in Working /\ next \in Steps BY <2>3, StepsRight DEF Working
  <2>6. r \in CallType /\ r.at = next /\ r.batch = call.batch /\ r.entry = call.entry
        /\ r.publisher = call.publisher /\ r.receivedAt = call.receivedAt
        /\ r.firmware = call.firmware
    BY <1>2, <2>4, <2>5 DEF CallType
  <2>7. next \notin {"device", "lookup", "alarm", "otaWrite", "complete"} BY <2>3 DEF StageNames
  <2> HIDE DEF r
  <2>8. Needed(r, r.entry, next) BY <2>3, <2>6 DEF Needed
  <2>9. CallRight(r) BY <1>2, <2>3, <2>6, <2>7, <2>8, StepsRight DEF CallRight, Allowed
  <2> QED BY <2>3, <2>6, <2>9 DEF StageReached, Same, r
<1>4. CASE left = {}
  <2>1. r = WithEntry(call, call.entry + 1) BY <1>4 DEF After
  <2>2. call.entry + 1 \in Nat \ {0} BY <1>2
  <2> QED BY <1>2, <2>1, <2>2, WithEntryRight
<1> QED BY <1>3, <1>4

\* ------------------------------------------------------------------ types

\* What a call lists as done is in the table, and rows of updates stay.
CallsRight ==
  \A c \in Calls : calls[c] # Idle =>
    /\ CallRight(calls[c])
    /\ calls[c].at = "complete" => \A w \in calls[c].found : updates[w.request] # Nothing

IInv == TypeOK /\ CallsRight

\* How a call goes on: it keeps its batch and, once it has one, its time.
BeforeStore == {"device", "lookup", "store"}
Continues(call, after) ==
  /\ after.batch = call.batch /\ after.publisher = call.publisher
  /\ call.at # "store" => after.receivedAt = call.receivedAt
  /\ call.at \notin BeforeStore => after.at \notin BeforeStore

GoesOn(call, after) == CallRight(after) /\ Continues(call, after)

LEMMA NotIdle == \A call : CallRight(call) => call # Idle /\ call.at # "idle"
BY StepsRight DEF CallRight, CallType, Idle

LEMMA CallOf ==
  ASSUME IInv, NEW c \in Calls, calls[c].at # "idle"
  PROVE  CallRight(calls[c]) /\ calls[c] # Idle
BY DEF IInv, CallsRight, Idle

LEMMA EndsRight ==
  ASSUME NEW call, CallRight(call), NEW step \in {"refused", "error"}
  PROVE  GoesOn(call, [call EXCEPT !.at = step])
<1> DEFINE r == [call EXCEPT !.at = step]
<1>1. r \in CallType /\ r.at = step /\ Same(call, r) /\ r.firmware = call.firmware
  BY StepsRight DEF CallRight, CallType, Same
<1> HIDE DEF r
<1>2. CallRight(r)
  BY <1>1 DEF CallRight, Same, Working, StageNames
<1>3. GoesOn(call, r) BY <1>1, <1>2 DEF GoesOn, Continues, Same, BeforeStore
<1> QED BY <1>3 DEF r

LEMMA StageGoes ==
  ASSUME NEW call, NEW after, StageReached(call, after), call.at # "store"
  PROVE  GoesOn(call, after)
BY DEF StageReached, GoesOn, Continues, Same, BeforeStore, StageNames

\* A call at work that goes on to another step of its stage.
InStep(call, step, found) == [call EXCEPT !.at = step, !.found = found]

LEMMA InStage ==
  ASSUME NEW call, CallRight(call), call.at \in Working,
         NEW step \in Working, StageOf(step) = StageOf(call.at),
         NEW found \in SUBSET Finding,
         step = "alarm" => found \subseteq AlarmWrite,
         step = "otaWrite" => \E w \in UpdateWrite : found = {w},
         step = "complete" => found \subseteq Completion
  PROVE  /\ GoesOn(call, InStep(call, step, found))
         /\ InStep(call, step, found).at = step /\ InStep(call, step, found).found = found
<1> DEFINE r == InStep(call, step, found)
<1>1. call \in CallType BY DEF CallRight
<1>2. step \in Steps BY StepsRight
<1>3. r \in CallType /\ r.at = step /\ r.found = found /\ Same(call, r)
      /\ r.firmware = call.firmware /\ r.entry = call.entry
  BY <1>1, <1>2 DEF CallType, Same, InStep
<1> HIDE DEF r
<1>4. step \notin BeforeStore BY DEF Working, StageNames, BeforeStore
<1>5. call.entry \in 1..Len(call.batch) /\ Needed(call, call.entry, StageOf(call.at))
  BY DEF CallRight
<1>6. Needed(r, r.entry, StageOf(step)) BY <1>3, <1>5 DEF Needed, Same
<1>7. \A k \in 1..Len(r.batch) : Allowed(r, k) BY <1>3 DEF CallRight, Allowed, Same
<1>8. CallRight(r)
  BY <1>3, <1>4, <1>5, <1>6, <1>7 DEF CallRight, Same, BeforeStore
<1>9. GoesOn(call, r) BY <1>3, <1>4, <1>8 DEF GoesOn, Continues, Same
<1> QED BY <1>3, <1>9 DEF r


LEMMA SameFound ==
  ASSUME NEW call, call \in CallType, NEW step
  PROVE  [call EXCEPT !.at = step] = [call EXCEPT !.at = step, !.found = call.found]
BY DEF CallType

LEMMA SameStep ==
  ASSUME NEW call, call \in CallType, NEW found
  PROVE  [call EXCEPT !.found = found] = [call EXCEPT !.at = call.at, !.found = found]
BY DEF CallType

\* Whatever a call does next, its record stays right.
LEMMA BeforeWrites ==
  ASSUME IInv, NEW c \in Calls, LookupPublisher(c) \/ Lookup(c) \/ Store(c)
  PROVE  \E r : Becomes(c, r) /\ GoesOn(calls[c], r) /\ r.at # "complete"
<1> DEFINE call == calls[c]
<1>1. CallRight(call) BY CallOf DEF LookupPublisher, Lookup, Store
<1>2. call \in CallType /\ Len(call.batch) \in 1..16 /\ Len(call.firmware) = Len(call.batch)
  BY <1>1 DEF CallRight
<1>3. call.batch \in Seq(Entry) /\ call.firmware \in Seq(Versions \cup {Nothing})
      /\ call.entry \in Nat /\ call.publisher \in Devices /\ call.own \in Versions \cup {Nothing}
  BY <1>2 DEF CallType
<1>e. \A step \in {"refused", "error"} :
        GoesOn(call, [call EXCEPT !.at = step]) /\ [call EXCEPT !.at = step].at # "complete"
  BY <1>1, <1>2, EndsRight DEF CallType
<1>4. CASE LookupPublisher(c)
  <2> DEFINE device == devices[call.publisher]
             r == [call EXCEPT !.at = "lookup", !.own = device.firmware]
  <2>1. call.at = "device" BY <1>4 DEF LookupPublisher
  <2>2. CASE device = Nothing
    BY <1>4, <1>e, <2>2 DEF LookupPublisher
  <2>3. CASE device # Nothing
    <3>1. device.firmware \in Versions \cup {Nothing}
      BY <1>3, <2>3 DEF IInv, TypeOK, Device
    <3>2. r \in CallType /\ r.at = "lookup" /\ r.batch = call.batch /\ r.entry = call.entry
          /\ r.firmware = call.firmware /\ Same(call, r)
      BY <1>2, <3>1, StepsRight DEF CallType, Same
    <3> HIDE DEF r
    <3>a. call.entry = 0 BY <1>1, <2>1 DEF CallRight
    <3>b. r.entry \in 0..(Len(r.batch) - 1) /\ \A k \in 1..r.entry : Allowed(r, k)
      <4>1. r.entry = 0 /\ Len(r.batch) \in 1..16 BY <1>2, <3>2, <3>a
      <4>2. \A k \in 1..0 : Allowed(r, k) OBVIOUS
      <4>3. \A n \in 1..16 : 0 \in 0..(n - 1) OBVIOUS
      <4>4. 0 \in 0..(Len(r.batch) - 1) BY <4>1, <4>3
      <4>5. r.entry \in 0..(Len(r.batch) - 1) BY <4>1, <4>4
      <4>6. \A k \in 1..r.entry : Allowed(r, k) BY <4>1, <4>2
      <4> QED BY <4>5, <4>6
    <3>3. CallRight(r)
      BY <1>2, <3>2, <3>b DEF CallRight, Same, Working, StageNames
    <3>4. GoesOn(call, r) BY <2>1, <3>2, <3>3 DEF GoesOn, Continues, Same, BeforeStore
    <3>5. Becomes(c, r) BY <1>4, <2>3 DEF LookupPublisher, r
    <3> QED BY <3>2, <3>4, <3>5
  <2> QED BY <2>2, <2>3
<1>5. CASE Lookup(c)
  <2> DEFINE next == [call EXCEPT !.entry = @ + 1]
             client == next.batch[next.entry].client
             own == client = next.publisher
             version == IF own THEN next.own ELSE devices[client].firmware
             known == [next EXCEPT !.firmware[next.entry] = version]
             passed == own \/ (devices[client] # Nothing /\ GatewayOf[client] = next.publisher)
             r == IF LookedUp(next) THEN [known EXCEPT !.at = "store"] ELSE known
  <2>1. call.at = "lookup" BY <1>5 DEF Lookup
  <2>2. call.entry \in 0..(Len(call.batch) - 1) /\ \A k \in 1..call.entry : Allowed(call, k)
    BY <1>1, <2>1 DEF CallRight
  <2>3. next.entry = call.entry + 1 /\ next.batch = call.batch /\ next.own = call.own
        /\ next.publisher = call.publisher /\ next.firmware = call.firmware /\ next \in CallType
    BY <1>2 DEF CallType
  <2>4. CASE ~passed
    BY <1>5, <1>e, <2>4 DEF Lookup, Goes
  <2>5. CASE passed
    <3>1. next.entry \in 1..Len(call.batch) BY <1>2, <2>2, <2>3
    <3>2. call.batch[next.entry] \in Entry BY <1>3, <3>1
    <3>3. client \in Devices BY <2>3, <3>2 DEF Entry
    <3>4. version \in Versions \cup {Nothing}
      BY <1>3, <2>3, <2>5, <3>3 DEF IInv, TypeOK, Device
    <3>5. Allowed(call, next.entry)
      BY <2>3, <2>5 DEF Allowed
    <3>6. \A k \in 1..next.entry : Allowed(call, k)
      BY <2>2, <2>3, <3>5
    <3> DEFINE firmware == [call.firmware EXCEPT ![next.entry] = version]
    <3>7. firmware \in Seq(Versions \cup {Nothing}) /\ Len(firmware) = Len(call.firmware)
      BY <1>2, <1>3, <3>1, <3>4
    <3> HIDE DEF version
    <3>8. known \in CallType /\ known.at = "lookup" /\ known.entry = next.entry
          /\ known.firmware = firmware /\ Same(call, known)
      BY <1>2, <2>1, <2>3, <3>7 DEF CallType, Same
    <3> HIDE DEF known, client, own
    <3>9. CASE LookedUp(next)
      <4>1. r \in CallType /\ r.at = "store" /\ r.entry = known.entry
            /\ r.firmware = firmware /\ Same(call, r)
        BY <3>8, <3>9, StepsRight DEF CallType, Same
      <4>2. next.entry = Len(call.batch) BY <2>3, <3>9 DEF LookedUp
      <4> HIDE DEF r, next
      <4>3. CallRight(r)
        BY <1>2, <3>6, <3>7, <3>8, <4>1, <4>2
        DEF CallRight, Same, Allowed, Working, StageNames
      <4>4. GoesOn(call, r) BY <2>1, <4>1, <4>3 DEF GoesOn, Continues, Same, BeforeStore
      <4>5. Becomes(c, r) BY <1>5, <2>5, <3>9 DEF Lookup, r, known, own, client, version, next
      <4> QED BY <4>1, <4>4, <4>5
    <3>10. CASE ~LookedUp(next)
      <4>1. next.entry \in 0..(Len(call.batch) - 1)
        BY <1>2, <2>3, <3>1, <3>10 DEF LookedUp
      <4> HIDE DEF next
      <4>2. CallRight(known)
        BY <1>2, <3>6, <3>7, <3>8, <4>1 DEF CallRight, Same, Allowed, Working, StageNames
      <4>3. GoesOn(call, known)
        BY <2>1, <3>8, <4>2 DEF GoesOn, Continues, Same, BeforeStore
      <4>4. Becomes(c, known)
        BY <1>5, <2>5, <3>10 DEF Lookup, known, own, client, version, next
      <4> QED BY <3>8, <4>3, <4>4
    <3> QED BY <3>9, <3>10
  <2> QED BY <2>4, <2>5
<1>6. CASE Store(c)
  <2> DEFINE stamped == [call EXCEPT !.receivedAt = clock']
             r == WithEntry(stamped, 1)
  <2>1. call.at = "store" /\ Becomes(c, r) /\ clock' \in clock..clock + 1
    BY <1>6 DEF Store
  <2>2. clock' \in Nat BY <2>1 DEF IInv, TypeOK
  <2>3. stamped \in CallType /\ stamped.batch = call.batch /\ stamped.firmware = call.firmware
        /\ stamped.publisher = call.publisher
    BY <1>2, <2>2 DEF CallType
  <2> HIDE DEF stamped
  <2>4. \A k \in 1..Len(stamped.batch) : Allowed(stamped, k)
    BY <1>1, <2>1, <2>3 DEF CallRight, Allowed
  <2>5. StageReached(stamped, r) BY <1>2, <2>3, <2>4, WithEntryRight
  <2>6. GoesOn(call, r) /\ r.at # "complete"
    BY <2>1, <2>3, <2>5
    DEF StageReached, GoesOn, Continues, Same, BeforeStore, StageNames
  <2> QED BY <2>1, <2>6
<1> QED BY <1>4, <1>5, <1>6

\* What a call has listed as done is in the table.
Listed(call) == call.at = "complete" => \A w \in call.found : updates[w.request] # Nothing

LEMMA StageIsNotComplete ==
  ASSUME NEW call, NEW after, StageReached(call, after), call.at \in Working
  PROVE  GoesOn(call, after) /\ Listed(after)
<1>1. call.at # "store" BY DEF Working, StageNames
<1>2. after.at # "complete" BY DEF StageReached, StageNames
<1> QED BY <1>1, <1>2, StageGoes DEF Listed

LEMMA WhileWorking ==
  ASSUME IInv, NEW c \in Calls,
         \/ Locate(c) \/ Update(c) \/ Create(c) \/ UpdateAgain(c)
         \/ ListAlarms(c) \/ WriteAlarm(c)
         \/ ListUpdate(c) \/ WriteUpdate(c) \/ ListPending(c) \/ CompleteUpdate(c)
         \/ ListDownlink(c) \/ WriteDownlink(c)
  PROVE  /\ calls[c].at \in Working
         /\ \E r : Becomes(c, r) /\ GoesOn(calls[c], r) /\ Listed(r)
<1> DEFINE call == calls[c]
           d == TargetOf(c)
<1>w. call.at \in Working
  BY DEF Locate, Update, Create, UpdateAgain, ListAlarms, WriteAlarm, ListUpdate, WriteUpdate,
         ListPending, CompleteUpdate, ListDownlink, WriteDownlink, Working, StageNames
<1>c. CallRight(call)
  <2>1. call.at # "idle" BY <1>w DEF Working, StageNames
  <2> QED BY <2>1, CallOf
<1>y. call \in CallType /\ call.found \in SUBSET Finding BY <1>c DEF CallRight, CallType
<1>a. \A stage \in StageNames : GoesOn(call, After(c, stage)) /\ Listed(After(c, stage))
  <2>1. \A stage \in StageNames : StageReached(call, After(c, stage)) BY <1>c, <1>w, AfterRight
  <2> QED BY <1>w, <2>1, StageIsNotComplete
<1>e. GoesOn(call, [call EXCEPT !.at = "error"]) /\ Listed([call EXCEPT !.at = "error"])
  <2>1. GoesOn(call, [call EXCEPT !.at = "error"]) BY <1>c, EndsRight
  <2>2. [call EXCEPT !.at = "error"].at = "error" BY <1>y DEF CallType
  <2> QED BY <2>1, <2>2 DEF Listed
<1>n. {"locate", "update", "fences", "ota", "reconcile", "downlink"} \subseteq StageNames
  BY DEF StageNames
<1>1. CASE Locate(c)
  <2>1. \/ Becomes(c, [call EXCEPT !.at = "error"]) \/ Becomes(c, After(c, "locate"))
    BY <1>1 DEF Locate, Goes
  <2> QED BY <1>w, <1>a, <1>e, <1>n, <2>1
<1>2. CASE Update(c) \/ Create(c) \/ UpdateAgain(c)
  <2>1. call.at \in {"update", "create", "again"} BY <1>2 DEF Update, Create, UpdateAgain
  <2>2. \/ Becomes(c, [call EXCEPT !.at = "error"]) \/ Becomes(c, After(c, "update"))
        \/ Becomes(c, [call EXCEPT !.at = "create"]) \/ Becomes(c, [call EXCEPT !.at = "again"])
    BY <1>2 DEF Update, Create, UpdateAgain, Goes, OnConflict
  <2>3. ASSUME NEW step \in {"create", "again"}
        PROVE  GoesOn(call, [call EXCEPT !.at = step]) /\ Listed([call EXCEPT !.at = step])
    <3> DEFINE r == InStep(call, step, call.found)
    <3>1. step \in Working /\ StageOf(step) = StageOf(call.at)
          /\ step \notin {"alarm", "otaWrite", "complete"}
      BY <2>1 DEF Working, StageOf
    <3>2. GoesOn(call, r) /\ r.at = step BY <1>w, <1>c, <1>y, <3>1, InStage
    <3>3. [call EXCEPT !.at = step] = r BY <1>y, SameFound DEF InStep
    <3> QED BY <3>1, <3>2, <3>3 DEF Listed
  <2> QED BY <1>w, <1>a, <1>e, <1>n, <2>2, <2>3
<1>3. CASE ListAlarms(c)
  <2> DEFINE place == EntryOf(c).place
             matches(x) == Matches(x[1], x[2], place)
             alarm(x) == alarms[<<x[1], d, x[2]>>]
             writes == {[key |-> <<x[1], d, x[2]>>, active |-> matches(x),
                         create |-> alarm(x) = Nothing] :
                          x \in {y \in RulesFor(d) \X Events : NeedsWrite(alarm(y), matches(y))}}
             r == InStep(call, "alarm", writes)
  <2>1. call.at = "fences" /\ Becomes(c, IF writes = {} THEN After(c, "fences") ELSE r)
    BY <1>3 DEF ListAlarms, InStep
  <2>2. d \in Devices
    <3>1. call.entry \in 1..Len(call.batch) /\ call.batch \in Seq(Entry)
      BY <1>c, <1>w, <1>y DEF CallRight, CallType
    <3>2. call.batch[call.entry] \in Entry BY <3>1
    <3> QED BY <3>2 DEF TargetOf, EntryOf, Entry
  <2>3. writes \subseteq AlarmWrite
    <3>1. ASSUME NEW x \in RulesFor(d) \X Events
          PROVE  [key |-> <<x[1], d, x[2]>>, active |-> matches(x),
                  create |-> alarm(x) = Nothing] \in AlarmWrite
      <4>1. x[1] \in Rules /\ x[2] \in Events BY <3>1 DEF RulesFor
      <4>2. x[1] \in RuleType BY <4>1, IngestAssumption
      <4>3. matches(x) \in BOOLEAN BY <4>2 DEF Matches, RuleType
      <4>4. <<x[1], d, x[2]>> \in AlarmKeys BY <2>2, <4>1 DEF AlarmKeys
      <4>5. (alarm(x) = Nothing) \in BOOLEAN OBVIOUS
      <4> HIDE DEF matches, alarm, d
      <4> QED BY <4>3, <4>4, <4>5 DEF AlarmWrite
    <3> QED BY <3>1
  <2> HIDE DEF writes
  <2>4. writes \in SUBSET Finding BY <2>3 DEF Finding
  <2>5. "alarm" \in Working /\ StageOf("alarm") = StageOf(call.at)
    BY <2>1 DEF Working, StageOf
  <2>6. GoesOn(call, r) /\ r.at = "alarm" BY <1>w, <1>c, <2>3, <2>4, <2>5, InStage
  <2>7. Listed(r) BY <2>6 DEF Listed
  <2> QED BY <1>w, <1>a, <1>n, <2>1, <2>6, <2>7
<1>4. CASE WriteAlarm(c)
  <2>1. call.at = "alarm" BY <1>4 DEF WriteAlarm
  <2>2. PICK w \in call.found :
          \/ Becomes(c, [call EXCEPT !.at = "error"])
          \/ Becomes(c, After(c, "fences"))
          \/ Becomes(c, [call EXCEPT !.found = @ \ {w}])
    BY <1>4 DEF WriteAlarm, Goes
  <2> DEFINE found == call.found \ {w}
             r == InStep(call, "alarm", found)
  <2>3. found \subseteq AlarmWrite /\ found \in SUBSET Finding
    BY <1>c, <1>y, <2>1 DEF CallRight
  <2> HIDE DEF found
  <2>4. "alarm" \in Working BY DEF Working
  <2>5. GoesOn(call, r) /\ r.at = "alarm" BY <1>c, <2>1, <2>3, <2>4, InStage
  <2>6. Listed(r) BY <2>5 DEF Listed
  <2>7. [call EXCEPT !.found = @ \ {w}] = r
    BY <1>y, <2>1, SameStep DEF found, InStep
  <2> QED BY <1>w, <1>a, <1>e, <1>n, <2>2, <2>5, <2>6, <2>7
<1>5. CASE ListUpdate(c)
  <2> DEFINE row == updates[EntryOf(c).ota[1]]
             target(answer) == IF row # Nothing /\ row.target # Nothing THEN row.target
                               ELSE answer
  <2>1. PICK answer \in Answers :
          Becomes(c, [call EXCEPT !.at = "otaWrite",
                       !.found = {[create |-> row = Nothing, target |-> target(answer)]}])
    BY <1>5 DEF ListUpdate
  <2>2. call.at = "ota" BY <1>5 DEF ListUpdate
  <2>3. row \in UpdateRow \cup {Nothing}
    <3>1. call.entry \in 1..Len(call.batch) /\ call.batch \in Seq(Entry) /\ EntryOf(c).ota # Nothing
      BY <1>c, <1>w, <1>y, <2>2 DEF CallRight, CallType, Needed, StageOf, EntryOf
    <3>2. call.batch[call.entry] \in Entry BY <3>1
    <3>3. EntryOf(c).ota[1] \in OtaRequests BY <3>1, <3>2 DEF EntryOf, Entry
    <3> QED BY <3>3 DEF IInv, TypeOK
  <2>4. target(answer) \in Versions \cup {Nothing} BY <2>3, IngestAssumption DEF UpdateRow
  <2> DEFINE w == [create |-> row = Nothing, target |-> target(answer)]
             r == InStep(call, "otaWrite", {w})
  <2> HIDE DEF row
  <2>5. w \in UpdateWrite BY <2>4 DEF UpdateWrite
  <2> HIDE DEF w
  <2>6. {w} \in SUBSET Finding BY <2>5 DEF Finding
  <2>7. "otaWrite" \in Working /\ StageOf("otaWrite") = StageOf(call.at)
    BY <2>2 DEF Working, StageOf
  <2>8. GoesOn(call, r) /\ r.at = "otaWrite" BY <1>w, <1>c, <2>5, <2>6, <2>7, InStage
  <2>9. Listed(r) BY <2>8 DEF Listed
  <2> QED BY <1>w, <2>1, <2>8, <2>9 DEF w, InStep
<1>6. CASE WriteUpdate(c)
  <2>1. \/ Becomes(c, [call EXCEPT !.at = "error"]) \/ Becomes(c, After(c, "ota"))
    BY <1>6 DEF WriteUpdate, Goes
  <2> QED BY <1>w, <1>a, <1>e, <1>n, <2>1
<1>7. CASE ListPending(c)
  <2> DEFINE target(r, answer) == IF updates[r].target # Nothing THEN updates[r].target
                                  ELSE answer
             done(answer) == {r \in PendingOf(d) :
                                RunsTarget(call.firmware[call.entry], target(r, answer))}
  <2>1. PICK answer \in Answers :
          Becomes(c, IF done(answer) = {} THEN After(c, "reconcile")
                     ELSE [call EXCEPT !.at = "complete",
                            !.found = {[request |-> r, target |-> target(r, answer)] :
                                         r \in done(answer)}])
    BY <1>7 DEF ListPending, AllOf
  <2>2. call.at = "reconcile" BY <1>7 DEF ListPending
  <2> DEFINE found == {[request |-> r, target |-> target(r, answer)] : r \in done(answer)}
             after == InStep(call, "complete", found)
  <2>3. \A r \in done(answer) : r \in OtaRequests /\ updates[r] # Nothing BY DEF PendingOf
  <2>4. \A r \in done(answer) : target(r, answer) \in Versions \cup {Nothing}
    <3>1. ASSUME NEW r \in done(answer)
          PROVE  target(r, answer) \in Versions \cup {Nothing}
      <4>1. updates[r] \in UpdateRow BY <2>3 DEF IInv, TypeOK
      <4> QED BY <4>1, IngestAssumption DEF UpdateRow
    <3> QED BY <3>1
  <2>5. found \subseteq Completion /\ \A w \in found : updates[w.request] # Nothing
    <3> HIDE DEF done, target
    <3> QED BY <2>3, <2>4 DEF Completion
  <2> HIDE DEF found
  <2>6. found \in SUBSET Finding BY <2>5 DEF Finding
  <2>7. "complete" \in Working /\ StageOf("complete") = StageOf(call.at)
    BY <2>2 DEF Working, StageOf
  <2>8. GoesOn(call, after) /\ after.found = found BY <1>w, <1>c, <2>5, <2>6, <2>7, InStage
  <2>9. Listed(after) BY <2>5, <2>8 DEF Listed
  <2>10. Becomes(c, After(c, "reconcile")) \/ Becomes(c, after) BY <2>1 DEF found, InStep
  <2> QED BY <1>w, <1>a, <1>n, <2>8, <2>9, <2>10
<1>8. CASE CompleteUpdate(c)
  <2>1. call.at = "complete" BY <1>8 DEF CompleteUpdate
  <2>2. PICK w \in call.found :
          \/ Becomes(c, After(c, "reconcile"))
          \/ Becomes(c, [call EXCEPT !.found = @ \ {w}])
    BY <1>8 DEF CompleteUpdate
  <2> DEFINE found == call.found \ {w}
             r == InStep(call, "complete", found)
  <2>3. found \subseteq Completion /\ found \in SUBSET Finding
    BY <1>c, <1>y, <2>1 DEF CallRight
  <2>4. \A x \in found : updates[x.request] # Nothing
    <3>1. call # Idle BY <1>c, NotIdle
    <3> QED BY <2>1, <3>1 DEF IInv, CallsRight
  <2> HIDE DEF found
  <2>5. "complete" \in Working BY DEF Working
  <2>6. GoesOn(call, r) /\ r.found = found BY <1>c, <2>1, <2>3, <2>5, InStage
  <2>7. Listed(r) BY <2>4, <2>6 DEF Listed
  <2>8. [call EXCEPT !.found = @ \ {w}] = r BY <1>y, <2>1, SameStep DEF found, InStep
  <2> QED BY <1>w, <1>a, <1>n, <2>2, <2>6, <2>7, <2>8
<1>9. CASE ListDownlink(c)
  <2> DEFINE found == {[create |-> downlinks[EntryOf(c).downlink[1]] = Nothing]}
             r == InStep(call, "downlinkWrite", found)
  <2>1. call.at = "downlink" /\ Becomes(c, r) BY <1>9 DEF ListDownlink, InStep
  <2>2. found \in SUBSET Finding BY DEF Finding, DownlinkWrite
  <2> HIDE DEF found
  <2>3. "downlinkWrite" \in Working /\ StageOf("downlinkWrite") = StageOf(call.at)
    BY <2>1 DEF Working, StageOf
  <2>4. GoesOn(call, r) /\ r.at = "downlinkWrite" BY <1>w, <1>c, <2>2, <2>3, InStage
  <2>5. Listed(r) BY <2>4 DEF Listed
  <2> QED BY <1>w, <2>1, <2>4, <2>5
<1>10. CASE WriteDownlink(c)
  <2>1. \/ Becomes(c, [call EXCEPT !.at = "error"]) \/ Becomes(c, After(c, "downlink"))
    BY <1>10 DEF WriteDownlink, Goes
  <2> QED BY <1>w, <1>a, <1>e, <1>n, <2>1
<1> QED BY <1>1, <1>2, <1>3, <1>4, <1>5, <1>6, <1>7, <1>8, <1>9, <1>10

\* ------------------------------------------------------------- steps of the whole

\* The steps of calls by what they do to the tables.
Reads(c) == \/ LookupPublisher(c) \/ Lookup(c) \/ ListAlarms(c) \/ ListUpdate(c)
            \/ ListPending(c) \/ ListDownlink(c)
RowSteps(c) == Update(c) \/ Create(c) \/ UpdateAgain(c)
Writes(c) == \/ Store(c) \/ Locate(c) \/ RowSteps(c) \/ WriteAlarm(c) \/ WriteUpdate(c)
             \/ CompleteUpdate(c) \/ WriteDownlink(c)

LEMMA ReadsOnly ==
  ASSUME NEW c, Reads(c) \/ Fault(c)
  PROVE  UNCHANGED <<devices, deleted, clock, points, tables>>
<1>1. CASE LookupPublisher(c) BY <1>1 DEF LookupPublisher
<1>2. CASE Lookup(c) BY <1>2 DEF Lookup
<1>3. CASE ListAlarms(c) BY <1>3 DEF ListAlarms
<1>4. CASE ListUpdate(c) BY <1>4 DEF ListUpdate
<1>5. CASE ListPending(c) BY <1>5 DEF ListPending
<1>6. CASE ListDownlink(c) BY <1>6 DEF ListDownlink
<1>7. CASE Fault(c) BY <1>7 DEF Fault
<1> QED BY <1>1, <1>2, <1>3, <1>4, <1>5, <1>6, <1>7 DEF Reads

\* Which step writes which table.
LEMMA Writers ==
  ASSUME NEW c, Writes(c)
  PROVE  /\ UNCHANGED <<deleted, faults>>
         /\ UNCHANGED devices \/ Locate(c)
         /\ UNCHANGED <<clock, points>> \/ Store(c)
         /\ UNCHANGED latest \/ RowSteps(c)
         /\ UNCHANGED alarms \/ WriteAlarm(c)
         /\ UNCHANGED updates \/ WriteUpdate(c) \/ CompleteUpdate(c)
         /\ UNCHANGED downlinks \/ WriteDownlink(c)
<1>1. CASE Store(c) BY <1>1 DEF Store, tables
<1>2. CASE Locate(c) BY <1>2 DEF Locate, tables
<1>3. CASE RowSteps(c)
  <2>1. CASE Update(c) BY <1>3, <2>1 DEF Update
  <2>2. CASE Create(c) BY <1>3, <2>2 DEF Create
  <2>3. CASE UpdateAgain(c) BY <1>3, <2>3 DEF UpdateAgain
  <2> QED BY <1>3, <2>1, <2>2, <2>3 DEF RowSteps
<1>4. CASE WriteAlarm(c) BY <1>4 DEF WriteAlarm
<1>5. CASE WriteUpdate(c) BY <1>5 DEF WriteUpdate
<1>6. CASE CompleteUpdate(c) BY <1>6 DEF CompleteUpdate
<1>7. CASE WriteDownlink(c) BY <1>7 DEF WriteDownlink
<1> QED BY <1>1, <1>2, <1>3, <1>4, <1>5, <1>6, <1>7 DEF Writes

\* Owners, and the event of a deleted device, touch no call.
Outside ==
  \/ \E d \in Devices, version \in Versions : ReportFirmware(d, version)
  \/ \E d \in Devices : Delete(d)
  \/ \E d \in deleted : RemoveLatest(d)

LEMMA StepKinds ==
  ASSUME [Next]_vars
  PROVE  \/ \E c \in Calls : Call(c) \/ Reads(c) \/ Writes(c) \/ Fault(c)
         \/ Outside
         \/ UNCHANGED vars
BY DEF Next, Proceed, Reads, Writes, RowSteps, Outside

LEMMA CalledRight ==
  ASSUME NEW p \in Publishes
  PROVE  CallRight(Called(p[1], p[2])) /\ Called(p[1], p[2]).at = "device"
<1> DEFINE r == Called(p[1], p[2])
<1>1. p[1] \in Devices /\ p[2] \in Seq(Entry) /\ Len(p[2]) \in 1..16 BY IngestAssumption
<1>2. [k \in DOMAIN p[2] |-> Nothing] \in Seq(Versions \cup {Nothing})
      /\ Len([k \in DOMAIN p[2] |-> Nothing]) = Len(p[2])
  BY <1>1
<1> DEFINE firmware == [k \in DOMAIN p[2] |-> Nothing]
<1>3. firmware \in Seq(Versions \cup {Nothing}) /\ Len(firmware) = Len(p[2]) BY <1>2
<1>4. r.at = "device" /\ r.batch = p[2] /\ r.firmware = firmware /\ r.entry = 0 BY DEF Called
<1>5. r \in CallType BY <1>1, <1>3, StepsRight DEF Called, CallType
<1> HIDE DEF r, firmware
<1>6. CallRight(r) BY <1>1, <1>3, <1>4, <1>5 DEF CallRight, Working, StageNames
<1> QED BY <1>4, <1>6 DEF r

\* A call starts, or goes on, or nothing of it changes.
LEMMA CallSteps ==
  ASSUME IInv, [Next]_vars
  PROVE  /\ DOMAIN calls' = Calls
         /\ \A c \in Calls :
              \/ calls'[c] = calls[c]
              \/ calls[c] = Idle /\ \E p \in Publishes : calls'[c] = Called(p[1], p[2])
              \/ calls[c] # Idle /\ GoesOn(calls[c], calls'[c]) /\ Listed(calls'[c])
<1>d. DOMAIN calls = Calls BY DEF IInv, TypeOK
<1>b. ASSUME NEW c \in Calls, NEW r, Becomes(c, r)
      PROVE  /\ DOMAIN calls' = Calls /\ calls'[c] = r
             /\ \A b \in Calls \ {c} : calls'[b] = calls[b]
  BY <1>b, <1>d DEF Becomes
<1>1. ASSUME NEW c \in Calls, Call(c)
      PROVE  /\ DOMAIN calls' = Calls
             /\ \A b \in Calls \ {c} : calls'[b] = calls[b]
             /\ calls[c] = Idle /\ \E p \in Publishes : calls'[c] = Called(p[1], p[2])
  BY <1>1, <1>b DEF Call
<1>2. ASSUME NEW c \in Calls, Reads(c) \/ Writes(c)
      PROVE  /\ DOMAIN calls' = Calls
             /\ \A b \in Calls \ {c} : calls'[b] = calls[b]
             /\ calls[c] # Idle /\ GoesOn(calls[c], calls'[c]) /\ Listed(calls'[c])
  <2>1. /\ calls[c].at # "idle"
        /\ \E r : Becomes(c, r) /\ GoesOn(calls[c], r) /\ Listed(r)
    <3>1. CASE LookupPublisher(c) \/ Lookup(c) \/ Store(c)
      <4>1. calls[c].at # "idle" BY <3>1 DEF LookupPublisher, Lookup, Store
      <4> QED BY <3>1, <4>1, BeforeWrites DEF Listed
    <3>2. CASE ~(LookupPublisher(c) \/ Lookup(c) \/ Store(c))
      <4>1. calls[c].at \in Working
            /\ \E r : Becomes(c, r) /\ GoesOn(calls[c], r) /\ Listed(r)
        BY <1>2, <3>2, WhileWorking DEF Reads, Writes, RowSteps
      <4> QED BY <4>1 DEF Working, StageNames
    <3> QED BY <3>1, <3>2
  <2>2. calls[c] # Idle BY <2>1, CallOf
  <2> QED BY <1>b, <2>1, <2>2
<1>3. ASSUME NEW c \in Calls, Fault(c)
      PROVE  /\ DOMAIN calls' = Calls
             /\ \A b \in Calls \ {c} : calls'[b] = calls[b]
             /\ calls[c] # Idle /\ GoesOn(calls[c], calls'[c]) /\ Listed(calls'[c])
  <2>1. calls[c] # Idle /\ Becomes(c, [calls[c] EXCEPT !.at = "error"])
    BY <1>3 DEF Fault, Open, AfterFault
  <2>2. CallRight(calls[c]) /\ calls[c] \in CallType
    BY <2>1 DEF IInv, CallsRight, CallRight
  <2>3. GoesOn(calls[c], [calls[c] EXCEPT !.at = "error"]) BY <2>2, EndsRight
  <2>4. [calls[c] EXCEPT !.at = "error"].at = "error" BY <2>2 DEF CallType
  <2> QED BY <1>b, <2>1, <2>3, <2>4 DEF Listed
<1>4. CASE Outside \/ UNCHANGED vars
  <2>1. calls' = calls BY <1>4 DEF Outside, ReportFirmware, Delete, RemoveLatest, vars
  <2> QED BY <1>d, <2>1
<1> QED BY <1>1, <1>2, <1>3, <1>4, StepKinds

\* A call whose record changes has taken the step itself.
LEMMA OwnStep ==
  ASSUME IInv, [Next]_vars, NEW c \in Calls, calls'[c] # calls[c]
  PROVE  Call(c) \/ Reads(c) \/ Writes(c) \/ Fault(c)
<1>1. ASSUME NEW b \in Calls \ {c}, NEW r, Becomes(b, r) PROVE FALSE
  BY <1>1 DEF Becomes, IInv, TypeOK
<1>2. ASSUME NEW b \in Calls \ {c}, Call(b) \/ Reads(b) \/ Writes(b) \/ Fault(b) PROVE FALSE
  <2>1. \E r : Becomes(b, r)
    <3>1. CASE Call(b) BY <3>1 DEF Call
    <3>2. CASE Fault(b) BY <3>2 DEF Fault
    <3>3. CASE LookupPublisher(b) \/ Lookup(b) \/ Store(b) BY <3>3, BeforeWrites
    <3>4. CASE (Reads(b) \/ Writes(b)) /\ ~(LookupPublisher(b) \/ Lookup(b) \/ Store(b))
      BY <3>4, WhileWorking DEF Reads, Writes, RowSteps
    <3> QED BY <1>2, <3>1, <3>2, <3>3, <3>4
  <2> QED BY <1>1, <2>1
<1>3. CASE Outside \/ UNCHANGED vars
  BY <1>3 DEF Outside, ReportFirmware, Delete, RemoveLatest, vars
<1> QED BY <1>2, <1>3, StepKinds

LEMMA BecomesIt ==
  ASSUME IInv, NEW c \in Calls, NEW r, Becomes(c, r)
  PROVE  calls'[c] = r
BY DEF Becomes, IInv, TypeOK

\* Where a call gets before it stores anything.
LEMMA LookupSteps ==
  ASSUME IInv, NEW c \in Calls, LookupPublisher(c) \/ Lookup(c)
  PROVE  calls'[c].at \in {"refused", "lookup", "store"}
<1>1. calls[c] \in CallType
  <2>1. calls[c].at # "idle" BY DEF LookupPublisher, Lookup
  <2> QED BY <2>1, CallOf DEF CallRight
<1>2. CASE LookupPublisher(c)
  <2>1. \/ calls'[c] = [calls[c] EXCEPT !.at = "refused"]
        \/ calls'[c] = [calls[c] EXCEPT !.at = "lookup",
                                       !.own = devices[calls[c].publisher].firmware]
    BY <1>2, BecomesIt DEF LookupPublisher
  <2> QED BY <1>1, <2>1 DEF CallType
<1>3. CASE Lookup(c)
  <2> DEFINE next == [calls[c] EXCEPT !.entry = @ + 1]
             client == next.batch[next.entry].client
             own == client = next.publisher
             version == IF own THEN next.own ELSE devices[client].firmware
             known == [next EXCEPT !.firmware[next.entry] = version]
  <2>1. calls[c].at = "lookup" BY <1>3 DEF Lookup
  <2>2. \/ Becomes(c, [known EXCEPT !.at = "store"]) \/ Becomes(c, known)
        \/ Becomes(c, [calls[c] EXCEPT !.at = "refused"])
    BY <1>3 DEF Lookup, Goes
  <2>3. known.at = "lookup" /\ [known EXCEPT !.at = "store"].at = "store"
        /\ [calls[c] EXCEPT !.at = "refused"].at = "refused"
    BY <1>1, <2>1 DEF CallType
  <2> HIDE DEF known
  <2> QED BY <2>2, <2>3, BecomesIt
<1> QED BY <1>2, <1>3

\* What a step writes has its type; the row of an update is never removed.
LEMMA WorkingEntry ==
  ASSUME IInv, NEW c \in Calls, calls[c].at \in Working
  PROVE  /\ CallRight(calls[c]) /\ calls[c] \in CallType /\ calls[c] # Idle
         /\ calls[c].entry \in 1..Len(calls[c].batch)
         /\ EntryOf(c) \in Entry /\ TargetOf(c) \in Devices
         /\ Needed(calls[c], calls[c].entry, StageOf(calls[c].at))
<1>1. calls[c].at # "idle" BY DEF Working, StageNames
<1>2. CallRight(calls[c]) /\ calls[c] # Idle BY <1>1, CallOf
<1>3. calls[c] \in CallType /\ calls[c].entry \in 1..Len(calls[c].batch)
      /\ Needed(calls[c], calls[c].entry, StageOf(calls[c].at))
  BY <1>2 DEF CallRight
<1>4. calls[c].batch \in Seq(Entry) BY <1>3 DEF CallType
<1>5. EntryOf(c) \in Entry BY <1>3, <1>4 DEF EntryOf
<1> QED BY <1>2, <1>3, <1>5 DEF TargetOf, Entry

LEMMA RowWritten ==
  ASSUME IInv, NEW c \in Calls, RowSteps(c)
  PROVE  \/ UNCHANGED latest
         \/ latest' = [latest EXCEPT ![TargetOf(c)] = RowOf(c, latest[TargetOf(c)])]
<1> latest \in [Devices -> Row \cup {Nothing}] BY DEF IInv, TypeOK
<1>1. PutRow(c) \/ UNCHANGED latest BY DEF RowSteps, Update, Create, UpdateAgain
<1> QED BY <1>1 DEF PutRow

LEMMA TableTypes ==
  ASSUME IInv, [Next]_vars
  PROVE  /\ devices' \in [Devices -> Device \cup {Nothing}]
         /\ deleted' \subseteq Devices
         /\ clock' \in Nat
         /\ latest' \in [Devices -> Row \cup {Nothing}]
         /\ alarms' \in [AlarmKeys -> AlarmRow \cup {Nothing}]
         /\ downlinks' \in [DownRequests ->
                               [device : Devices, status : DownStatuses] \cup {Nothing}]
         /\ faults' \in Nat
<1> DEFINE Typed == /\ devices' \in [Devices -> Device \cup {Nothing}]
                    /\ deleted' \subseteq Devices
                    /\ clock' \in Nat
                    /\ latest' \in [Devices -> Row \cup {Nothing}]
                    /\ alarms' \in [AlarmKeys -> AlarmRow \cup {Nothing}]
                    /\ downlinks' \in [DownRequests ->
                                          [device : Devices, status : DownStatuses] \cup {Nothing}]
                    /\ faults' \in Nat
<1>t. TypeOK BY DEF IInv
<1>1. ASSUME NEW c \in Calls, Call(c) PROVE Typed
  BY <1>t, <1>1 DEF Call, TypeOK, tables
<1>2. ASSUME NEW c \in Calls, Reads(c) \/ Fault(c) PROVE Typed
  <2>1. UNCHANGED <<devices, deleted, clock, points, tables>> BY <1>2, ReadsOnly
  <2>2. faults' \in {faults, faults + 1}
    BY <1>2 DEF Reads, LookupPublisher, Lookup, ListAlarms, ListUpdate, ListPending,
                ListDownlink, Fault
  <2> QED BY <1>t, <2>1, <2>2 DEF TypeOK, tables
<1>3. ASSUME NEW c \in Calls, Writes(c) PROVE Typed
  <2>w. ASSUME calls[c].at \in Working
        PROVE  EntryOf(c) \in Entry /\ TargetOf(c) \in Devices
    BY <2>w, WorkingEntry
  <2>1. ASSUME Locate(c) PROVE devices' \in [Devices -> Device \cup {Nothing}]
    <3>1. EntryOf(c) \in Entry /\ TargetOf(c) \in Devices
      BY <2>1, <2>w DEF Locate, Working, StageNames
    <3>2. EntryOf(c).place \in Places \cup {Nothing} BY <3>1 DEF Entry
    <3>3. \/ UNCHANGED devices
          \/ devices[TargetOf(c)] # Nothing
             /\ devices' = [devices EXCEPT ![TargetOf(c)].place = EntryOf(c).place]
      BY <2>1 DEF Locate
    <3> QED BY <1>t, <3>1, <3>2, <3>3 DEF TypeOK, Device
  <2>2. ASSUME Store(c) PROVE clock' \in Nat BY <1>t, <2>2 DEF Store, TypeOK
  <2>3. ASSUME RowSteps(c) PROVE latest' \in [Devices -> Row \cup {Nothing}]
    <3>1. calls[c].at \in Working
      BY <2>3 DEF RowSteps, Update, Create, UpdateAgain, Working, StageNames
    <3>2. calls[c] \in CallType /\ EntryOf(c) \in Entry /\ TargetOf(c) \in Devices
      BY <3>1, WorkingEntry
    <3>3. RowOf(c, latest[TargetOf(c)]) \in Row
      BY <1>t, <3>2, IngestAssumption DEF RowOf, Row, TypeOK, CallType, Entry
    <3> QED BY <1>t, <2>3, <3>2, <3>3, RowWritten DEF TypeOK
  <2>4. ASSUME WriteAlarm(c)
        PROVE alarms' \in [AlarmKeys -> AlarmRow \cup {Nothing}]
    <3>1. calls[c].at = "alarm" /\ calls[c].at \in Working BY <2>4 DEF WriteAlarm, Working
    <3>2. EntryOf(c) \in Entry /\ EntryOf(c).place # Nothing /\ calls[c].found \subseteq AlarmWrite
      BY <3>1, WorkingEntry DEF CallRight, Needed, StageOf, EntryOf
    <3>3. EntryOf(c).place \in Places BY <3>2 DEF Entry
    <3>4. PICK w \in calls[c].found :
            UNCHANGED alarms \/ alarms' = [alarms EXCEPT ![w.key] = AlarmOf(c, w)]
      BY <2>4 DEF WriteAlarm
    <3>5. w.key \in AlarmKeys /\ w.active \in BOOLEAN BY <3>2 DEF AlarmWrite
    <3>6. AlarmOf(c, w) \in AlarmRow
      BY <3>3, <3>5 DEF AlarmOf, AlarmRow
    <3> QED BY <1>t, <3>4, <3>5, <3>6 DEF TypeOK
  <2>5. ASSUME WriteDownlink(c)
        PROVE downlinks' \in [DownRequests ->
                                [device : Devices, status : DownStatuses] \cup {Nothing}]
    <3>1. calls[c].at = "downlinkWrite" /\ calls[c].at \in Working
      BY <2>5 DEF WriteDownlink, Working
    <3>2. EntryOf(c) \in Entry /\ TargetOf(c) \in Devices /\ EntryOf(c).downlink # Nothing
      BY <3>1, WorkingEntry DEF Needed, StageOf, EntryOf
    <3>3. EntryOf(c).downlink[1] \in DownRequests /\ EntryOf(c).downlink[2] \in DownStatuses
      BY <3>2 DEF Entry
    <3>4. \/ UNCHANGED downlinks
          \/ downlinks' = [downlinks EXCEPT ![EntryOf(c).downlink[1]] =
                             [device |-> TargetOf(c), status |-> EntryOf(c).downlink[2]]]
      BY <2>5 DEF WriteDownlink
    <3> QED BY <1>t, <3>2, <3>3, <3>4 DEF TypeOK
  <2> QED BY <1>t, <1>3, <2>1, <2>2, <2>3, <2>4, <2>5, Writers DEF TypeOK
<1>4. CASE Outside
  <2>1. ASSUME NEW d \in Devices, NEW version \in Versions, ReportFirmware(d, version)
        PROVE  Typed
    BY <1>t, <2>1 DEF ReportFirmware, TypeOK, Device, tables
  <2>2. ASSUME NEW d \in Devices, Delete(d) PROVE Typed
    BY <1>t, <2>2 DEF Delete, TypeOK, tables
  <2>3. ASSUME NEW d \in deleted, RemoveLatest(d) PROVE Typed
    BY <1>t, <2>3 DEF RemoveLatest, TypeOK
  <2> QED BY <1>4, <2>1, <2>2, <2>3 DEF Outside
<1>5. CASE UNCHANGED vars BY <1>t, <1>5 DEF TypeOK, vars, tables
<1> QED BY <1>1, <1>2, <1>3, <1>4, <1>5, StepKinds

LEMMA UpdateRowsStay ==
  ASSUME IInv, [Next]_vars
  PROVE  /\ updates' \in [OtaRequests -> UpdateRow \cup {Nothing}]
         /\ \A r \in OtaRequests : updates[r] # Nothing => updates'[r] # Nothing
<1> DEFINE Stay == /\ updates' \in [OtaRequests -> UpdateRow \cup {Nothing}]
                   /\ \A r \in OtaRequests : updates[r] # Nothing => updates'[r] # Nothing
<1>t. updates \in [OtaRequests -> UpdateRow \cup {Nothing}] BY DEF IInv, TypeOK
<1>1. CASE UNCHANGED updates BY <1>t, <1>1
<1>2. ASSUME NEW c \in Calls, WriteUpdate(c) PROVE Stay
  <2>1. calls[c].at = "otaWrite" /\ calls[c].at \in Working BY <1>2 DEF WriteUpdate, Working
  <2>2. EntryOf(c) \in Entry /\ TargetOf(c) \in Devices /\ EntryOf(c).ota # Nothing
        /\ \E w \in UpdateWrite : calls[c].found = {w}
    BY <2>1, WorkingEntry DEF Needed, StageOf, EntryOf, CallRight
  <2>3. EntryOf(c).ota[1] \in OtaRequests /\ EntryOf(c).ota[2] \in OtaStatuses
    BY <2>2 DEF Entry
  <2> DEFINE row == CHOOSE w \in calls[c].found : TRUE
             new == [device |-> TargetOf(c), status |-> EntryOf(c).ota[2], target |-> row.target]
  <2>4. row \in UpdateWrite BY <2>2
  <2>5. UNCHANGED updates \/ updates' = [updates EXCEPT ![EntryOf(c).ota[1]] = new]
    BY <1>2 DEF WriteUpdate
  <2> HIDE DEF row
  <2>6. new \in UpdateRow BY <2>2, <2>3, <2>4 DEF UpdateRow, UpdateWrite
  <2>7. new # Nothing BY <2>6, IngestAssumption
  <2> HIDE DEF new
  <2> QED BY <1>t, <2>3, <2>5, <2>6, <2>7
<1>3. ASSUME NEW c \in Calls, CompleteUpdate(c) PROVE Stay
  <2>1. calls[c].at = "complete" /\ calls[c].at \in Working BY <1>3 DEF CompleteUpdate, Working
  <2>2. calls[c] # Idle /\ calls[c].found \subseteq Completion
    BY <2>1, WorkingEntry DEF CallRight
  <2>3. PICK w \in calls[c].found :
          updates' = [updates EXCEPT ![w.request].status = "succeeded",
                                     ![w.request].target = w.target]
    BY <1>3 DEF CompleteUpdate
  <2>4. w.request \in OtaRequests /\ w.target \in Versions \cup {Nothing}
    BY <2>2 DEF Completion
  <2>5. updates[w.request] \in UpdateRow
    BY <1>t, <2>1, <2>2, <2>4 DEF IInv, CallsRight
  <2> DEFINE new == [[updates[w.request] EXCEPT !.status = "succeeded"] EXCEPT !.target = w.target]
  <2>6. new \in UpdateRow BY <2>4, <2>5 DEF UpdateRow, OtaStatuses
  <2>7. updates' = [updates EXCEPT ![w.request] = new] BY <1>t, <2>3, <2>4
  <2>8. new # Nothing BY <2>6, IngestAssumption
  <2> HIDE DEF new
  <2> QED BY <1>t, <2>4, <2>6, <2>7, <2>8
<1>4. ASSUME NEW c \in Calls, Call(c) \/ Reads(c) \/ Fault(c) PROVE UNCHANGED updates
  BY <1>4, ReadsOnly DEF Call, tables
<1>5. CASE Outside \/ UNCHANGED vars
  BY <1>1, <1>5 DEF Outside, ReportFirmware, Delete, RemoveLatest, vars, tables
<1> QED BY <1>1, <1>2, <1>3, <1>4, <1>5, StepKinds, Writers

\* ---------------------------------------------------------------- the time series

\* Two readings share a point only if they have time and position in common.
LEMMA TimestampsDiffer ==
  ASSUME NEW s \in Nat, NEW t \in Nat, NEW k \in 1..16, NEW l \in 1..16,
         Timestamp(s, k) = Timestamp(t, l)
  PROVE  s = t /\ k = l
BY DEF Timestamp

\* What storing a batch does: each reading has its point, other points stay.
LEMMA StoreRight ==
  ASSUME IInv, NEW c \in Calls, Store(c)
  PROVE  /\ calls[c].at = "store" /\ CallRight(calls[c]) /\ calls[c] # Idle
         /\ calls'[c].receivedAt = clock' /\ clock' \in Nat
         /\ calls'[c].batch = calls[c].batch
         /\ calls'[c].at \in StageNames \cup {"accepted"}
         /\ DOMAIN points \subseteq DOMAIN points'
         /\ \A k \in DOMAIN calls[c].batch :
              /\ <<calls[c].batch[k].client, Timestamp(clock', k)>> \in DOMAIN points'
              /\ points'[<<calls[c].batch[k].client, Timestamp(clock', k)>>] = <<c, k>>
         /\ \A x \in DOMAIN points' :
              \/ x \in DOMAIN points /\ points'[x] = points[x]
              \/ \E k \in DOMAIN calls[c].batch :
                   /\ x = <<calls[c].batch[k].client, Timestamp(clock', k)>>
                   /\ points'[x] = <<c, k>>
<1> DEFINE call == calls[c]
           batch == call.batch
           now == clock'
           key(k) == <<batch[k].client, Timestamp(now, k)>>
           last(x) == CHOOSE k \in DOMAIN batch :
                        key(k) = x /\ \A l \in DOMAIN batch : key(l) = x => l <= k
           keys == {key(k) : k \in DOMAIN batch}
           stamped == [call EXCEPT !.receivedAt = now]
<1>1. call.at = "store" /\ now \in clock..clock + 1
      /\ points' = [x \in DOMAIN points \cup keys |->
                      IF x \in keys THEN <<c, last(x)>> ELSE points[x]]
      /\ Becomes(c, WithEntry(stamped, 1))
  BY DEF Store
<1>2. CallRight(call) /\ call # Idle BY <1>1, CallOf
<1>3. now \in Nat BY <1>1 DEF IInv, TypeOK
<1>4. call \in CallType /\ Len(batch) \in 1..16 /\ Len(call.firmware) = Len(batch)
      /\ \A k \in 1..Len(batch) : Allowed(call, k)
  BY <1>1, <1>2 DEF CallRight
<1>5. batch \in Seq(Entry) /\ DOMAIN batch = 1..Len(batch) /\ DOMAIN batch \subseteq 1..16
  <2>1. batch \in Seq(Entry) BY <1>4 DEF CallType
  <2>2. Len(batch) \in 1..16 BY <1>4
  <2> HIDE DEF batch
  <2>3. DOMAIN batch = 1..Len(batch) BY <2>1
  <2>4. DOMAIN batch \subseteq 1..16 BY <2>2, <2>3
  <2> QED BY <2>1, <2>3, <2>4
<1>6. calls'[c].receivedAt = now /\ calls'[c].batch = batch
      /\ calls'[c].at \in StageNames \cup {"accepted"}
  <2>1. stamped \in CallType /\ stamped.batch = batch /\ stamped.firmware = call.firmware
        /\ stamped.receivedAt = now /\ stamped.publisher = call.publisher
    BY <1>3, <1>4 DEF CallType
  <2> HIDE DEF stamped
  <2>2. \A k \in 1..Len(stamped.batch) : Allowed(stamped, k) BY <1>4, <2>1 DEF Allowed
  <2>3. StageReached(stamped, WithEntry(stamped, 1)) BY <1>4, <2>1, <2>2, WithEntryRight
  <2>4. calls'[c] = WithEntry(stamped, 1) BY <1>1 DEF Becomes, IInv, TypeOK
  <2> QED BY <2>1, <2>3, <2>4 DEF StageReached, Same
<1>7. ASSUME NEW k \in DOMAIN batch, NEW l \in DOMAIN batch, key(k) = key(l) PROVE k = l
  BY <1>3, <1>5, <1>7, TimestampsDiffer
<1>8. ASSUME NEW k \in DOMAIN batch PROVE last(key(k)) = k
  <2>1. key(k) = key(k) /\ \A l \in DOMAIN batch : key(l) = key(k) => l <= k
    BY <1>5, <1>7
  <2>2. last(key(k)) \in DOMAIN batch /\ key(last(key(k))) = key(k)
    <3> HIDE DEF key, batch
    <3> QED BY <2>1
  <2> HIDE DEF key, last
  <2> QED BY <1>7, <2>2
<1> HIDE DEF last, key, batch, now
<1>9. \A k \in DOMAIN batch : key(k) \in DOMAIN points' /\ points'[key(k)] = <<c, k>>
  BY <1>1, <1>8
<1>10. DOMAIN points \subseteq DOMAIN points' BY <1>1
<1>11. ASSUME NEW x \in DOMAIN points'
       PROVE  \/ x \in DOMAIN points /\ points'[x] = points[x]
              \/ \E k \in DOMAIN batch : x = key(k) /\ points'[x] = <<c, k>>
  <2>1. CASE x \in keys BY <1>9, <2>1
  <2>2. CASE x \notin keys BY <1>1, <2>2
  <2> QED BY <2>1, <2>2
<1> QED BY <1>1, <1>2, <1>3, <1>6, <1>9, <1>10, <1>11 DEF key, batch, now

LEMMA PointsOnlyStored ==
  ASSUME IInv, [Next]_vars
  PROVE  UNCHANGED points \/ \E c \in Calls : Store(c)
<1>1. ASSUME NEW c \in Calls, Call(c) \/ Reads(c) \/ Fault(c) PROVE UNCHANGED points
  BY <1>1, ReadsOnly DEF Call
<1>2. CASE Outside \/ UNCHANGED vars
  BY <1>2 DEF Outside, ReportFirmware, Delete, RemoveLatest, vars
<1> QED BY <1>1, <1>2, StepKinds, Writers

\* ------------------------------------------------------------- the type theorem

LEMMA IngestInit == Init => IInv
<1> SUFFICES ASSUME Init PROVE IInv OBVIOUS
<1>1. \A c \in Calls : calls[c] = Idle BY DEF Init
<1>2. CallsRight BY <1>1 DEF CallsRight
<1>3. devices \in [Devices -> Device \cup {Nothing}] BY DEF Init, Device
<1>4. DOMAIN points = {} BY DEF Init
<1>5. TypeOK BY <1>1, <1>3, <1>4 DEF Init, TypeOK
<1> QED BY <1>2, <1>5 DEF IInv

LEMMA IngestStep == IInv /\ [Next]_vars => IInv'
<1> SUFFICES ASSUME IInv, [Next]_vars PROVE IInv' OBVIOUS
<1>1. DOMAIN calls' = Calls BY CallSteps
<1>2. ASSUME NEW c \in Calls, calls'[c] # Idle
      PROVE  /\ CallRight(calls'[c])
             /\ calls'[c].at = "complete" =>
                  \A w \in calls'[c].found : updates'[w.request] # Nothing
  <2>1. CallRight(calls'[c]) /\ Listed(calls'[c])
    <3>1. CASE calls'[c] = calls[c]
      BY <1>2, <3>1 DEF IInv, CallsRight, Listed
    <3>2. CASE \E p \in Publishes : calls'[c] = Called(p[1], p[2])
      BY <3>2, CalledRight DEF Listed
    <3>3. CASE GoesOn(calls[c], calls'[c]) /\ Listed(calls'[c])
      BY <3>3 DEF GoesOn
    <3> QED BY <3>1, <3>2, <3>3, CallSteps
  <2>2. ASSUME calls'[c].at = "complete", NEW w \in calls'[c].found
        PROVE  updates'[w.request] # Nothing
    <3>1. calls'[c].found \subseteq Completion BY <2>1, <2>2 DEF CallRight
    <3>2. w.request \in OtaRequests BY <2>2, <3>1 DEF Completion
    <3> QED BY <2>1, <2>2, <3>2, UpdateRowsStay DEF Listed
  <2> QED BY <2>1, <2>2
<1>3. DOMAIN points' \subseteq Devices \X Nat
      /\ \A x \in DOMAIN points' : points'[x] \in Calls \X Nat
  <2>t. DOMAIN points \subseteq Devices \X Nat
        /\ \A x \in DOMAIN points : points[x] \in Calls \X Nat
    BY DEF IInv, TypeOK
  <2>1. ASSUME NEW c \in Calls, Store(c), NEW x \in DOMAIN points'
        PROVE  x \in Devices \X Nat /\ points'[x] \in Calls \X Nat
    <3>1. calls[c].batch \in Seq(Entry) /\ DOMAIN calls[c].batch \subseteq Nat \ {0}
          /\ clock' \in Nat
      <4>1. calls[c].batch \in Seq(Entry) /\ clock' \in Nat
        BY <2>1, StoreRight DEF CallRight, CallType
      <4> QED BY <4>1
    <3>2. ASSUME NEW k \in DOMAIN calls[c].batch
          PROVE  <<calls[c].batch[k].client, Timestamp(clock', k)>> \in Devices \X Nat
                 /\ <<c, k>> \in Calls \X Nat
      <4>1. calls[c].batch[k] \in Entry BY <3>1, <3>2
      <4>2. Timestamp(clock', k) \in Nat BY <3>1, <3>2 DEF Timestamp
      <4> QED BY <3>1, <4>1, <4>2 DEF Entry
    <3> QED BY <2>1, <2>t, <3>2, StoreRight
  <2> QED BY <2>t, <2>1, PointsOnlyStored
<1>4. TypeOK'
  <2>1. \A c \in Calls : calls'[c] # Idle =>
          /\ calls'[c] \in CallType
          /\ Len(calls'[c].batch) \in 1..16
          /\ Len(calls'[c].firmware) = Len(calls'[c].batch)
    BY <1>2 DEF CallRight
  <2> QED BY <1>1, <1>3, <2>1, TableTypes, UpdateRowsStay DEF TypeOK
<1>5. CallsRight' BY <1>2 DEF CallsRight
<1> QED BY <1>4, <1>5 DEF IInv

\* Every variable of the Function and its tables keeps its type.
THEOREM TypeCorrect == Spec => []TypeOK
<1>1. Init => IInv BY IngestInit
<1>2. IInv /\ [Next]_vars => IInv' BY IngestStep
<1>3. IInv => TypeOK BY DEF IInv
<1> QED BY <1>1, <1>2, <1>3, PTL DEF Spec

\* ------------------------------------------------------------- what was stored

\* A call past writeTimeseries, whose time no longer changes, and what became of
\* its readings: in the series, or written over by a call of the same time.
Settled(c) == calls[c] # Idle /\ calls[c].at \notin BeforeStore
Shared(c) == \E b \in Calls \ {c} : Settled(b) /\ calls[b].receivedAt = calls[c].receivedAt
KeptOrShared(c, k) == Kept(c, k) \/ Shared(c)

\* The call of a point may report all of its batch; a batch is stored as a whole
\* before anything else is written; a row shows a reading that was stored.
PointsRight ==
  \A x \in DOMAIN points :
    LET call == calls[points[x][1]]
    IN call # Idle /\ \A k \in DOMAIN call.batch : Allowed(call, k)
StoredFirst ==
  \A c \in Calls : calls[c].at \in Working \cup {"accepted"} =>
    \A k \in DOMAIN calls[c].batch : KeptOrShared(c, k)
Stored(c, k) == Settled(c) /\ k \in DOMAIN calls[c].batch /\ KeptOrShared(c, k)
RowsRight ==
  \A d \in Devices : latest[d] # Nothing =>
    \E c \in Calls, k \in Nat : latest[d].reading = <<c, k>> /\ Stored(c, k)
HistoryInv == IInv /\ PointsRight /\ StoredFirst /\ RowsRight

LEMMA SettledStays ==
  ASSUME IInv, [Next]_vars, NEW c \in Calls, Settled(c)
  PROVE  /\ Settled(c)' /\ calls'[c].batch = calls[c].batch
         /\ calls'[c].receivedAt = calls[c].receivedAt
<1>1. CASE calls'[c] = calls[c] BY <1>1 DEF Settled
<1>2. CASE GoesOn(calls[c], calls'[c])
  <2>1. calls'[c] # Idle BY <1>2, NotIdle DEF GoesOn
  <2> QED BY <1>2, <2>1 DEF GoesOn, Continues, Settled, BeforeStore
<1> QED BY <1>1, <1>2, CallSteps DEF Settled

LEMMA KeepsBatch ==
  ASSUME IInv, [Next]_vars, NEW c \in Calls, calls[c] # Idle
  PROVE  /\ calls'[c] # Idle /\ calls'[c].batch = calls[c].batch
         /\ calls'[c].publisher = calls[c].publisher
<1>1. CASE calls'[c] = calls[c] BY <1>1
<1>2. CASE GoesOn(calls[c], calls'[c])
  <2>1. calls'[c] # Idle BY <1>2, NotIdle DEF GoesOn
  <2> QED BY <1>2, <2>1 DEF GoesOn, Continues
<1> QED BY <1>1, <1>2, CallSteps

\* A stored reading stays, or a call of the same time has written over it.
LEMMA KeptOrSharedStays ==
  ASSUME IInv, [Next]_vars, NEW c \in Calls, Settled(c),
         NEW k \in DOMAIN calls[c].batch, KeptOrShared(c, k)
  PROVE  KeptOrShared(c, k)'
<1>1. /\ Settled(c)' /\ calls'[c].batch = calls[c].batch
      /\ calls'[c].receivedAt = calls[c].receivedAt
  BY SettledStays
<1>2. ASSUME Shared(c) PROVE Shared(c)'
  <2>1. PICK b \in Calls \ {c} : Settled(b) /\ calls[b].receivedAt = calls[c].receivedAt
    BY <1>2 DEF Shared
  <2>2. Settled(b)' /\ calls'[b].receivedAt = calls[b].receivedAt BY <2>1, SettledStays
  <2> QED BY <1>1, <2>1, <2>2 DEF Shared
<1>3. ASSUME Kept(c, k), UNCHANGED points PROVE Kept(c, k)'
  <2>1. PointOf(c, k)' = PointOf(c, k) BY <1>1 DEF PointOf
  <2> QED BY <1>3, <2>1 DEF Kept
<1>4. ASSUME Kept(c, k), NEW b \in Calls, Store(b) PROVE Kept(c, k)' \/ Shared(c)'
  <2>1. /\ b # c /\ calls'[b].receivedAt = clock' /\ clock' \in Nat
        /\ calls'[b].at \in StageNames \cup {"accepted"}
        /\ DOMAIN points \subseteq DOMAIN points' /\ calls[b].batch \in Seq(Entry)
        /\ Len(calls[b].batch) \in 1..16
    BY <1>4, StoreRight DEF Settled, BeforeStore, CallRight, CallType
  <2> DEFINE x == PointOf(c, k)
  <2>2. x \in DOMAIN points /\ points[x] = <<c, k>> /\ PointOf(c, k)' = x
    BY <1>1, <1>4 DEF Kept, PointOf
  <2>3. CASE points'[x] = points[x] BY <2>1, <2>2, <2>3 DEF Kept
  <2>4. CASE \E l \in DOMAIN calls[b].batch :
               x = <<calls[b].batch[l].client, Timestamp(clock', l)>>
    <3>1. PICK l \in DOMAIN calls[b].batch :
            x = <<calls[b].batch[l].client, Timestamp(clock', l)>>
      BY <2>4
    <3>2. Timestamp(calls[c].receivedAt, k) = Timestamp(clock', l) BY <3>1 DEF PointOf
    <3>3. l \in 1..16
      <4> DEFINE batch == calls[b].batch
      <4>1. batch \in Seq(Entry) /\ Len(batch) \in 1..16 /\ l \in DOMAIN batch BY <2>1, <3>1
      <4> HIDE DEF batch
      <4> QED BY <4>1
    <3>4. calls[c].receivedAt \in Nat /\ k \in 1..16
      <4> DEFINE batch == calls[c].batch
      <4>1. batch \in Seq(Entry) /\ Len(batch) \in 1..16 /\ k \in DOMAIN batch
            /\ calls[c].receivedAt \in Nat
        BY DEF IInv, TypeOK, Settled, CallType
      <4> HIDE DEF batch
      <4> QED BY <4>1
    <3>5. calls[c].receivedAt = clock'
      <4> DEFINE s == calls[c].receivedAt
                 t == clock'
      <4>1. s \in Nat /\ t \in Nat /\ Timestamp(s, k) = Timestamp(t, l) BY <2>1, <3>2, <3>4
      <4> HIDE DEF s, t
      <4>2. s = t BY <3>3, <3>4, <4>1, TimestampsDiffer
      <4> QED BY <4>2 DEF s, t
    <3>6. calls'[b] # Idle BY <1>4, <2>1, StoreRight, KeepsBatch
    <3>7. Settled(b)' BY <2>1, <3>6 DEF Settled, BeforeStore, StageNames
    <3> QED BY <1>1, <2>1, <3>5, <3>7 DEF Shared
  <2> QED BY <1>4, <2>1, <2>2, <2>3, <2>4, StoreRight
<1> QED BY <1>2, <1>3, <1>4, PointsOnlyStored DEF KeptOrShared

LEMMA PointsStep == HistoryInv /\ [Next]_vars => PointsRight'
<1> SUFFICES ASSUME HistoryInv, [Next]_vars, NEW x \in DOMAIN points'
             PROVE  LET call == calls'[points'[x][1]]
                    IN call # Idle /\ \A k \in DOMAIN call.batch : Allowed(call, k)
  BY DEF PointsRight, Allowed
<1>i. IInv BY DEF HistoryInv
<1>1. CASE x \in DOMAIN points /\ points'[x] = points[x]
  <2> DEFINE c == points[x][1]
  <2>1. c \in Calls BY <1>i, <1>1 DEF IInv, TypeOK
  <2>2. calls[c] # Idle /\ \A k \in DOMAIN calls[c].batch : Allowed(calls[c], k)
    BY <1>1 DEF HistoryInv, PointsRight
  <2>3. /\ calls'[c] # Idle /\ calls'[c].batch = calls[c].batch
        /\ calls'[c].publisher = calls[c].publisher
    BY <1>i, <2>1, <2>2, KeepsBatch
  <2> QED BY <1>1, <2>2, <2>3 DEF Allowed
<1>2. ASSUME NEW c \in Calls, Store(c), NEW k \in DOMAIN calls[c].batch, points'[x] = <<c, k>>
      PROVE  calls'[c] # Idle /\ \A l \in DOMAIN calls'[c].batch : Allowed(calls'[c], l)
  <2>1. calls[c].at = "store" /\ CallRight(calls[c]) /\ calls[c] # Idle BY <1>i, <1>2, StoreRight
  <2>2. calls[c].batch \in Seq(Entry) /\ \A l \in 1..Len(calls[c].batch) : Allowed(calls[c], l)
    BY <2>1 DEF CallRight, CallType
  <2>3. \A l \in DOMAIN calls[c].batch : Allowed(calls[c], l) BY <2>2
  <2>4. /\ calls'[c] # Idle /\ calls'[c].batch = calls[c].batch
        /\ calls'[c].publisher = calls[c].publisher
    BY <1>i, <2>1, KeepsBatch
  <2> QED BY <2>3, <2>4 DEF Allowed
<1>3. CASE UNCHANGED points BY <1>1, <1>3
<1>4. ASSUME NEW c \in Calls, Store(c)
      PROVE  \/ x \in DOMAIN points /\ points'[x] = points[x]
             \/ \E k \in DOMAIN calls[c].batch : points'[x] = <<c, k>>
  BY <1>i, <1>4, StoreRight
<1>5. CASE \E c \in Calls : Store(c)
  <2>1. PICK c \in Calls : Store(c) BY <1>5
  <2>2. CASE \E k \in DOMAIN calls[c].batch : points'[x] = <<c, k>>
    <3>1. PICK k \in DOMAIN calls[c].batch : points'[x] = <<c, k>> BY <2>2
    <3>2. points'[x][1] = c BY <3>1
    <3> QED BY <1>2, <2>1, <3>1, <3>2
  <2> QED BY <1>1, <1>4, <2>1, <2>2
<1> QED BY <1>i, <1>3, <1>5, PointsOnlyStored

LEMMA StoredFirstStep == HistoryInv /\ [Next]_vars => StoredFirst'
<1> SUFFICES ASSUME HistoryInv, [Next]_vars, NEW c \in Calls,
                    calls'[c].at \in Working \cup {"accepted"},
                    NEW k \in DOMAIN calls'[c].batch
             PROVE  KeptOrShared(c, k)'
  BY DEF StoredFirst
<1>i. IInv BY DEF HistoryInv
<1>n. calls'[c].at \notin {"idle", "refused", "error", "device", "lookup", "store"}
  BY DEF Working, StageNames
<1>1. CASE calls[c].at \in Working \cup {"accepted"}
  <2>1. calls[c].at \notin BeforeStore /\ calls[c].at # "idle"
    BY <1>1 DEF Working, StageNames, BeforeStore
  <2>2. Settled(c) BY <2>1, <1>i, CallOf DEF Settled
  <2>3. calls'[c].batch = calls[c].batch BY <1>i, <2>2, SettledStays
  <2>4. KeptOrShared(c, k) BY <1>1, <2>3 DEF HistoryInv, StoredFirst
  <2> QED BY <1>i, <2>2, <2>3, <2>4, KeptOrSharedStays
<1>2. CASE Store(c)
  <2>1. calls'[c].receivedAt = clock' /\ calls'[c].batch = calls[c].batch
    BY <1>i, <1>2, StoreRight
  <2>2. PointOf(c, k)' = <<calls[c].batch[k].client, Timestamp(clock', k)>>
    BY <2>1 DEF PointOf
  <2>3. Kept(c, k)' BY <1>i, <1>2, <2>1, <2>2, StoreRight DEF Kept
  <2> QED BY <2>3 DEF KeptOrShared
<1>3. CASE calls[c].at \notin Working \cup {"accepted"} /\ ~Store(c)
  <2>1. CASE calls'[c] = calls[c] BY <1>3, <2>1
  <2>2. CASE Call(c)
    <3>1. PICK p \in Publishes : calls'[c] = Called(p[1], p[2])
      BY <1>i, <2>2, BecomesIt DEF Call
    <3> QED BY <1>n, <3>1, CalledRight
  <2>3. CASE Fault(c)
    <3>1. calls[c] \in CallType /\ calls'[c] = [calls[c] EXCEPT !.at = "error"]
      BY <1>i, <2>3, BecomesIt DEF Fault, Open, AfterFault, IInv, TypeOK
    <3> QED BY <1>n, <3>1 DEF CallType
  <2>4. CASE LookupPublisher(c) \/ Lookup(c) BY <1>i, <1>n, <2>4, LookupSteps
  <2>5. CASE (Reads(c) \/ Writes(c)) /\ ~(LookupPublisher(c) \/ Lookup(c))
    BY <1>i, <1>3, <2>5, WhileWorking DEF Reads, Writes, RowSteps
  <2> QED BY <1>i, <2>1, <2>2, <2>3, <2>4, <2>5, OwnStep
<1> QED BY <1>1, <1>2, <1>3

LEMMA RowsStep == HistoryInv /\ [Next]_vars => RowsRight'
<1> SUFFICES ASSUME HistoryInv, [Next]_vars, NEW d \in Devices, latest'[d] # Nothing
             PROVE  \E c \in Calls, k \in Nat : latest'[d].reading = <<c, k>> /\ Stored(c, k)'
  BY DEF RowsRight
<1>i. IInv BY DEF HistoryInv
<1>s. ASSUME NEW c \in Calls, NEW k \in Nat, Stored(c, k) PROVE Stored(c, k)'
  BY <1>i, <1>s, SettledStays, KeptOrSharedStays DEF Stored
<1>1. CASE latest'[d] = latest[d]
  <2>1. PICK c \in Calls, k \in Nat : latest[d].reading = <<c, k>> /\ Stored(c, k)
    BY <1>1 DEF HistoryInv, RowsRight
  <2> QED BY <1>1, <1>s, <2>1
<1>2. ASSUME NEW c \in Calls, RowSteps(c), latest'[d] # latest[d]
      PROVE  \E b \in Calls, k \in Nat : latest'[d].reading = <<b, k>> /\ Stored(b, k)'
  <2>1. calls[c].at \in Working
    BY <1>2 DEF RowSteps, Update, Create, UpdateAgain, Working, StageNames
  <2>2. calls[c] # Idle /\ calls[c].entry \in 1..Len(calls[c].batch)
        /\ calls[c].batch \in Seq(Entry)
    BY <1>i, <2>1, WorkingEntry DEF CallType
  <2>3. Settled(c) BY <2>1, <2>2 DEF Settled, BeforeStore, Working, StageNames
  <2>4. PICK k \in Nat : k = calls[c].entry /\ k \in DOMAIN calls[c].batch BY <2>2
  <2>5. KeptOrShared(c, k) BY <2>1, <2>4 DEF HistoryInv, StoredFirst
  <2>6. latest'[d] = RowOf(c, latest[TargetOf(c)])
    BY <1>i, <1>2, RowWritten DEF IInv, TypeOK
  <2>7. latest'[d].reading = <<c, k>> BY <2>4, <2>6 DEF RowOf
  <2>8. Stored(c, k)' BY <1>s, <2>3, <2>4, <2>5 DEF Stored
  <2> QED BY <2>4, <2>7, <2>8
<1>3. ASSUME NEW c \in Calls, Call(c) \/ Reads(c) \/ Fault(c) PROVE UNCHANGED latest
  BY <1>3, ReadsOnly DEF Call, tables
<1>4. CASE Outside \/ UNCHANGED vars
  <2>1. UNCHANGED latest \/ \E x \in Devices : latest' = [latest EXCEPT ![x] = Nothing]
    BY <1>i, <1>4 DEF Outside, ReportFirmware, Delete, RemoveLatest, vars, tables, IInv, TypeOK
  <2>2. latest'[d] = latest[d] BY <1>i, <2>1 DEF IInv, TypeOK
  <2> QED BY <1>1, <2>2
<1> QED BY <1>1, <1>2, <1>3, <1>4, StepKinds, Writers

LEMMA HistoryStep == HistoryInv /\ [Next]_vars => HistoryInv'
BY IngestStep, PointsStep, StoredFirstStep, RowsStep DEF HistoryInv

LEMMA HistoryInit == Init => HistoryInv
<1> SUFFICES ASSUME Init PROVE HistoryInv OBVIOUS
<1>1. IInv BY IngestInit
<1>2. PointsRight BY DEF Init, PointsRight
<1>3. StoredFirst BY DEF Init, StoredFirst, Idle, Working, StageNames
<1>4. RowsRight BY DEF Init, RowsRight
<1> QED BY <1>1, <1>2, <1>3, <1>4 DEF HistoryInv

\* A batch with an entry its publisher may not report leaves no point in the time
\* series, whatever other calls do meanwhile.
THEOREM AllOrNothingHolds == Spec => []AllOrNothing
<1>1. HistoryInv => AllOrNothing BY DEF HistoryInv, PointsRight, AllOrNothing, Allowed
<1> QED BY <1>1, HistoryInit, HistoryStep, PTL DEF Spec

LEMMA SharedIsShared == \A c : Shared(c) => SharesInstant(c)
BY DEF Shared, SharesInstant, Settled

\* The time series has every reading of an accepted batch, unless another call ran
\* in the same millisecond.
THEOREM HistoryCompleteHolds == Spec => []HistoryComplete
<1>1. HistoryInv => HistoryComplete
  BY SharedIsShared DEF HistoryInv, StoredFirst, HistoryComplete, KeptOrShared
<1> QED BY <1>1, HistoryInit, HistoryStep, PTL DEF Spec

\* A row of latest telemetry shows a reading that the time series has.
THEOREM RowInHistoryHolds == Spec => []RowInHistory
<1>1. HistoryInv => RowInHistory
  <2> SUFFICES ASSUME HistoryInv, NEW d \in Devices, latest[d] # Nothing
               PROVE  LET reading == latest[d].reading
                      IN Kept(reading[1], reading[2]) \/ SharesInstant(reading[1])
    BY DEF RowInHistory
  <2>1. PICK c \in Calls, k \in Nat : latest[d].reading = <<c, k>> /\ Stored(c, k)
    BY DEF HistoryInv, RowsRight
  <2>2. Kept(c, k) \/ SharesInstant(c) BY <2>1, SharedIsShared DEF Stored, KeptOrShared
  <2> QED BY <2>1, <2>2
<1> QED BY <1>1, HistoryInit, HistoryStep, PTL DEF Spec

\* ------------------------------------------------------------ what calls fail of

\* A call whose update found no row and whose create found one can count on the
\* row, unless the device was deleted meanwhile: only then is a row removed.
Gone(d) == devices[d] = Nothing
AgainFindsRow ==
  \A c \in Calls : calls[c].at = "again" =>
    \A d \in Devices : d = TargetOf(c) => Gone(d) \/ latest[d] # Nothing
DeletedAreGone == \A d \in deleted : Gone(d)

\* What a call may fail of: a fault, a deleted device, or a unique index of the
\* alarms, OTA updates or downlinks.
Excuse(c, k) ==
  LET e == calls[c].batch[k]
  IN Gone(e.client) \/ e.place # Nothing \/ e.ota # Nothing \/ e.downlink # Nothing
FailureInv == IInv /\ AgainFindsRow /\ DeletedAreGone /\ LostOnlyToFaults

LEMMA GoneStays ==
  ASSUME IInv, [Next]_vars, NEW d \in Devices, Gone(d)
  PROVE  Gone(d)'
<1>t. devices \in [Devices -> Device \cup {Nothing}] BY DEF IInv, TypeOK
<1>1. CASE UNCHANGED devices BY <1>1 DEF Gone
<1>2. ASSUME NEW c \in Calls, Locate(c) PROVE Gone(d)'
  <2>1. \/ UNCHANGED devices
        \/ /\ devices[TargetOf(c)] # Nothing
           /\ devices' = [devices EXCEPT ![TargetOf(c)].place = EntryOf(c).place]
    BY <1>2 DEF Locate
  <2> QED BY <1>t, <2>1 DEF Gone
<1>3. ASSUME NEW c \in Calls, Call(c) \/ Reads(c) \/ Fault(c) PROVE UNCHANGED devices
  BY <1>3, ReadsOnly DEF Call
<1>4. CASE Outside \/ UNCHANGED vars
  BY <1>t, <1>4 DEF Outside, ReportFirmware, Delete, RemoveLatest, vars, Gone
<1> QED BY <1>1, <1>2, <1>3, <1>4, StepKinds, Writers

LEMMA RowStays ==
  ASSUME IInv, DeletedAreGone, [Next]_vars, NEW d \in Devices, latest[d] # Nothing
  PROVE  latest'[d] # Nothing \/ Gone(d)'
<1>t. latest \in [Devices -> Row \cup {Nothing}] BY DEF IInv, TypeOK
<1>1. CASE UNCHANGED latest BY <1>1
<1>2. ASSUME NEW c \in Calls, RowSteps(c) PROVE latest'[d] # Nothing
  <2>1. \/ UNCHANGED latest
        \/ latest' = [latest EXCEPT ![TargetOf(c)] = RowOf(c, latest[TargetOf(c)])]
    BY <1>2, RowWritten
  <2>2. latest'[d] = latest[d] \/ latest'[d] = RowOf(c, latest[d]) BY <1>t, <2>1
  <2>3. RowOf(c, latest[d]) # Nothing
    <3>1. latest' \in [Devices -> Row \cup {Nothing}] BY TableTypes
    <3>2. calls[c].at \in Working
      BY <1>2 DEF RowSteps, Update, Create, UpdateAgain, Working, StageNames
    <3>3. calls[c] \in CallType /\ EntryOf(c) \in Entry BY <3>2, WorkingEntry
    <3>4. RowOf(c, latest[d]) \in Row BY <1>t, <3>3 DEF RowOf, Row, CallType, Entry
    <3> QED BY <3>4, IngestAssumption
  <2> QED BY <2>2, <2>3
<1>3. ASSUME NEW c \in Calls, Call(c) \/ Reads(c) \/ Fault(c) PROVE UNCHANGED latest
  BY <1>3, ReadsOnly DEF Call, tables
<1>4. ASSUME NEW x \in deleted, RemoveLatest(x) PROVE latest'[d] # Nothing \/ Gone(d)'
  <2>1. CASE x = d
    <3>1. Gone(d) BY <1>4, <2>1 DEF DeletedAreGone
    <3> QED BY <3>1, GoneStays
  <2>2. CASE x # d BY <1>t, <1>4, <2>2 DEF RemoveLatest
  <2> QED BY <2>1, <2>2
<1>5. CASE (Outside /\ ~\E x \in deleted : RemoveLatest(x)) \/ UNCHANGED vars
  BY <1>1, <1>5 DEF Outside, ReportFirmware, Delete, vars, tables
<1> QED BY <1>1, <1>2, <1>3, <1>4, <1>5, StepKinds, Writers

LEMMA DeletedStep ==
  ASSUME IInv, DeletedAreGone, [Next]_vars
  PROVE  DeletedAreGone'
<1> SUFFICES ASSUME NEW d \in deleted' PROVE Gone(d)' BY DEF DeletedAreGone
<1>1. CASE d \in deleted
  <2>1. d \in Devices BY <1>1 DEF IInv, TypeOK
  <2> QED BY <1>1, <2>1, GoneStays DEF DeletedAreGone
<1>2. CASE d \notin deleted
  <2>1. ASSUME NEW c \in Calls, Call(c) \/ Reads(c) \/ Fault(c) \/ Writes(c)
        PROVE  UNCHANGED deleted
    BY <2>1, ReadsOnly, Writers DEF Call
  <2>2. \E x \in Devices : Delete(x) /\ d = x
    BY <1>2, <2>1, StepKinds DEF Outside, ReportFirmware, Delete, RemoveLatest, vars
  <2> QED BY <2>2 DEF Delete, Gone, IInv, TypeOK
<1> QED BY <1>1, <1>2

\* A step of call c that ends it with an error has an excuse.
LEMMA ErrorExcused ==
  ASSUME FailureInv, [Next]_vars, NEW c \in Calls, Reads(c) \/ Writes(c) \/ Fault(c),
         calls'[c].at = "error"
  PROVE  faults' > 0 \/ \E k \in DOMAIN calls'[c].batch : Excuse(c, k)'
<1>i. IInv BY DEF FailureInv
<1>1. CASE Fault(c)
  BY <1>i, <1>1 DEF Fault, IInv, TypeOK
<1>2. CASE ~Fault(c)
  <2>f. ASSUME NEW r, Becomes(c, r) PROVE calls'[c] = r BY <1>i, <2>f, BecomesIt
  <2>1. CASE LookupPublisher(c) \/ Lookup(c)
    BY <1>i, <2>1, LookupSteps
  <2>2. CASE Store(c)
    BY <1>i, <2>2, StoreRight DEF StageNames
  <2>3. CASE (Reads(c) \/ Writes(c)) /\ ~(LookupPublisher(c) \/ Lookup(c) \/ Store(c))
    <3>1. calls[c].at \in Working
      BY <1>i, <2>3, WhileWorking DEF Reads, Writes, RowSteps
    <3>2. /\ CallRight(calls[c]) /\ calls[c] \in CallType /\ calls[c] # Idle
          /\ calls[c].entry \in 1..Len(calls[c].batch) /\ TargetOf(c) \in Devices
          /\ Needed(calls[c], calls[c].entry, StageOf(calls[c].at))
          /\ calls[c].batch \in Seq(Entry)
      BY <1>i, <3>1, WorkingEntry DEF CallType
    <3>3. PICK k \in Nat : k = calls[c].entry /\ k \in DOMAIN calls[c].batch BY <3>2
    <3>4. calls'[c].batch = calls[c].batch BY <1>i, <3>2, KeepsBatch
    <3>5. PICK d \in Devices : d = TargetOf(c) BY <3>2
    <3>a. \A stage \in StageNames : After(c, stage).at # "error"
      BY <3>1, <3>2, AfterRight DEF StageReached, StageNames
    <3>n. {"locate", "update", "fences", "ota", "reconcile", "downlink"} \subseteq StageNames
      BY DEF StageNames
    <3>6. ASSUME Gone(d)' PROVE Excuse(c, k)'
      <4>1. calls'[c].batch[k].client = d BY <3>3, <3>4, <3>5 DEF TargetOf, EntryOf
      <4> QED BY <3>6, <4>1 DEF Excuse, Gone
    <3>7. ASSUME EntryOf(c).place # Nothing \/ EntryOf(c).ota # Nothing
                 \/ EntryOf(c).downlink # Nothing
          PROVE  Excuse(c, k)'
      BY <3>3, <3>4, <3>7 DEF Excuse, EntryOf
    <3>8. CASE Locate(c)
      <4>1. devices[d] = Nothing BY <2>f, <3>5, <3>a, <3>n, <3>8 DEF Locate
      <4>2. Gone(d)' BY <1>i, <4>1, GoneStays DEF Gone
      <4> QED BY <3>3, <3>4, <3>6, <4>2
    <3>9. CASE RowSteps(c)
      <4>1. calls[c].at = "again" /\ latest[d] = Nothing
        <5>1. ASSUME NEW step \in {"create", "again"}
              PROVE  [calls[c] EXCEPT !.at = step].at # "error"
          BY <3>2, <5>1 DEF CallType
        <5>2. ~Becomes(c, After(c, "update")) BY <2>f, <3>a, <3>n
        <5>3. ~Goes(c, "create") /\ ~Goes(c, "again") BY <2>f, <5>1 DEF Goes
        <5> QED BY <3>5, <3>9, <5>2, <5>3 DEF RowSteps, Update, Create, UpdateAgain, OnConflict
      <4>2. Gone(d) BY <3>5, <4>1 DEF FailureInv, AgainFindsRow
      <4>3. Gone(d)' BY <1>i, <4>2, GoneStays
      <4> QED BY <3>3, <3>4, <3>6, <4>3
    <3>10. CASE ListAlarms(c) \/ WriteAlarm(c)
      <4>1. StageOf(calls[c].at) = "fences" BY <3>10 DEF ListAlarms, WriteAlarm, StageOf
      <4>2. EntryOf(c).place # Nothing BY <3>2, <4>1 DEF Needed, EntryOf
      <4> QED BY <3>3, <3>4, <3>7, <4>2
    <3>11. CASE ListUpdate(c) \/ WriteUpdate(c)
      <4>1. StageOf(calls[c].at) = "ota" BY <3>11 DEF ListUpdate, WriteUpdate, StageOf
      <4>2. EntryOf(c).ota # Nothing BY <3>2, <4>1 DEF Needed, EntryOf
      <4> QED BY <3>3, <3>4, <3>7, <4>2
    <3>12. CASE ListDownlink(c) \/ WriteDownlink(c)
      <4>1. StageOf(calls[c].at) = "downlink"
        BY <3>12 DEF ListDownlink, WriteDownlink, StageOf
      <4>2. EntryOf(c).downlink # Nothing BY <3>2, <4>1 DEF Needed, EntryOf
      <4> QED BY <3>3, <3>4, <3>7, <4>2
    <3>13. CASE ListPending(c) \/ CompleteUpdate(c)
      <4>1. \A found : [calls[c] EXCEPT !.at = "complete", !.found = found].at # "error"
        BY <3>2 DEF CallType
      <4>2. \A found : [calls[c] EXCEPT !.found = found].at = calls[c].at
        BY <3>2 DEF CallType
      <4>3. CASE ListPending(c)
        <5>1. \/ Becomes(c, After(c, "reconcile"))
              \/ \E found : Becomes(c, [calls[c] EXCEPT !.at = "complete", !.found = found])
          BY <4>3 DEF ListPending
        <5> QED BY <2>f, <3>a, <3>n, <4>1, <5>1
      <4>4. CASE CompleteUpdate(c)
        <5>1. calls[c].at = "complete"
              /\ \/ Becomes(c, After(c, "reconcile"))
                 \/ \E found : Becomes(c, [calls[c] EXCEPT !.found = found])
          BY <4>4 DEF CompleteUpdate
        <5> QED BY <2>f, <3>a, <3>n, <4>2, <5>1
      <4> QED BY <3>13, <4>3, <4>4
    <3> QED BY <2>3, <3>8, <3>9, <3>10, <3>11, <3>12, <3>13 DEF Reads, Writes
  <2> QED BY <1>2, <2>1, <2>2, <2>3
<1> QED BY <1>1, <1>2

\* Only a create that found a row makes a call update again.
LEMMA OnlyCreateGoesAgain ==
  ASSUME IInv, NEW c \in Calls, Call(c) \/ Reads(c) \/ Writes(c) \/ Fault(c),
         calls'[c].at = "again", calls'[c] # calls[c]
  PROVE  /\ latest[TargetOf(c)] # Nothing /\ UNCHANGED latest
         /\ \A d : d = TargetOf(c)' => d = TargetOf(c)
<1>f. ASSUME NEW r, Becomes(c, r) PROVE calls'[c] = r BY <1>f, BecomesIt
<1>1. CASE Call(c)
  <2>1. PICK p \in Publishes : calls'[c] = Called(p[1], p[2]) BY <1>1, <1>f DEF Call
  <2> QED BY <2>1, CalledRight
<1>2. CASE Fault(c)
  <2>1. calls[c] \in CallType /\ calls'[c] = [calls[c] EXCEPT !.at = "error"]
    BY <1>2, <1>f DEF Fault, Open, AfterFault, IInv, TypeOK
  <2> QED BY <2>1 DEF CallType
<1>3. CASE LookupPublisher(c) \/ Lookup(c) BY <1>3, LookupSteps
<1>4. CASE Store(c) BY <1>4, StoreRight DEF StageNames
<1>5. CASE (Reads(c) \/ Writes(c)) /\ ~(LookupPublisher(c) \/ Lookup(c) \/ Store(c))
  <2>1. calls[c].at \in Working BY <1>5, WhileWorking DEF Reads, Writes, RowSteps
  <2>2. CallRight(calls[c]) /\ calls[c] \in CallType BY <2>1, WorkingEntry
  <2>a. \A stage \in StageNames : After(c, stage).at # "again"
    BY <2>1, <2>2, AfterRight DEF StageReached, StageNames
  <2>n. {"locate", "update", "fences", "ota", "reconcile", "downlink"} \subseteq StageNames
    BY DEF StageNames
  <2>s. \A step : [calls[c] EXCEPT !.at = step].at = step BY <2>2 DEF CallType
  <2>t. \A step, found : [calls[c] EXCEPT !.at = step, !.found = found].at = step
    BY <2>2 DEF CallType
  <2>u. \A found : [calls[c] EXCEPT !.found = found].at = calls[c].at BY <2>2 DEF CallType
  <2>3. CASE Create(c)
    <3>1. ~Becomes(c, After(c, "update")) BY <1>f, <2>a, <2>n
    <3>2. latest[TargetOf(c)] # Nothing /\ UNCHANGED latest /\ Goes(c, "again")
      BY <2>3, <3>1 DEF Create, OnConflict
    <3>3. calls'[c] = [calls[c] EXCEPT !.at = "again"] BY <1>f, <3>2 DEF Goes
    <3>4. calls'[c].batch = calls[c].batch /\ calls'[c].entry = calls[c].entry
      BY <2>2, <3>3 DEF CallType
    <3> QED BY <3>2, <3>4 DEF TargetOf, EntryOf
  <2>4. CASE Update(c) \/ UpdateAgain(c)
    <3>1. \/ Becomes(c, After(c, "update"))
          \/ Becomes(c, [calls[c] EXCEPT !.at = "create"])
          \/ Becomes(c, [calls[c] EXCEPT !.at = "error"])
      BY <2>4 DEF Update, UpdateAgain, Goes
    <3> QED BY <1>f, <2>a, <2>n, <2>s, <3>1
  <2>5. CASE Locate(c)
    <3>1. \/ Becomes(c, After(c, "locate"))
          \/ Becomes(c, [calls[c] EXCEPT !.at = "error"])
      BY <2>5 DEF Locate, Goes
    <3> QED BY <1>f, <2>a, <2>n, <2>s, <3>1
  <2>6. CASE ListAlarms(c) \/ ListUpdate(c) \/ ListPending(c) \/ ListDownlink(c)
    <3>1. \/ \E stage \in StageNames : Becomes(c, After(c, stage))
          \/ \E step \in {"alarm", "otaWrite", "complete", "downlinkWrite"} : \E found :
               Becomes(c, [calls[c] EXCEPT !.at = step, !.found = found])
      <4>1. CASE ListAlarms(c) BY <2>n, <4>1 DEF ListAlarms
      <4>2. CASE ListUpdate(c) BY <4>2 DEF ListUpdate
      <4>3. CASE ListPending(c) BY <2>n, <4>3 DEF ListPending
      <4>4. CASE ListDownlink(c) BY <4>4 DEF ListDownlink
      <4> QED BY <2>6, <4>1, <4>2, <4>3, <4>4
    <3>2. ASSUME NEW stage \in StageNames PROVE ~Becomes(c, After(c, stage)) BY <1>f, <2>a
    <3>3. ASSUME NEW step \in {"alarm", "otaWrite", "complete", "downlinkWrite"}, NEW found
          PROVE  ~Becomes(c, [calls[c] EXCEPT !.at = step, !.found = found])
      <4>1. step # "again" OBVIOUS
      <4>2. [calls[c] EXCEPT !.at = step, !.found = found].at = step BY <2>t
      <4> QED BY <1>f, <4>1, <4>2
    <3> QED BY <3>1, <3>2, <3>3
  <2>7. CASE WriteAlarm(c) \/ WriteUpdate(c) \/ CompleteUpdate(c) \/ WriteDownlink(c)
    <3>1. /\ calls[c].at # "again"
          /\ \/ \E stage \in StageNames : Becomes(c, After(c, stage))
             \/ Becomes(c, [calls[c] EXCEPT !.at = "error"])
             \/ \E found : Becomes(c, [calls[c] EXCEPT !.found = found])
      <4>1. CASE WriteAlarm(c) BY <2>n, <4>1 DEF WriteAlarm, Goes
      <4>2. CASE WriteUpdate(c) BY <2>n, <4>2 DEF WriteUpdate, Goes
      <4>3. CASE CompleteUpdate(c) BY <2>n, <4>3 DEF CompleteUpdate
      <4>4. CASE WriteDownlink(c) BY <2>n, <4>4 DEF WriteDownlink, Goes
      <4> QED BY <2>7, <4>1, <4>2, <4>3, <4>4
    <3> QED BY <1>f, <2>a, <2>s, <2>u, <3>1
  <2> QED BY <1>5, <2>3, <2>4, <2>5, <2>6, <2>7 DEF Reads, Writes, RowSteps
<1> QED BY <1>1, <1>2, <1>3, <1>4, <1>5

LEMMA AgainStep == FailureInv /\ [Next]_vars => AgainFindsRow'
<1> SUFFICES ASSUME FailureInv, [Next]_vars, NEW c \in Calls, calls'[c].at = "again",
                    NEW d \in Devices, d = TargetOf(c)'
             PROVE  Gone(d)' \/ latest'[d] # Nothing
  BY DEF AgainFindsRow
<1>i. IInv /\ DeletedAreGone BY DEF FailureInv
<1>1. CASE calls'[c] = calls[c]
  <2>1. d = TargetOf(c) BY <1>1 DEF TargetOf, EntryOf
  <2>2. Gone(d) \/ latest[d] # Nothing BY <1>1, <2>1 DEF FailureInv, AgainFindsRow
  <2> QED BY <1>i, <2>2, GoneStays, RowStays
<1>2. CASE calls'[c] # calls[c]
  <2>1. Call(c) \/ Reads(c) \/ Writes(c) \/ Fault(c) BY <1>i, <1>2, OwnStep
  <2>2. latest[TargetOf(c)] # Nothing /\ UNCHANGED latest /\ d = TargetOf(c)
    BY <1>i, <1>2, <2>1, OnlyCreateGoesAgain
  <2> QED BY <2>2
<1> QED BY <1>1, <1>2

LEMMA LostStep == FailureInv /\ [Next]_vars => LostOnlyToFaults'
<1> SUFFICES ASSUME FailureInv, [Next]_vars, NEW c \in Calls, calls'[c].at = "error"
             PROVE  faults' > 0 \/ \E k \in DOMAIN calls'[c].batch : Excuse(c, k)'
  BY DEF LostOnlyToFaults, Excuse, Gone
<1>i. IInv BY DEF FailureInv
<1>1. CASE calls'[c] = calls[c]
  <2>1. CASE faults > 0
    <3>1. \A b \in Calls : Writes(b) => UNCHANGED faults BY Writers
    <3>2. faults' \in {faults, faults + 1}
      BY <3>1, StepKinds DEF Call, Reads, LookupPublisher, Lookup, ListAlarms, ListUpdate,
         ListPending, ListDownlink, Fault, Outside, ReportFirmware, Delete, RemoveLatest, vars
    <3> QED BY <1>i, <2>1, <3>2 DEF IInv, TypeOK
  <2>2. CASE ~(faults > 0)
    <3>1. PICK k \in DOMAIN calls[c].batch : Excuse(c, k)
      BY <1>1, <2>2 DEF FailureInv, LostOnlyToFaults, Excuse, Gone
    <3>2. calls[c] \in CallType
      BY <1>i, <1>1 DEF IInv, TypeOK, Idle
    <3>3. calls[c].batch \in Seq(Entry) BY <3>2 DEF CallType
    <3>4. calls[c].batch[k] \in Entry BY <3>1, <3>3
    <3>5. PICK d \in Devices : d = calls[c].batch[k].client BY <3>4 DEF Entry
    <3>6. Gone(d) => Gone(d)' BY <1>i, GoneStays
    <3>7. Excuse(c, k)' BY <1>1, <3>1, <3>5, <3>6 DEF Excuse, Gone
    <3> QED BY <1>1, <3>1, <3>7
  <2> QED BY <2>1, <2>2
<1>2. CASE calls'[c] # calls[c]
  <2>1. Call(c) \/ Reads(c) \/ Writes(c) \/ Fault(c) BY <1>i, <1>2, OwnStep
  <2>2. CASE Call(c)
    <3>1. PICK p \in Publishes : calls'[c] = Called(p[1], p[2])
      BY <1>i, <2>2, BecomesIt DEF Call
    <3> QED BY <3>1, CalledRight
  <2> QED BY <2>1, <2>2, ErrorExcused
<1> QED BY <1>1, <1>2

\* Calls that write to no unique index but that of the latest row fail only by a
\* failing request or for a deleted device, however many create the row at once.
THEOREM LostOnlyToFaultsHolds == Spec => []LostOnlyToFaults
<1>1. Init => FailureInv
  <2> SUFFICES ASSUME Init PROVE FailureInv OBVIOUS
  <2>1. IInv BY IngestInit
  <2>2. AgainFindsRow /\ DeletedAreGone /\ LostOnlyToFaults
    BY DEF Init, AgainFindsRow, DeletedAreGone, LostOnlyToFaults, Idle
  <2> QED BY <2>1, <2>2 DEF FailureInv
<1>2. FailureInv /\ [Next]_vars => FailureInv'
  BY IngestStep, AgainStep, DeletedStep, LostStep DEF FailureInv
<1>3. FailureInv => LostOnlyToFaults BY DEF FailureInv
<1> QED BY <1>1, <1>2, <1>3, PTL DEF Spec
-----------------------------------------------------------------------------
\* ---------------------------------------------------------- how far a call is

Rank(stage) == CHOOSE n \in DOMAIN Stages : Stages[n] = stage

\* A call is past a stage of entry k: done with it, or it was not needed.
Past(call, k, stage) ==
  \/ call.at = "accepted"
  \/ /\ call.at \in Working
     /\ \/ k < call.entry
        \/ k = call.entry /\ Rank(stage) < Rank(StageOf(call.at))

LEMMA RankRight ==
  /\ \A stage \in StageNames : Rank(stage) \in 1..6 /\ Stages[Rank(stage)] = stage
  /\ \A n \in 1..6 : Rank(Stages[n]) = n
  /\ Rank("locate") = 1 /\ Rank("update") = 2
<1>1. Stages[1] = "locate" /\ Stages[2] = "update" /\ Stages[3] = "fences"
      /\ Stages[4] = "ota" /\ Stages[5] = "reconcile" /\ Stages[6] = "downlink"
  BY DEF Stages
<1>2. \A n \in 1..6 : n = 1 \/ n = 2 \/ n = 3 \/ n = 4 \/ n = 5 \/ n = 6 OBVIOUS
<1>3. \A m, n \in 1..6 : Stages[m] = Stages[n] => m = n BY <1>1, <1>2
<1>4. ASSUME NEW stage \in StageNames PROVE Rank(stage) \in 1..6 /\ Stages[Rank(stage)] = stage
  BY StagesRight DEF Rank
<1>5. ASSUME NEW n \in 1..6 PROVE Rank(Stages[n]) = n
  <2>1. Stages[n] \in StageNames BY StagesRight
  <2>2. Rank(Stages[n]) \in 1..6 /\ Stages[Rank(Stages[n])] = Stages[n] BY <1>4, <2>1
  <2> QED BY <1>3, <2>2
<1>6. Rank("locate") = 1 /\ Rank("update") = 2 BY <1>1, <1>5
<1> QED BY <1>4, <1>5, <1>6

LEMMA StageOfWorking == \A step \in Working : StageOf(step) \in StageNames
BY DEF Working, StageNames, StageOf

\* The way to entry m: everything before it is past, and of it what it does not need.
LEMMA WithEntryPast ==
  ASSUME NEW call, NEW m \in Nat \ {0},
         call \in CallType, Len(call.batch) \in 1..16, Len(call.firmware) = Len(call.batch),
         \A l \in 1..Len(call.batch) : Allowed(call, l),
         NEW k \in 1..Len(call.batch), NEW stage \in StageNames
  PROVE  /\ k < m => Past(WithEntry(call, m), k, stage)
         /\ Past(WithEntry(call, m), k, stage) => k < m \/ (k = m /\ ~Needed(call, k, stage))
<1> DEFINE r == WithEntry(call, m)
<1>1. CASE m > Len(call.batch)
  <2>1. r.at = "accepted" BY <1>1 DEF WithEntry, CallType
  <2>2. k < m BY <1>1
  <2> QED BY <2>1, <2>2 DEF Past
<1>2. CASE ~(m > Len(call.batch))
  <2> DEFINE left == Left(call, m, 1)
             first == Stages[Min(left)]
  <2>1. left \subseteq 1..6 BY StagesRight DEF Left
  <2>2. 2 \in left
    <3>1. Needed(call, m, "update") BY DEF Needed
    <3> QED BY <3>1, StagesRight DEF Left
  <2>3. Min(left) \in left /\ \A n \in left : Min(left) =< n BY <2>1, <2>2, MinIsOne
  <2>4. r = [call EXCEPT !.entry = m, !.at = first, !.found = {}] BY <1>2 DEF WithEntry
  <2>5. Min(left) \in 1..6 BY <2>1, <2>3
  <2>6. first \in StageNames /\ Rank(first) = Min(left) BY <2>5, RankRight, StagesRight
  <2>7. Rank(stage) \in 1..6 /\ Stages[Rank(stage)] = stage BY RankRight
  <2>8. Needed(call, m, stage) => Rank(stage) \in left BY <2>7, StagesRight DEF Left
  <2> HIDE DEF left, first
  <2>9. r.at = first /\ r.entry = m BY <2>4 DEF CallType
  <2>10. StageOf(first) = first /\ first \in Working /\ first # "accepted"
    BY <2>6, StepsRight DEF Working, StageNames
  <2> HIDE DEF r
  <2>11. Past(r, k, stage) <=> (k < m \/ (k = m /\ Rank(stage) < Min(left)))
    BY <2>6, <2>9, <2>10 DEF Past
  <2>12. Needed(call, m, stage) => ~(Rank(stage) < Min(left)) BY <2>3, <2>5, <2>7, <2>8
  <2> QED BY <2>11, <2>12 DEF r
<1> QED BY <1>1, <1>2

\* What is behind a call when it is done with its stage.
LEMMA AfterPast ==
  ASSUME NEW c, CallRight(calls[c]), calls[c].at \in Working,
         NEW k \in 1..Len(calls[c].batch), NEW stage \in StageNames
  PROVE  LET call == calls[c]
             r == After(c, StageOf(call.at))
         IN /\ r.batch = call.batch /\ r.firmware = call.firmware
            /\ Past(call, k, stage) => Past(r, k, stage)
            /\ Past(r, k, stage) => \/ Past(call, k, stage)
                                    \/ k = call.entry /\ stage = StageOf(call.at)
                                    \/ ~Needed(call, k, stage)
            /\ k = call.entry /\ stage = StageOf(call.at) => Past(r, k, stage)
<1> DEFINE call == calls[c]
           done == StageOf(call.at)
           n == Rank(done)
           left == Left(call, call.entry, n + 1)
           r == After(c, done)
<1>1. done \in StageNames BY StageOfWorking
<1>2. n \in 1..6 /\ Stages[n] = done BY <1>1, RankRight
<1>3. /\ call \in CallType /\ Len(call.batch) \in 1..16
      /\ Len(call.firmware) = Len(call.batch) /\ call.entry \in 1..Len(call.batch)
      /\ \A l \in 1..Len(call.batch) : Allowed(call, l)
  BY DEF CallRight
<1>4. Rank(stage) \in 1..6 /\ Stages[Rank(stage)] = stage BY RankRight
<1>5. call.at # "accepted" BY DEF Working, StageNames
<1>6. Past(call, k, stage) <=> (k < call.entry \/ (k = call.entry /\ Rank(stage) < n))
  BY <1>5 DEF Past
<1>7. r = IF left # {} THEN [call EXCEPT !.at = Stages[Min(left)], !.found = {}]
          ELSE WithEntry(call, call.entry + 1)
  BY DEF After, Rank
<1>8. left = {j \in n + 1 .. 6 : Needed(call, call.entry, Stages[j])}
  BY StagesRight DEF Left
<1>9. Rank(stage) = n => stage = done BY <1>2, <1>4
<1>10. Needed(call, call.entry, stage) /\ Rank(stage) > n => Rank(stage) \in left
  BY <1>2, <1>4, <1>8
<1> HIDE DEF n, done, left
<1>11. CASE left # {}
  <2> DEFINE first == Stages[Min(left)]
  <2>1. left \subseteq 1..6 /\ \A j \in left : j > n BY <1>2, <1>8
  <2>2. Min(left) \in left /\ \A j \in left : Min(left) =< j BY <1>11, <2>1, MinIsOne
  <2>3. Min(left) \in 1..6 /\ Min(left) > n BY <2>1, <2>2
  <2>4. first \in StageNames /\ Rank(first) = Min(left) BY <2>3, RankRight, StagesRight
  <2>5. r = [call EXCEPT !.at = first, !.found = {}] BY <1>7, <1>11
  <2> HIDE DEF first, r
  <2>6. r.at = first /\ r.entry = call.entry /\ r.batch = call.batch /\ r.firmware = call.firmware
    BY <1>3, <2>5 DEF CallType
  <2>7. StageOf(first) = first /\ first \in Working /\ first # "accepted"
    BY <2>4, StepsRight DEF Working, StageNames
  <2>8. Past(r, k, stage) <=> (k < call.entry \/ (k = call.entry /\ Rank(stage) < Min(left)))
    BY <2>4, <2>6, <2>7 DEF Past
  <2>9. Rank(stage) < n => Rank(stage) < Min(left) BY <1>2, <1>4, <2>3
  <2>10. Rank(stage) < Min(left) => Rank(stage) < n \/ Rank(stage) = n \/ ~Needed(call, call.entry, stage)
    BY <1>2, <1>4, <1>10, <2>2, <2>3
  <2>11. stage = done => Rank(stage) = n BY DEF n
  <2> QED BY <1>6, <1>9, <2>3, <2>6, <2>8, <2>9, <2>10, <2>11 DEF r, done
<1>12. CASE left = {}
  <2>1. r = WithEntry(call, call.entry + 1) /\ call.entry + 1 \in Nat \ {0}
    BY <1>3, <1>7, <1>12
  <2>2. /\ k < call.entry + 1 => Past(r, k, stage)
        /\ Past(r, k, stage) => \/ k < call.entry + 1
                                \/ k = call.entry + 1 /\ ~Needed(call, k, stage)
    BY <1>3, <2>1, WithEntryPast
  <2>3. r.batch = call.batch /\ r.firmware = call.firmware
    BY <1>3, <2>1 DEF WithEntry, CallType
  <2> HIDE DEF r
  <2>4. k = call.entry => Rank(stage) < n \/ Rank(stage) = n \/ ~Needed(call, k, stage)
    BY <1>2, <1>4, <1>10, <1>12
  <2>5. k < call.entry + 1 <=> k < call.entry \/ k = call.entry BY <1>3
  <2> QED BY <1>6, <1>9, <2>2, <2>3, <2>4, <2>5 DEF r, done
<1> QED BY <1>11, <1>12

\* A call that works goes on within its stage, or is done with it, or fails.
Stays(call, after) ==
  /\ after.at \in Working /\ StageOf(after.at) = StageOf(call.at)
  /\ after.entry = call.entry /\ after.batch = call.batch /\ after.firmware = call.firmware

LEMMA WorkMoves ==
  ASSUME IInv, NEW c \in Calls, Reads(c) \/ Writes(c) \/ Fault(c), calls[c].at \in Working
  PROVE  \/ calls'[c] = [calls[c] EXCEPT !.at = "error"]
         \/ Stays(calls[c], calls'[c])
         \/ calls'[c] = After(c, StageOf(calls[c].at))
<1> DEFINE call == calls[c]
<1>f. ASSUME NEW r, Becomes(c, r) PROVE calls'[c] = r BY <1>f, BecomesIt
<1>1. call \in CallType BY WorkingEntry
<1>2. ASSUME Becomes(c, [call EXCEPT !.at = "error"])
      PROVE  calls'[c] = [call EXCEPT !.at = "error"]
  BY <1>2, <1>f
<1>3. ASSUME NEW step \in Working, NEW found, StageOf(step) = StageOf(call.at),
             calls'[c] = [call EXCEPT !.at = step, !.found = found]
      PROVE  Stays(call, calls'[c])
  BY <1>1, <1>3 DEF CallType, Stays
<1>4. ASSUME NEW found, Becomes(c, [call EXCEPT !.found = found]) PROVE Stays(call, calls'[c])
  <2>1. calls'[c] = [call EXCEPT !.found = found] BY <1>4, <1>f
  <2> QED BY <1>1, <2>1 DEF CallType, Stays
<1>5. ASSUME NEW step \in Working, StageOf(step) = StageOf(call.at),
             Becomes(c, [call EXCEPT !.at = step])
      PROVE  Stays(call, calls'[c])
  <2>1. calls'[c] = [call EXCEPT !.at = step] BY <1>5, <1>f
  <2> QED BY <1>1, <1>5, <2>1 DEF CallType, Stays
<1>w. {"create", "again", "alarm", "otaWrite", "complete", "downlinkWrite"} \subseteq Working
  BY DEF Working
<1>6. CASE Fault(c) BY <1>2, <1>6 DEF Fault, AfterFault
<1>7. CASE Locate(c)
  <2>1. StageOf(call.at) = "locate" BY <1>7 DEF Locate, StageOf
  <2> QED BY <1>2, <1>7, <1>f, <2>1 DEF Locate, Goes
<1>8. CASE RowSteps(c)
  <2>1. StageOf(call.at) = "update" /\ StageOf("create") = "update" /\ StageOf("again") = "update"
    BY <1>8 DEF RowSteps, Update, Create, UpdateAgain, StageOf
  <2>2. \/ Becomes(c, After(c, "update"))
        \/ \E step \in {"create", "again", "error"} : Becomes(c, [call EXCEPT !.at = step])
    BY <1>8 DEF RowSteps, Update, Create, UpdateAgain, Goes, OnConflict
  <2> QED BY <1>2, <1>5, <1>f, <1>w, <2>1, <2>2
<1>9. CASE ListAlarms(c) \/ WriteAlarm(c)
  <2>1. StageOf(call.at) = "fences" /\ StageOf("alarm") = "fences"
    BY <1>9 DEF ListAlarms, WriteAlarm, StageOf
  <2>2. \/ Becomes(c, After(c, "fences"))
        \/ Becomes(c, [call EXCEPT !.at = "error"])
        \/ \E found : Becomes(c, [call EXCEPT !.found = found])
        \/ \E found : Becomes(c, [call EXCEPT !.at = "alarm", !.found = found])
    <3>1. CASE ListAlarms(c) BY <3>1 DEF ListAlarms
    <3>2. CASE WriteAlarm(c) BY <3>2 DEF WriteAlarm, Goes
    <3> QED BY <1>9, <3>1, <3>2
  <2> QED BY <1>2, <1>3, <1>4, <1>f, <1>w, <2>1, <2>2
<1>10. CASE ListUpdate(c) \/ WriteUpdate(c)
  <2>1. StageOf(call.at) = "ota" /\ StageOf("otaWrite") = "ota"
    BY <1>10 DEF ListUpdate, WriteUpdate, StageOf
  <2>2. \/ Becomes(c, After(c, "ota"))
        \/ Becomes(c, [call EXCEPT !.at = "error"])
        \/ \E found : Becomes(c, [call EXCEPT !.at = "otaWrite", !.found = found])
    <3>1. CASE ListUpdate(c) BY <3>1 DEF ListUpdate
    <3>2. CASE WriteUpdate(c) BY <3>2 DEF WriteUpdate, Goes
    <3> QED BY <1>10, <3>1, <3>2
  <2> QED BY <1>2, <1>3, <1>f, <1>w, <2>1, <2>2
<1>11. CASE ListPending(c) \/ CompleteUpdate(c)
  <2>1. StageOf(call.at) = "reconcile" /\ StageOf("complete") = "reconcile"
    BY <1>11 DEF ListPending, CompleteUpdate, StageOf
  <2>2. \/ Becomes(c, After(c, "reconcile"))
        \/ \E found : Becomes(c, [call EXCEPT !.found = found])
        \/ \E found : Becomes(c, [call EXCEPT !.at = "complete", !.found = found])
    <3>1. CASE ListPending(c) BY <3>1 DEF ListPending
    <3>2. CASE CompleteUpdate(c) BY <3>2 DEF CompleteUpdate
    <3> QED BY <1>11, <3>1, <3>2
  <2> QED BY <1>3, <1>4, <1>f, <1>w, <2>1, <2>2
<1>12. CASE ListDownlink(c) \/ WriteDownlink(c)
  <2>1. StageOf(call.at) = "downlink" /\ StageOf("downlinkWrite") = "downlink"
    BY <1>12 DEF ListDownlink, WriteDownlink, StageOf
  <2>2. \/ Becomes(c, After(c, "downlink"))
        \/ Becomes(c, [call EXCEPT !.at = "error"])
        \/ \E found : Becomes(c, [call EXCEPT !.at = "downlinkWrite", !.found = found])
    <3>1. CASE ListDownlink(c) BY <3>1 DEF ListDownlink
    <3>2. CASE WriteDownlink(c) BY <3>2 DEF WriteDownlink, Goes
    <3> QED BY <1>12, <3>1, <3>2
  <2> QED BY <1>2, <1>3, <1>f, <1>w, <2>1, <2>2
<1>13. CASE LookupPublisher(c) \/ Lookup(c) \/ Store(c)
  BY <1>13 DEF LookupPublisher, Lookup, Store, Working, StageNames
<1> QED BY <1>6, <1>7, <1>8, <1>9, <1>10, <1>11, <1>12, <1>13 DEF Reads, Writes

\* What a step that does not fail leaves behind.
LEMMA Progress ==
  ASSUME IInv, NEW c \in Calls, Reads(c) \/ Writes(c) \/ Fault(c), calls[c].at \in Working,
         calls'[c].at # "error"
  PROVE  /\ calls'[c].batch = calls[c].batch /\ calls'[c].firmware = calls[c].firmware
         /\ \A k \in DOMAIN calls[c].batch, stage \in StageNames :
              /\ Past(calls[c], k, stage) => Past(calls'[c], k, stage)
              /\ Past(calls'[c], k, stage) /\ Needed(calls[c], k, stage)
                 => \/ Past(calls[c], k, stage)
                    \/ /\ k = calls[c].entry /\ stage = StageOf(calls[c].at)
                       /\ calls'[c] = After(c, stage)
<1>1. CallRight(calls[c]) /\ DOMAIN calls[c].batch = 1..Len(calls[c].batch)
      /\ 1 \in 1..Len(calls[c].batch)
  <2>1. CallRight(calls[c]) /\ calls[c].batch \in Seq(Entry) /\ Len(calls[c].batch) \in 1..16
    BY WorkingEntry DEF CallType, CallRight
  <2>2. DOMAIN calls[c].batch = 1..Len(calls[c].batch) BY <2>1
  <2>3. \A n \in 1..16 : 1 \in 1..n OBVIOUS
  <2>4. 1 \in 1..Len(calls[c].batch) BY <2>1, <2>3
  <2> QED BY <2>1, <2>2, <2>4
<1>2. CASE Stays(calls[c], calls'[c])
  <2>1. \A k, stage : Past(calls'[c], k, stage) <=> Past(calls[c], k, stage)
    BY <1>2 DEF Stays, Past, Working, StageNames
  <2> QED BY <1>2, <2>1 DEF Stays
<1>3. CASE calls'[c] = After(c, StageOf(calls[c].at)) /\ ~Stays(calls[c], calls'[c])
  <2>1. calls'[c].batch = calls[c].batch /\ calls'[c].firmware = calls[c].firmware
    <3>1. PICK k \in 1..Len(calls[c].batch) : TRUE BY <1>1
    <3>2. PICK stage \in StageNames : TRUE BY DEF StageNames
    <3> QED BY <1>1, <1>3, <3>1, <3>2, AfterPast
  <2>2. ASSUME NEW k \in DOMAIN calls[c].batch, NEW stage \in StageNames
        PROVE  /\ Past(calls[c], k, stage) => Past(calls'[c], k, stage)
               /\ Past(calls'[c], k, stage) => \/ Past(calls[c], k, stage)
                                               \/ k = calls[c].entry /\ stage = StageOf(calls[c].at)
                                               \/ ~Needed(calls[c], k, stage)
    BY <1>1, <1>3, AfterPast
  <2> QED BY <1>3, <2>1, <2>2
<1>4. calls'[c] # [calls[c] EXCEPT !.at = "error"]
  BY WorkingEntry DEF CallType
<1> QED BY <1>2, <1>3, <1>4, WorkMoves

-----------------------------------------------------------------------------
\* Calls that follow one another.

\* One call is open at most; times of arrival are past, and that of a call that
\* works is the present.
Serial == \A b, c \in Calls : b \in Open /\ c \in Open => b = c
Timely ==
  \A c \in Calls : calls[c] # Idle =>
    /\ calls[c].receivedAt <= clock
    /\ calls[c].at \in Working => calls[c].receivedAt = clock
SerialInv == IInv /\ Serial /\ Timely

\* Calls whose tables nobody has changed since: the open one and the last.
Current(c) == c \in Open \/ LastCall(c)

LEMMA WorkingIsOpen ==
  ASSUME IInv, NEW c \in Calls, calls[c].at \in Working \cup {"store"}
  PROVE  c \in Open /\ calls[c] # Idle /\ CallRight(calls[c])
<1>1. calls[c].at # "idle" /\ ~Ended(c) BY DEF Working, StageNames, Ended
<1> QED BY <1>1, CallOf DEF Open

\* The steps of a call are those of an open call, or open one.
LEMMA StepOpens ==
  ASSUME IInv, NEW c \in Calls, Reads(c) \/ Writes(c) \/ Fault(c)
  PROVE  c \in Open /\ calls[c] # Idle
<1>1. CASE Fault(c) BY <1>1 DEF Fault, Open
<1>2. CASE LookupPublisher(c) \/ Lookup(c) \/ Store(c)
  <2>1. calls[c].at \in {"device", "lookup", "store"}
    BY <1>2 DEF LookupPublisher, Lookup, Store
  <2>2. calls[c] # Idle BY <2>1, CallOf
  <2> QED BY <2>1, <2>2 DEF Open, Ended
<1>3. CASE ~(Fault(c) \/ LookupPublisher(c) \/ Lookup(c) \/ Store(c))
  <2>1. calls[c].at \in Working BY <1>3, WhileWorking DEF Reads, Writes, RowSteps
  <2> QED BY <2>1, WorkingIsOpen
<1> QED BY <1>1, <1>2, <1>3

\* An ended call stays as it is.
LEMMA EndedStays ==
  ASSUME IInv, [Next]_vars, NEW c \in Calls, calls[c] # Idle, c \notin Open
  PROVE  calls'[c] = calls[c]
<1>1. SUFFICES ASSUME calls'[c] # calls[c] PROVE FALSE OBVIOUS
<1>2. Call(c) \/ Reads(c) \/ Writes(c) \/ Fault(c) BY <1>1, OwnStep
<1>3. ~Call(c) BY DEF Call
<1> QED BY <1>2, <1>3, StepOpens

LEMMA SerialInit == Init => Serial /\ Timely
<1> SUFFICES ASSUME Init PROVE Serial /\ Timely OBVIOUS
<1>1. \A c \in Calls : calls[c] = Idle BY DEF Init
<1> QED BY <1>1 DEF Serial, Timely, Open

LEMMA SerialStep ==
  ASSUME MaxOpen = 1, SerialInv, [Next]_vars
  PROVE  Serial'
<1>i. IInv /\ Serial BY DEF SerialInv
<1>1. ASSUME NEW c \in Calls, c \in Open', ~Call(c) PROVE c \in Open
  <2>1. CASE calls'[c] = calls[c] BY <1>1, <2>1 DEF Open, Ended
  <2>2. CASE calls'[c] # calls[c] BY <1>i, <1>1, <2>2, OwnStep, StepOpens
  <2> QED BY <2>1, <2>2
<1>2. ASSUME NEW c \in Calls, Call(c) PROVE Open = {}
  <2>1. Cardinality(Open) < 1 BY <1>2 DEF Call
  <2>2. ASSUME NEW b \in Open PROVE FALSE
    <3>1. Open = {b} BY <1>i, <2>2 DEF Serial, Open
    <3>2. Cardinality({b}) = 1 BY FS_Singleton
    <3> QED BY <2>1, <3>1, <3>2
  <2> QED BY <2>2
<1>3. ASSUME NEW b \in Calls, NEW c \in Calls, Call(b), Call(c) PROVE b = c
  <2>1. calls[b] = Idle /\ calls[c] = Idle BY <1>3 DEF Call
  <2>2. PICK p \in Publishes : Becomes(b, Called(p[1], p[2])) BY <1>3 DEF Call
  <2>3. PICK q \in Publishes : Becomes(c, Called(q[1], q[2])) BY <1>3 DEF Call
  <2>4. calls'[c] # Idle BY <1>i, <2>3, BecomesIt, CalledRight, NotIdle
  <2> QED BY <2>1, <2>2, <2>4 DEF Becomes, Idle
<1>4. ASSUME NEW b \in Calls, NEW c \in Calls, b \in Open', c \in Open' PROVE b = c
  <2>1. CASE Call(b) /\ Call(c) BY <1>3, <2>1
  <2>2. CASE Call(b) /\ ~Call(c) BY <1>1, <1>2, <1>4, <2>2
  <2>3. CASE ~Call(b) /\ Call(c) BY <1>1, <1>2, <1>4, <2>3
  <2>4. CASE ~Call(b) /\ ~Call(c) BY <1>i, <1>1, <1>4, <2>4 DEF Serial
  <2> QED BY <2>1, <2>2, <2>3, <2>4
<1> QED BY <1>4 DEF Serial

\* The clock runs forward, and only while a batch is stored.
LEMMA ClockRuns ==
  ASSUME IInv, [Next]_vars
  PROVE  /\ clock \in Nat /\ clock' \in Nat /\ clock' >= clock
         /\ clock' = clock \/ \E c \in Calls : Store(c)
<1>1. clock \in Nat BY DEF IInv, TypeOK
<1>2. ASSUME NEW c \in Calls, Store(c) PROVE clock' \in Nat /\ clock' >= clock
  BY <1>1, <1>2 DEF Store
<1>3. ASSUME NEW c \in Calls, Call(c) \/ Reads(c) \/ Fault(c) PROVE UNCHANGED clock
  BY <1>3, ReadsOnly DEF Call
<1>4. ASSUME Outside \/ UNCHANGED vars PROVE UNCHANGED clock
  BY <1>4 DEF Outside, ReportFirmware, Delete, RemoveLatest, vars
<1>5. UNCHANGED clock \/ \E c \in Calls : Store(c)
  BY <1>3, <1>4, StepKinds, Writers
<1> QED BY <1>1, <1>2, <1>5

LEMMA TimelyStep ==
  ASSUME SerialInv, [Next]_vars
  PROVE  Timely'
<1>i. IInv /\ Serial /\ Timely BY DEF SerialInv
<1> SUFFICES ASSUME NEW c \in Calls, calls'[c] # Idle
             PROVE  /\ calls'[c].receivedAt <= clock'
                    /\ calls'[c].at \in Working => calls'[c].receivedAt = clock'
  BY DEF Timely
<1>n. IInv' BY <1>i, IngestStep
<1>c. clock \in Nat /\ clock' \in Nat /\ clock' >= clock
      /\ (clock' = clock \/ \E b \in Calls : Store(b))
  BY <1>i, ClockRuns
<1>t. calls'[c].receivedAt \in Nat
  BY <1>n DEF IInv, CallsRight, CallRight, CallType
<1>1. CASE Store(c)
  <2>1. calls'[c].receivedAt = clock' BY <1>i, <1>1, StoreRight
  <2> QED BY <1>c, <2>1
<1>2. CASE calls'[c] = calls[c] /\ ~Store(c)
  <2>1. /\ calls[c].receivedAt <= clock
        /\ calls[c].at \in Working => calls[c].receivedAt = clock
    BY <1>i, <1>2 DEF Timely
  <2>2. calls[c].at \in Working => clock' = clock
    <3>1. ASSUME calls[c].at \in Working, NEW b \in Calls, Store(b) PROVE FALSE
      <4>1. b \in Open /\ c \in Open
        BY <1>i, <3>1, StepOpens, WorkingIsOpen DEF Writes
      <4> QED BY <1>2, <1>i, <3>1, <4>1 DEF Serial
    <3> QED BY <1>c, <3>1
  <2> QED BY <1>2, <1>c, <1>t, <2>1, <2>2
<1>3. CASE calls'[c] # calls[c] /\ ~Store(c)
  <2>1. Call(c) \/ Reads(c) \/ Writes(c) \/ Fault(c) BY <1>3, <1>i, OwnStep
  <2>2. CASE Call(c)
    <3>1. PICK p \in Publishes : calls'[c] = Called(p[1], p[2])
      BY <1>i, <2>2, BecomesIt DEF Call
    <3> QED BY <1>c, <3>1, CalledRight DEF Called, Working, StageNames
  <2>3. CASE Reads(c) \/ Writes(c) \/ Fault(c)
    <3>1. c \in Open /\ calls[c] # Idle BY <1>i, <2>3, StepOpens
    <3>2. GoesOn(calls[c], calls'[c]) BY <1>3, <1>i, <3>1, CallSteps
    <3>3. /\ calls[c].receivedAt <= clock /\ calls[c].receivedAt \in Nat
          /\ calls[c].at \in Working => calls[c].receivedAt = clock
      BY <1>i, <3>1 DEF Timely, IInv, CallsRight, CallRight, CallType
    <3>4. UNCHANGED clock
      <4>1. ASSUME NEW b \in Calls, Store(b) PROVE FALSE
        <5>1. b \in Open BY <1>i, <4>1, StepOpens DEF Writes
        <5> QED BY <1>3, <1>i, <3>1, <4>1, <5>1 DEF Serial
      <4> QED BY <1>c, <4>1
    <3>5. CASE calls[c].at # "store"
      <4>1. calls'[c].receivedAt = calls[c].receivedAt
        BY <3>2, <3>5 DEF GoesOn, Continues
      <4>2. calls'[c].at \in Working => calls[c].at \in Working
        <5>1. CASE LookupPublisher(c) \/ Lookup(c)
          BY <1>i, <5>1, LookupSteps DEF Working, StageNames
        <5>2. CASE Fault(c)
          <6>1. calls'[c] = [calls[c] EXCEPT !.at = "error"] /\ calls[c] \in CallType
            BY <1>i, <3>1, <5>2, BecomesIt DEF Fault, AfterFault, IInv, CallsRight, CallRight
          <6> QED BY <6>1 DEF CallType, Working, StageNames
        <5>3. CASE ~(LookupPublisher(c) \/ Lookup(c) \/ Fault(c))
          BY <1>3, <1>i, <2>3, <5>3, WhileWorking DEF Reads, Writes, RowSteps
        <5> QED BY <5>1, <5>2, <5>3
      <4>3. calls'[c].receivedAt <= clock' BY <3>3, <3>4, <4>1
      <4>4. calls'[c].at \in Working => calls'[c].receivedAt = clock' BY <3>3, <3>4, <4>1, <4>2
      <4> QED BY <4>3, <4>4
    <3>6. CASE calls[c].at = "store"
      <4>1. Fault(c)
        <5>1. ~(Reads(c) \/ Writes(c)) \/ Store(c) \/ LookupPublisher(c) \/ Lookup(c)
              \/ calls[c].at \in Working
          BY <1>i, WhileWorking DEF Reads, Writes, RowSteps
        <5> QED BY <1>3, <2>3, <3>6, <5>1 DEF LookupPublisher, Lookup, Working, StageNames
      <4>2. calls'[c] = [calls[c] EXCEPT !.at = "error"] /\ calls[c] \in CallType
        BY <1>i, <3>1, <4>1, BecomesIt DEF Fault, AfterFault, IInv, CallsRight, CallRight
      <4>3. calls'[c].receivedAt = calls[c].receivedAt /\ calls'[c].at = "error"
        BY <4>2 DEF CallType
      <4>4. calls'[c].at \notin Working BY <4>3 DEF Working, StageNames
      <4>5. calls'[c].receivedAt <= clock' BY <3>3, <3>4, <4>3
      <4> QED BY <4>4, <4>5
    <3> QED BY <3>5, <3>6
  <2> QED BY <2>1, <2>2, <2>3
<1> QED BY <1>1, <1>2, <1>3

LEMMA SerialInvStep ==
  ASSUME MaxOpen = 1, SerialInv, [Next]_vars
  PROVE  SerialInv'
BY SerialStep, TimelyStep, IngestStep DEF SerialInv

\* Nobody but a call itself writes to the tables it has changed as long as it is
\* current: the other one is not at work, or it would have come later.
LEMMA NobodyElse ==
  ASSUME SerialInv, [Next]_vars, NEW c \in Calls, Current(c)', calls'[c] = calls[c],
         NEW b \in Calls \ {c}
  PROVE  /\ Current(c)
         /\ ~(calls[b].at \in Working /\ (Reads(b) \/ Writes(b) \/ Fault(b)))
<1>i. IInv /\ Serial /\ Timely BY DEF SerialInv
<1>n. IInv' BY <1>i, IngestStep
<1>1. CASE c \in Open'
  <2>1. c \in Open BY <1>1 DEF Open, Ended
  <2>2. b \notin Open BY <1>i, <2>1 DEF Serial
  <2> QED BY <1>i, <2>1, <2>2, StepOpens DEF Current
<1>2. CASE LastCall(c)'
  <2>1. calls[c] # Idle BY <1>2 DEF LastCall
  <2>2. calls[c].receivedAt \in Nat /\ clock \in Nat /\ calls[c].receivedAt <= clock
    BY <1>i, <2>1 DEF IInv, TypeOK, CallType, Timely
  <2>3. ASSUME NEW d \in Calls \ {c}, calls[d] # Idle
        PROVE  calls[d].receivedAt < calls[c].receivedAt
    <3>1. calls'[d] # Idle BY <1>i, <2>3, KeepsBatch
    <3>2. calls'[d].receivedAt < calls[c].receivedAt BY <1>2, <3>1 DEF LastCall
    <3>3. calls[d].receivedAt \in Nat /\ calls'[d].receivedAt \in Nat
      BY <1>i, <1>n, <2>3, <3>1 DEF IInv, CallsRight, CallRight, CallType
    <3>4. calls[d].receivedAt <= calls'[d].receivedAt
      <4>1. CASE Store(d)
        <5>1. calls'[d].receivedAt = clock' BY <1>i, <4>1, StoreRight
        <5>2. calls[d].receivedAt <= clock /\ clock' >= clock /\ clock' \in Nat
          BY <1>i, <2>3, ClockRuns DEF Timely
        <5> QED BY <2>2, <3>3, <5>1, <5>2
      <4>2. CASE ~Store(d)
        <5>1. CASE calls'[d] = calls[d] BY <3>3, <5>1
        <5>2. CASE calls'[d] # calls[d]
          <6>1. GoesOn(calls[d], calls'[d]) BY <1>i, <2>3, <5>2, CallSteps
          <6>2. CASE calls[d].at # "store" BY <3>3, <6>1, <6>2 DEF GoesOn, Continues
          <6>3. CASE calls[d].at = "store"
            <7>1. Call(d) \/ Reads(d) \/ Writes(d) \/ Fault(d) BY <1>i, <5>2, OwnStep
            <7>2. Fault(d)
              <8>1. ~(Reads(d) \/ Writes(d)) \/ Store(d) \/ LookupPublisher(d) \/ Lookup(d)
                    \/ calls[d].at \in Working
                BY <1>i, WhileWorking DEF Reads, Writes, RowSteps
              <8> QED BY <2>3, <4>2, <6>3, <7>1, <8>1
                      DEF Call, LookupPublisher, Lookup, Working, StageNames
            <7>3. calls'[d] = [calls[d] EXCEPT !.at = "error"] /\ calls[d] \in CallType
              BY <1>i, <2>3, <7>2, BecomesIt
              DEF Fault, AfterFault, IInv, CallsRight, CallRight
            <7>4. calls'[d].receivedAt = calls[d].receivedAt BY <7>3 DEF CallType
            <7> QED BY <3>3, <7>4
          <6> QED BY <6>2, <6>3
        <5> QED BY <5>1, <5>2
      <4> QED BY <4>1, <4>2
    <3> QED BY <2>2, <3>2, <3>3, <3>4
  <2>4. LastCall(c) BY <2>1, <2>3 DEF LastCall
  <2>5. ASSUME calls[b].at \in Working PROVE FALSE
    <3>1. calls[b] # Idle BY <1>i, <2>5, WorkingIsOpen
    <3>2. calls[b].receivedAt = clock BY <1>i, <2>5, <3>1 DEF Timely
    <3>3. calls[b].receivedAt < calls[c].receivedAt BY <2>3, <3>1
    <3> QED BY <2>2, <3>2, <3>3
  <2> QED BY <2>4, <2>5 DEF Current
<1> QED BY <1>1, <1>2 DEF Current

\* A call at work was at work before, or has just stored its batch.
LEMMA WorkBegins ==
  ASSUME IInv, NEW c \in Calls, Reads(c) \/ Writes(c) \/ Fault(c),
         calls'[c].at \in Working \cup {"accepted"}
  PROVE  /\ calls[c].at \in Working \/ Store(c)
         /\ calls'[c].at # "error" /\ ~Fault(c)
<1>1. calls'[c].at \notin {"error", "refused", "lookup", "store"} BY DEF Working, StageNames
<1>2. ~(LookupPublisher(c) \/ Lookup(c)) BY <1>1, LookupSteps
<1>3. ~Fault(c)
  <2>1. SUFFICES ASSUME Fault(c) PROVE FALSE OBVIOUS
  <2>2. calls'[c] = [calls[c] EXCEPT !.at = "error"] /\ calls[c] \in CallType
    BY <2>1, StepOpens, BecomesIt DEF Fault, AfterFault, IInv, CallsRight, CallRight
  <2> QED BY <1>1, <2>2 DEF CallType
<1> QED BY <1>1, <1>2, <1>3, WhileWorking DEF Reads, Writes, RowSteps

\* Within a stage a call keeps its entry.
LEMMA WithinStage ==
  ASSUME IInv, NEW c \in Calls, Reads(c) \/ Writes(c) \/ Fault(c),
         calls'[c].at \in Working \ StageNames
  PROVE  calls[c].at \in Working /\ Stays(calls[c], calls'[c]) /\ ~Fault(c)
<1>1. ~Store(c) BY StoreRight DEF Working, StageNames
<1>2. calls[c].at \in Working /\ calls'[c].at # "error" /\ ~Fault(c) BY <1>1, WorkBegins
<1>3. CallRight(calls[c]) /\ calls[c] \in CallType BY <1>2, WorkingEntry
<1>4. calls'[c] # [calls[c] EXCEPT !.at = "error"] BY <1>2, <1>3 DEF CallType
<1>5. calls'[c] # After(c, StageOf(calls[c].at))
  <2>1. After(c, StageOf(calls[c].at)).at \in StageNames \cup {"accepted"}
    BY <1>2, <1>3, AfterRight, StageOfWorking DEF StageReached
  <2> QED BY <2>1 DEF Working, StageNames
<1> QED BY <1>2, <1>4, <1>5, WorkMoves

\* What a call knows of its devices once it has looked them up.
LEMMA FirmwareKept ==
  ASSUME IInv, [Next]_vars, NEW c \in Calls, calls[c] # Idle,
         calls[c].at \notin {"device", "lookup"}
  PROVE  /\ calls'[c].firmware = calls[c].firmware
         /\ calls'[c] # Idle /\ calls'[c].batch = calls[c].batch
         /\ calls'[c].at \notin {"device", "lookup"}
<1>k. calls'[c] # Idle /\ calls'[c].batch = calls[c].batch BY KeepsBatch
<1>t. calls[c] \in CallType /\ CallRight(calls[c]) BY DEF IInv, CallsRight, CallRight
<1>1. CASE calls'[c] = calls[c] BY <1>1, <1>k
<1>2. CASE calls'[c] # calls[c]
  <2>1. Reads(c) \/ Writes(c) \/ Fault(c) BY <1>2, OwnStep DEF Call
  <2>2. CASE calls[c].at \in Working
    <3>1. CASE calls'[c] = [calls[c] EXCEPT !.at = "error"]
      BY <1>k, <1>t, <3>1 DEF CallType
    <3>2. CASE Stays(calls[c], calls'[c])
      BY <1>k, <3>2 DEF Stays, Working, StageNames
    <3>3. CASE calls'[c] = After(c, StageOf(calls[c].at))
      <4>1. calls'[c].at \in StageNames \cup {"accepted"}
        BY <1>t, <2>2, <3>3, AfterRight, StageOfWorking DEF StageReached
      <4>2. calls'[c].at \notin {"device", "lookup", "error"} BY <4>1 DEF StageNames
      <4>3. calls'[c].firmware = calls[c].firmware BY <2>1, <2>2, <4>2, Progress
      <4> QED BY <1>k, <4>2, <4>3
    <3> QED BY <2>1, <2>2, <3>1, <3>2, <3>3, WorkMoves
  <2>3. CASE Store(c)
    <3>1. Becomes(c, WithEntry([calls[c] EXCEPT !.receivedAt = clock'], 1)) BY <2>3 DEF Store
    <3>2. calls'[c] = WithEntry([calls[c] EXCEPT !.receivedAt = clock'], 1)
      BY <3>1, BecomesIt
    <3>3. calls'[c].firmware = calls[c].firmware BY <1>t, <3>2 DEF WithEntry, CallType
    <3>4. calls'[c].at \in StageNames \cup {"accepted"} BY <2>3, StoreRight
    <3> QED BY <1>k, <3>3, <3>4 DEF StageNames
  <2>4. CASE Fault(c)
    <3>1. calls'[c] = [calls[c] EXCEPT !.at = "error"] BY <2>4, BecomesIt DEF Fault, AfterFault
    <3> QED BY <1>k, <1>t, <3>1 DEF CallType
  <2>5. CASE calls[c].at \notin Working /\ ~Store(c) /\ ~Fault(c)
    <3>1. LookupPublisher(c) \/ Lookup(c)
      BY <2>1, <2>5, WhileWorking DEF Reads, Writes, RowSteps
    <3> QED BY <3>1 DEF LookupPublisher, Lookup
  <2> QED BY <2>2, <2>3, <2>4, <2>5
<1> QED BY <1>1, <1>2

\* While a call is current, what others do leaves its tables alone.
LEMMA Elsewhere ==
  ASSUME SerialInv, [Next]_vars, NEW c \in Calls, Current(c)',
         ~(Call(c) \/ Reads(c) \/ Writes(c) \/ Fault(c))
  PROVE  /\ calls'[c] = calls[c] /\ Current(c)
         /\ UNCHANGED <<alarms, updates>>
<1>i. IInv BY DEF SerialInv
<1>1. calls'[c] = calls[c] BY <1>i, OwnStep
<1>2. Current(c)
  <2>1. CASE c \in Open' BY <1>1, <2>1 DEF Current, Open, Ended
  <2>2. CASE LastCall(c)' /\ \E b \in Calls : b # c BY <1>1, <2>2, NobodyElse
  <2>3. CASE LastCall(c)' /\ ~\E b \in Calls : b # c
    BY <1>1, <2>3 DEF LastCall, Current
  <2> QED BY <2>1, <2>2, <2>3 DEF Current
<1>3. ASSUME NEW b \in Calls, Writes(b) PROVE UNCHANGED <<alarms, updates>>
  <2>1. b # c BY <1>3
  <2>2. calls[b].at \notin Working BY <1>1, <1>3, <2>1, NobodyElse
  <2>3. ~(WriteAlarm(b) \/ WriteUpdate(b) \/ CompleteUpdate(b))
    BY <2>2 DEF WriteAlarm, WriteUpdate, CompleteUpdate, Working
  <2> QED BY <1>3, <2>3, Writers
<1>4. ASSUME NEW b \in Calls, Call(b) \/ Reads(b) \/ Fault(b) PROVE UNCHANGED <<alarms, updates>>
  BY <1>4, ReadsOnly DEF Call, tables
<1>5. ASSUME Outside \/ UNCHANGED vars PROVE UNCHANGED <<alarms, updates>>
  BY <1>5 DEF Outside, ReportFirmware, Delete, RemoveLatest, vars, tables
<1> QED BY <1>1, <1>2, <1>3, <1>4, <1>5, StepKinds

-----------------------------------------------------------------------------
\* OTA updates.

\* A call that had looked its devices up saw what made the update succeed.
SeenBy(c, r) ==
  /\ calls[c] # Idle /\ calls[c].at \notin {"device", "lookup"}
  /\ \E k \in DOMAIN calls[c].batch :
       \/ calls[c].batch[k].ota = <<r, "succeeded">>
       \/ /\ calls[c].batch[k].client = updates[r].device
          /\ calls[c].firmware[k] = updates[r].target
Seen ==
  \A r \in OtaRequests : updates[r] # Nothing /\ updates[r].status = "succeeded" =>
    \E c \in Calls : SeenBy(c, r)

\* An update that waits for a version, and the last entry of a device in a batch.
Waits(r, d, version) ==
  /\ updates[r] # Nothing /\ updates[r].device = d
  /\ updates[r].target # Nothing /\ updates[r].target = version
  /\ updates[r].status = "pending"
LastOf(call, k) ==
  \A l \in DOMAIN call.batch : l > k => call.batch[l].client # call.batch[k].client

\* What a call completes is of its device and for what the device runs, and all
\* that waits for that is among it.
CompletionRight ==
  \A c \in Calls : calls[c].at = "complete" =>
    LET version == calls[c].firmware[calls[c].entry]
    IN /\ \A w \in calls[c].found :
            /\ updates[w.request].device = TargetOf(c)
            /\ w.target = version
       /\ \A r \in OtaRequests : Waits(r, TargetOf(c), version) =>
            \E w \in calls[c].found : w.request = r

\* Nothing is left waiting behind a call that is current.
Reconciled ==
  \A c \in Calls : Current(c) /\ calls[c].at \in Working \cup {"accepted"} =>
    \A k \in DOMAIN calls[c].batch, r \in OtaRequests :
      Past(calls[c], k, "reconcile") /\ LastOf(calls[c], k)
      => ~Waits(r, calls[c].batch[k].client, calls[c].firmware[k])

UpdatesInv == SerialInv /\ Seen /\ CompletionRight /\ Reconciled

\* What the two writers of the table write.
LEMMA UpdateWritten ==
  ASSUME IInv, NEW c \in Calls, WriteUpdate(c)
  PROVE  /\ calls[c].at = "otaWrite" /\ calls[c].at \in Working
         /\ \/ UNCHANGED updates
            \/ \E status \in OtaStatuses, target \in Versions \cup {Nothing}, q \in OtaRequests :
                 /\ EntryOf(c).ota = <<q, status>>
                 /\ updates' = [updates EXCEPT ![q] =
                       [device |-> TargetOf(c), status |-> status, target |-> target]]
<1>1. calls[c].at = "otaWrite" /\ calls[c].at \in Working BY DEF WriteUpdate, Working
<1>2. EntryOf(c) \in Entry /\ EntryOf(c).ota # Nothing
      /\ \E w \in UpdateWrite : calls[c].found = {w}
  BY <1>1, WorkingEntry DEF Needed, StageOf, EntryOf, CallRight
<1>3. EntryOf(c).ota \in OtaRequests \X OtaStatuses BY <1>2 DEF Entry
<1> DEFINE row == CHOOSE w \in calls[c].found : TRUE
<1>4. row.target \in Versions \cup {Nothing} BY <1>2 DEF UpdateWrite
<1>5. \/ UNCHANGED updates
      \/ updates' = [updates EXCEPT ![EntryOf(c).ota[1]] =
            [device |-> TargetOf(c), status |-> EntryOf(c).ota[2], target |-> row.target]]
  BY DEF WriteUpdate
<1> HIDE DEF row
<1>6. PICK q \in OtaRequests, status \in OtaStatuses : EntryOf(c).ota = <<q, status>> BY <1>3
<1>7. EntryOf(c).ota[1] = q /\ EntryOf(c).ota[2] = status BY <1>6
<1> QED BY <1>1, <1>4, <1>5, <1>6, <1>7

LEMMA UpdateCompleted ==
  ASSUME IInv, NEW c \in Calls, CompleteUpdate(c)
  PROVE  /\ calls[c].at = "complete" /\ calls[c].at \in Working
         /\ \E w \in calls[c].found :
              /\ w \in Completion /\ updates[w.request] \in UpdateRow
              /\ updates' = [updates EXCEPT ![w.request] =
                   [device |-> updates[w.request].device, status |-> "succeeded",
                    target |-> w.target]]
              /\ \/ calls[c].found = {w} /\ calls'[c] = After(c, "reconcile")
                 \/ calls'[c] = [calls[c] EXCEPT !.found = @ \ {w}]
<1>1. calls[c].at = "complete" /\ calls[c].at \in Working BY DEF CompleteUpdate, Working
<1>2. calls[c] # Idle /\ calls[c].found \subseteq Completion BY <1>1, WorkingEntry DEF CallRight
<1>3. PICK w \in calls[c].found :
        /\ updates' = [updates EXCEPT ![w.request].status = "succeeded",
                                      ![w.request].target = w.target]
        /\ Becomes(c, IF calls[c].found = {w} THEN After(c, "reconcile")
                      ELSE [calls[c] EXCEPT !.found = @ \ {w}])
  BY DEF CompleteUpdate
<1>4. w \in Completion /\ w.request \in OtaRequests BY <1>2 DEF Completion
<1>5. updates[w.request] \in UpdateRow BY <1>1, <1>2, <1>4 DEF IInv, TypeOK, CallsRight
<1> DEFINE new == [[updates[w.request] EXCEPT !.status = "succeeded"] EXCEPT !.target = w.target]
<1>6. updates' = [updates EXCEPT ![w.request] = new]
  BY <1>3, <1>4 DEF IInv, TypeOK
<1>7. new = [device |-> updates[w.request].device, status |-> "succeeded", target |-> w.target]
  <2>1. w.target \in Versions \cup {Nothing} BY <1>4 DEF Completion
  <2>2. new \in UpdateRow BY <1>5, <2>1 DEF UpdateRow, OtaStatuses
  <2>3. /\ new.device = updates[w.request].device /\ new.status = "succeeded"
        /\ new.target = w.target
    BY <1>5 DEF UpdateRow
  <2> HIDE DEF new
  <2>4. new = [device |-> new.device, status |-> new.status, target |-> new.target]
    BY <2>2 DEF UpdateRow
  <2> QED BY <2>3, <2>4
<1>8. \/ calls[c].found = {w} /\ calls'[c] = After(c, "reconcile")
      \/ calls'[c] = [calls[c] EXCEPT !.found = @ \ {w}]
  BY <1>3, BecomesIt
<1> HIDE DEF new
<1> QED BY <1>1, <1>4, <1>5, <1>6, <1>7, <1>8

\* What a call lists as done: all that waits for what its device runs.
LEMMA PendingListed ==
  ASSUME IInv, NEW c \in Calls, ListPending(c)
  PROVE  LET version == calls[c].firmware[calls[c].entry]
             d == TargetOf(c)
         IN /\ calls[c].at = "reconcile" /\ UNCHANGED updates
            /\ \/ /\ calls'[c] = After(c, "reconcile")
                  /\ \A r \in OtaRequests : ~Waits(r, d, version)
               \/ \E found :
                    /\ calls'[c] = [calls[c] EXCEPT !.at = "complete", !.found = found]
                    /\ \A w \in found : updates[w.request].device = d /\ w.target = version
                    /\ \A r \in OtaRequests : Waits(r, d, version) =>
                         \E w \in found : w.request = r
<1> DEFINE version == calls[c].firmware[calls[c].entry]
           d == TargetOf(c)
           target(r, answer) == IF updates[r].target # Nothing THEN updates[r].target ELSE answer
           done(answer) == {r \in PendingOf(d) : RunsTarget(version, target(r, answer))}
           found(answer) == {[request |-> r, target |-> target(r, answer)] : r \in done(answer)}
<1>1. PICK answer \in Answers :
        Becomes(c, IF done(answer) = {} THEN After(c, "reconcile")
                   ELSE [calls[c] EXCEPT !.at = "complete", !.found = found(answer)])
  BY DEF ListPending, AllOf
<1>2. calls[c].at = "reconcile" /\ UNCHANGED updates BY DEF ListPending, tables
<1>3. ASSUME NEW r \in OtaRequests, Waits(r, d, version) PROVE r \in done(answer)
  BY <1>3 DEF Waits, PendingOf, RunsTarget
<1>4. ASSUME NEW w \in found(answer) PROVE updates[w.request].device = d /\ w.target = version
  BY DEF PendingOf, RunsTarget
<1>5. ASSUME NEW r \in OtaRequests, Waits(r, d, version)
      PROVE  \E w \in found(answer) : w.request = r
  <2>1. r \in done(answer) BY <1>3, <1>5
  <2>2. [request |-> r, target |-> target(r, answer)] \in found(answer) BY <2>1
  <2>3. [request |-> r, target |-> target(r, answer)].request = r OBVIOUS
  <2> HIDE DEF found, target
  <2> QED BY <2>2, <2>3
<1>6. CASE done(answer) = {}
  <2>1. calls'[c] = After(c, "reconcile") BY <1>1, <1>6, BecomesIt
  <2>2. \A r \in OtaRequests : ~Waits(r, d, version) BY <1>3, <1>6
  <2> QED BY <1>2, <2>1, <2>2
<1>7. CASE done(answer) # {}
  <2>1. calls'[c] = [calls[c] EXCEPT !.at = "complete", !.found = found(answer)]
    BY <1>1, <1>7, BecomesIt
  <2> HIDE DEF done, found
  <2> QED BY <1>2, <1>4, <1>5, <2>1
<1> QED BY <1>6, <1>7

LEMMA SeenStep ==
  ASSUME UpdatesInv, [Next]_vars
  PROVE  Seen'
<1>i. IInv BY DEF UpdatesInv, SerialInv
<1> SUFFICES ASSUME NEW r \in OtaRequests, updates'[r] # Nothing, updates'[r].status = "succeeded"
             PROVE  \E c \in Calls : SeenBy(c, r)'
  BY DEF Seen
<1>u. updates \in [OtaRequests -> UpdateRow \cup {Nothing}] BY <1>i DEF IInv, TypeOK
<1>1. CASE updates'[r] = updates[r]
  <2>1. PICK c \in Calls : SeenBy(c, r) BY <1>1 DEF UpdatesInv, Seen
  <2>2. /\ calls'[c].firmware = calls[c].firmware
        /\ calls'[c] # Idle /\ calls'[c].batch = calls[c].batch
        /\ calls'[c].at \notin {"device", "lookup"}
    BY <1>i, <2>1, FirmwareKept DEF SeenBy
  <2>3. SeenBy(c, r)' BY <1>1, <2>1, <2>2 DEF SeenBy
  <2> QED BY <2>3
<1>w. ASSUME NEW c \in Calls, calls[c].at \in Working
      PROVE  /\ calls'[c].firmware = calls[c].firmware
             /\ calls'[c] # Idle /\ calls'[c].batch = calls[c].batch
             /\ calls'[c].at \notin {"device", "lookup"}
             /\ calls[c].entry \in DOMAIN calls[c].batch
  <2>1. calls[c] # Idle /\ calls[c].at \notin {"device", "lookup"}
    BY <1>i, <1>w, WorkingIsOpen DEF Working, StageNames
  <2>2. calls[c].entry \in 1..Len(calls[c].batch) /\ calls[c].batch \in Seq(Entry)
    BY <1>i, <1>w, WorkingEntry DEF CallType
  <2>3. calls[c].entry \in DOMAIN calls[c].batch BY <2>2
  <2> QED BY <1>i, <2>1, <2>3, FirmwareKept
<1>2. ASSUME updates'[r] # updates[r], NEW c \in Calls, WriteUpdate(c) PROVE SeenBy(c, r)'
  <2>1. calls[c].at \in Working BY <1>i, <1>2, UpdateWritten
  <2>2. PICK status \in OtaStatuses, target \in Versions \cup {Nothing}, q \in OtaRequests :
          /\ EntryOf(c).ota = <<q, status>>
          /\ updates' = [updates EXCEPT ![q] =
                [device |-> TargetOf(c), status |-> status, target |-> target]]
    BY <1>i, <1>2, UpdateWritten
  <2>3. q = r /\ updates'[r] = [device |-> TargetOf(c), status |-> status, target |-> target]
    BY <1>2, <1>u, <2>2
  <2>4. status = "succeeded" BY <2>3
  <2>5. EntryOf(c).ota = <<r, "succeeded">> BY <2>2, <2>3, <2>4
  <2> QED BY <1>w, <2>1, <2>5 DEF SeenBy, EntryOf
<1>3. ASSUME updates'[r] # updates[r], NEW c \in Calls, CompleteUpdate(c) PROVE SeenBy(c, r)'
  <2>1. calls[c].at \in Working /\ calls[c].at = "complete" BY <1>i, <1>3, UpdateCompleted
  <2>2. PICK w \in calls[c].found :
          updates' = [updates EXCEPT ![w.request] =
            [device |-> updates[w.request].device, status |-> "succeeded", target |-> w.target]]
    BY <1>i, <1>3, UpdateCompleted
  <2>3. w.request = r /\ updates'[r].device = updates[r].device /\ updates'[r].target = w.target
    BY <1>3, <1>u, <2>2
  <2>4. updates[r].device = TargetOf(c) /\ w.target = calls[c].firmware[calls[c].entry]
    BY <2>1, <2>3 DEF UpdatesInv, CompletionRight
  <2> QED BY <1>w, <2>1, <2>3, <2>4 DEF SeenBy, TargetOf, EntryOf
<1>4. ASSUME NEW c \in Calls, Call(c) \/ Reads(c) \/ Fault(c) PROVE UNCHANGED updates
  BY <1>4, ReadsOnly DEF Call, tables
<1>5. ASSUME Outside \/ UNCHANGED vars PROVE UNCHANGED updates
  BY <1>5 DEF Outside, ReportFirmware, Delete, RemoveLatest, vars, tables
<1> QED BY <1>1, <1>2, <1>3, <1>4, <1>5, StepKinds, Writers

LEMMA CompletionStep ==
  ASSUME UpdatesInv, [Next]_vars
  PROVE  CompletionRight'
<1>i. IInv /\ SerialInv BY DEF UpdatesInv, SerialInv
<1>u. updates \in [OtaRequests -> UpdateRow \cup {Nothing}] BY <1>i DEF IInv, TypeOK
<1> DEFINE Right(c) ==
      LET version == calls[c].firmware[calls[c].entry]
      IN /\ \A w \in calls[c].found :
              /\ updates[w.request].device = TargetOf(c)
              /\ w.target = version
         /\ \A r \in OtaRequests : Waits(r, TargetOf(c), version) =>
              \E w \in calls[c].found : w.request = r
<1> SUFFICES ASSUME NEW c \in Calls, calls'[c].at = "complete" PROVE Right(c)'
  BY DEF CompletionRight
<1>n. calls'[c].at \in Working \ StageNames BY DEF Working, StageNames
<1>1. CASE ~(Call(c) \/ Reads(c) \/ Writes(c) \/ Fault(c))
  <2>1. calls'[c] = calls[c] BY <1>1, <1>i, OwnStep
  <2>2. Current(c)'
    <3>1. c \in Open BY <1>i, <1>n, <2>1, WorkingIsOpen
    <3> QED BY <2>1, <3>1 DEF Current, Open, Ended
  <2>3. UNCHANGED updates BY <1>1, <1>i, <2>2, Elsewhere
  <2>4. Right(c) BY <2>1 DEF UpdatesInv, CompletionRight
  <2> QED BY <2>1, <2>3, <2>4 DEF TargetOf, EntryOf, Waits
<1>2. CASE Call(c)
  <2>1. PICK p \in Publishes : calls'[c] = Called(p[1], p[2]) BY <1>i, <1>2, BecomesIt DEF Call
  <2> QED BY <2>1, CalledRight
<1>3. CASE Reads(c) \/ Writes(c) \/ Fault(c)
  <2>1. calls[c].at \in Working /\ Stays(calls[c], calls'[c]) /\ ~Fault(c)
    BY <1>i, <1>3, <1>n, WithinStage
  <2>2. calls[c].at \in {"reconcile", "complete"}
    BY <2>1 DEF Stays, StageOf, Working, StageNames
  <2>3. TargetOf(c)' = TargetOf(c)
        /\ calls'[c].firmware[calls'[c].entry] = calls[c].firmware[calls[c].entry]
    BY <2>1 DEF Stays, TargetOf, EntryOf
  <2>t. calls[c] \in CallType BY <1>i, <2>1, WorkingEntry
  <2>a. \A stage \in StageNames : After(c, stage).at # "complete"
    BY <1>i, <2>1, WorkingEntry, AfterRight DEF StageReached, StageNames
  <2>4. ListPending(c) \/ CompleteUpdate(c)
    BY <1>3, <2>1, <2>2 DEF Reads, Writes, RowSteps, LookupPublisher, Lookup, Store, Locate,
       Update, Create, UpdateAgain, ListAlarms, WriteAlarm, ListUpdate, WriteUpdate,
       ListDownlink, WriteDownlink
  <2> DEFINE version == calls[c].firmware[calls[c].entry]
             d == TargetOf(c)
  <2>5. CASE ListPending(c)
    <3>1. UNCHANGED updates BY <1>i, <2>5, PendingListed
    <3>2. calls'[c] # After(c, "reconcile") BY <2>a DEF StageNames
    <3>3. PICK found :
            /\ calls'[c] = [calls[c] EXCEPT !.at = "complete", !.found = found]
            /\ \A w \in found : updates[w.request].device = d /\ w.target = version
            /\ \A r \in OtaRequests : Waits(r, d, version) => \E w \in found : w.request = r
      BY <1>i, <2>5, <3>2, PendingListed
    <3>4. calls'[c].found = found BY <2>t, <3>3 DEF CallType
    <3> HIDE DEF version, d
    <3>5. \A r : Waits(r, d, version)' <=> Waits(r, d, version)'
      OBVIOUS
    <3>6. /\ \A w \in calls'[c].found : updates'[w.request].device = d /\ w.target = version
          /\ \A r \in OtaRequests :
               /\ updates'[r] # Nothing /\ updates'[r].device = d
               /\ updates'[r].target # Nothing /\ updates'[r].target = version
               /\ updates'[r].status = "pending"
               => \E w \in calls'[c].found : w.request = r
      BY <3>1, <3>3, <3>4 DEF Waits
    <3> QED BY <2>3, <3>6 DEF Waits, version, d
  <2>6. CASE CompleteUpdate(c)
    <3>1. calls[c].at = "complete" BY <1>i, <2>6, UpdateCompleted
    <3>2. calls'[c] # After(c, "reconcile") BY <2>a DEF StageNames
    <3>3. PICK w \in calls[c].found :
            /\ updates' = [updates EXCEPT ![w.request] =
                 [device |-> updates[w.request].device, status |-> "succeeded",
                  target |-> w.target]]
            /\ calls'[c] = [calls[c] EXCEPT !.found = @ \ {w}]
      BY <1>i, <2>6, <3>2, UpdateCompleted
    <3>4. calls'[c].found = calls[c].found \ {w} BY <2>t, <3>3 DEF CallType
    <3>5. /\ \A x \in calls[c].found : updates[x.request].device = d /\ x.target = version
          /\ \A r \in OtaRequests : Waits(r, d, version) =>
               \E x \in calls[c].found : x.request = r
      BY <3>1 DEF UpdatesInv, CompletionRight
    <3>6. calls[c].found \subseteq Completion BY <1>i, <3>1, <2>1, WorkingEntry DEF CallRight
    <3> HIDE DEF version, d
    <3>7. ASSUME NEW x \in calls'[c].found
          PROVE  updates'[x.request].device = d /\ x.target = version
      <4>1. x.request \in OtaRequests /\ x \in calls[c].found
        BY <3>4, <3>6 DEF Completion
      <4> QED BY <1>u, <3>3, <3>5, <4>1
    <3>8. ASSUME NEW r \in OtaRequests,
                 updates'[r] # Nothing, updates'[r].device = d,
                 updates'[r].target # Nothing, updates'[r].target = version,
                 updates'[r].status = "pending"
          PROVE  \E x \in calls'[c].found : x.request = r
      <4>1. w.request # r
        <5>1. SUFFICES ASSUME w.request = r PROVE FALSE OBVIOUS
        <5>2. updates'[r] = [device |-> updates[r].device, status |-> "succeeded",
                             target |-> w.target]
          BY <1>u, <3>3, <5>1
        <5> QED BY <3>8, <5>2
      <4>2. updates'[r] = updates[r] BY <1>u, <3>3, <4>1
      <4>3. PICK x \in calls[c].found : x.request = r BY <3>5, <3>8, <4>2 DEF Waits
      <4>4. x # w BY <4>1, <4>3
      <4> QED BY <3>4, <4>3, <4>4
    <3> QED BY <2>3, <3>7, <3>8 DEF Waits, version, d
  <2> QED BY <2>4, <2>5, <2>6
<1> QED BY <1>1, <1>2, <1>3

LEMMA ReconciledStep ==
  ASSUME UpdatesInv, [Next]_vars
  PROVE  Reconciled'
<1>i. IInv /\ SerialInv BY DEF UpdatesInv, SerialInv
<1>u. updates \in [OtaRequests -> UpdateRow \cup {Nothing}] BY <1>i DEF IInv, TypeOK
<1> SUFFICES ASSUME NEW c \in Calls, Current(c)', calls'[c].at \in Working \cup {"accepted"},
                    NEW k \in DOMAIN calls'[c].batch, NEW r \in OtaRequests,
                    Past(calls[c], k, "reconcile")', LastOf(calls[c], k)',
                    Waits(r, calls[c].batch[k].client, calls[c].firmware[k])'
             PROVE  FALSE
  BY DEF Reconciled
<1>p. Past(calls'[c], k, "reconcile") /\ LastOf(calls'[c], k) BY DEF Past, LastOf
<1>w. /\ updates'[r] # Nothing /\ updates'[r].device = calls'[c].batch[k].client
      /\ updates'[r].target # Nothing /\ updates'[r].target = calls'[c].firmware[k]
      /\ updates'[r].status = "pending"
  BY DEF Waits
<1>r. "reconcile" \in StageNames BY DEF StageNames
<1>1. CASE ~(Call(c) \/ Reads(c) \/ Writes(c) \/ Fault(c))
  <2>1. calls'[c] = calls[c] /\ Current(c) /\ UNCHANGED updates BY <1>1, <1>i, Elsewhere
  <2> QED BY <1>p, <1>w, <2>1 DEF UpdatesInv, Reconciled, Waits
<1>2. CASE Call(c)
  <2>1. PICK p \in Publishes : calls'[c] = Called(p[1], p[2]) BY <1>i, <1>2, BecomesIt DEF Call
  <2>2. calls'[c].at = "device" BY <2>1, CalledRight
  <2> QED BY <2>2 DEF Working, StageNames
<1>3. CASE Store(c)
  <2> DEFINE stamped == [calls[c] EXCEPT !.receivedAt = clock']
  <2>1. calls'[c] = WithEntry(stamped, 1) BY <1>i, <1>3, BecomesIt DEF Store
  <2>2. CallRight(calls[c]) /\ calls[c] \in CallType /\ clock' \in Nat /\ calls[c].at = "store"
        /\ calls'[c].batch = calls[c].batch
    BY <1>i, <1>3, StoreRight DEF CallRight
  <2>3. stamped \in CallType /\ stamped.batch = calls[c].batch
        /\ stamped.firmware = calls[c].firmware /\ stamped.publisher = calls[c].publisher
    BY <2>2 DEF CallType
  <2>4. Len(stamped.batch) \in 1..16 /\ Len(stamped.firmware) = Len(stamped.batch)
        /\ \A l \in 1..Len(stamped.batch) : Allowed(stamped, l)
    BY <2>2, <2>3 DEF CallRight, Allowed
  <2>5. k \in 1..Len(stamped.batch)
    <3>1. stamped.batch \in Seq(Entry) BY <2>3 DEF CallType
    <3> HIDE DEF stamped
    <3>2. DOMAIN stamped.batch = 1..Len(stamped.batch) BY <3>1
    <3> QED BY <2>2, <2>3, <3>2
  <2>6. calls'[c].firmware = stamped.firmware BY <2>1, <2>3 DEF WithEntry, CallType
  <2> HIDE DEF stamped
  <2>7. ~Needed(stamped, k, "reconcile")
    <3>1. ~(k < 1) BY <2>5
    <3>2. 1 \in Nat \ {0} OBVIOUS
    <3> QED BY <1>p, <1>r, <2>1, <2>3, <2>4, <2>5, <3>1, <3>2, WithEntryPast
  <2> QED BY <1>w, <2>6, <2>7 DEF Needed
<1>4. CASE (Reads(c) \/ Writes(c) \/ Fault(c)) /\ ~Store(c)
  <2>1. calls[c].at \in Working /\ calls'[c].at # "error" /\ ~Fault(c) BY <1>4, <1>i, WorkBegins
  <2>2. /\ calls'[c].batch = calls[c].batch /\ calls'[c].firmware = calls[c].firmware
        /\ \A l \in DOMAIN calls[c].batch, stage \in StageNames :
             /\ Past(calls[c], l, stage) => Past(calls'[c], l, stage)
             /\ Past(calls'[c], l, stage) /\ Needed(calls[c], l, stage)
                => \/ Past(calls[c], l, stage)
                   \/ /\ l = calls[c].entry /\ stage = StageOf(calls[c].at)
                      /\ calls'[c] = After(c, stage)
    BY <1>4, <1>i, <2>1, Progress
  <2> DEFINE d == calls[c].batch[k].client
             version == calls[c].firmware[k]
  <2>3. /\ updates'[r] # Nothing /\ updates'[r].device = d
        /\ updates'[r].target # Nothing /\ updates'[r].target = version
        /\ updates'[r].status = "pending" /\ k \in DOMAIN calls[c].batch
        /\ LastOf(calls[c], k)
    BY <1>p, <1>w, <2>2 DEF LastOf
  <2>4. Needed(calls[c], k, "reconcile") BY <2>3 DEF Needed
  <2>5. c \in Open /\ Current(c) BY <1>i, <2>1, WorkingIsOpen DEF Current
  <2>c. CallRight(calls[c]) /\ calls[c].entry \in DOMAIN calls[c].batch
    <3>1. CallRight(calls[c]) /\ calls[c].entry \in 1..Len(calls[c].batch)
          /\ calls[c].batch \in Seq(Entry)
      BY <1>i, <2>1, WorkingEntry DEF CallType
    <3> QED BY <3>1
  <2>6. ASSUME updates'[r] # updates[r]
        PROVE  WriteUpdate(c) /\ updates'[r].device = TargetOf(c)
    <3>1. WriteUpdate(c) \/ CompleteUpdate(c)
      <4>1. CASE Reads(c) BY <2>6, <4>1, ReadsOnly DEF tables
      <4> QED BY <1>4, <2>1, <2>6, <4>1, Writers
    <3>2. CASE CompleteUpdate(c)
      <4>1. PICK w \in calls[c].found :
              updates' = [updates EXCEPT ![w.request] =
                [device |-> updates[w.request].device, status |-> "succeeded",
                 target |-> w.target]]
        BY <1>i, <3>2, UpdateCompleted
      <4>2. updates'[r].status = "succeeded" BY <1>u, <2>6, <4>1
      <4> QED BY <2>3, <4>2
    <3>3. CASE WriteUpdate(c)
      <4>1. PICK status \in OtaStatuses, target \in Versions \cup {Nothing}, q \in OtaRequests :
              updates' = [updates EXCEPT ![q] =
                [device |-> TargetOf(c), status |-> status, target |-> target]]
        BY <1>i, <2>6, <3>3, UpdateWritten
      <4> QED BY <1>u, <2>6, <3>3, <4>1
    <3> QED BY <3>1, <3>2, <3>3
  <2>7. CASE Past(calls[c], k, "reconcile")
    <3>1. ~Waits(r, d, version) BY <2>1, <2>3, <2>5, <2>7 DEF UpdatesInv, Reconciled
    <3>2. updates'[r] # updates[r] BY <2>3, <3>1 DEF Waits
    <3>3. WriteUpdate(c) /\ updates'[r].device = TargetOf(c) BY <2>6, <3>2
    <3>4. calls[c].at = "otaWrite" BY <3>3 DEF WriteUpdate
    <3>5. StageOf(calls[c].at) = "ota" /\ "ota" \in StageNames
      BY <3>4 DEF StageOf, StageNames
    <3>6. Rank("reconcile") = 5 /\ Rank("ota") = 4
      <4>1. Stages[4] = "ota" /\ Stages[5] = "reconcile" BY DEF Stages
      <4> QED BY <4>1, RankRight
    <3>7. k < calls[c].entry BY <2>7, <3>4, <3>5, <3>6 DEF Past
    <3>8. calls[c].batch[calls[c].entry].client # d BY <2>3, <2>c, <3>7 DEF LastOf
    <3> QED BY <2>3, <3>3, <3>8 DEF TargetOf, EntryOf
  <2>8. CASE k = calls[c].entry /\ "reconcile" = StageOf(calls[c].at)
             /\ calls'[c] = After(c, "reconcile")
    <3>1. calls[c].at \in {"reconcile", "complete"}
      BY <2>1, <2>8 DEF StageOf, Working, StageNames
    <3>2. d = TargetOf(c) /\ version = calls[c].firmware[calls[c].entry]
      BY <2>8 DEF TargetOf, EntryOf
    <3>3. updates'[r] = updates[r]
      BY <2>6, <3>1 DEF WriteUpdate
    <3>4. Waits(r, d, version) BY <2>3, <3>3 DEF Waits
    <3>5. CASE calls[c].at = "reconcile"
      <4>1. ListPending(c)
        BY <1>4, <2>1, <3>5 DEF Reads, Writes, RowSteps, LookupPublisher, Lookup, Locate,
           Update, Create, UpdateAgain, ListAlarms, WriteAlarm, ListUpdate, WriteUpdate,
           ListDownlink, WriteDownlink, CompleteUpdate
      <4>2. \A found : calls'[c] # [calls[c] EXCEPT !.at = "complete", !.found = found]
        <5>1. calls'[c].at # "complete" BY <2>1, <2>8, <2>c, <1>r, AfterRight DEF StageReached, StageNames
        <5> QED BY <2>c, <5>1 DEF CallRight, CallType
      <4>3. \A q \in OtaRequests : ~Waits(q, TargetOf(c), calls[c].firmware[calls[c].entry])
        BY <1>i, <4>1, <4>2, PendingListed
      <4> QED BY <3>2, <3>4, <4>3
    <3>6. CASE calls[c].at = "complete"
      <4>1. CompleteUpdate(c)
        BY <1>4, <2>1, <3>6 DEF Reads, Writes, RowSteps, LookupPublisher, Lookup, Locate,
           Update, Create, UpdateAgain, ListAlarms, WriteAlarm, ListUpdate, WriteUpdate,
           ListPending, ListDownlink, WriteDownlink
      <4>2. \A w : calls'[c] # [calls[c] EXCEPT !.found = @ \ {w}]
        <5>1. calls'[c].at # "complete" BY <2>1, <2>8, <2>c, <1>r, AfterRight DEF StageReached, StageNames
        <5> QED BY <2>c, <3>6, <5>1 DEF CallRight, CallType
      <4>3. PICK w \in calls[c].found :
              /\ updates' = [updates EXCEPT ![w.request] =
                   [device |-> updates[w.request].device, status |-> "succeeded",
                    target |-> w.target]]
              /\ calls[c].found = {w}
        BY <1>i, <4>1, <4>2, UpdateCompleted
      <4>4. PICK x \in calls[c].found : x.request = r
        BY <3>2, <3>4, <3>6 DEF UpdatesInv, CompletionRight
      <4>5. w.request = r BY <4>3, <4>4
      <4>6. updates'[r].status = "succeeded" BY <1>u, <4>3, <4>5
      <4> QED BY <2>3, <4>6
    <3> QED BY <3>1, <3>5, <3>6
  <2> QED BY <1>p, <1>r, <2>2, <2>3, <2>4, <2>7, <2>8
<1> QED BY <1>1, <1>2, <1>3, <1>4

LEMMA UpdatesInit == Init => UpdatesInv
<1> SUFFICES ASSUME Init PROVE UpdatesInv OBVIOUS
<1>1. IInv BY IngestInit
<1>2. Serial /\ Timely BY SerialInit
<1>3. Seen /\ CompletionRight /\ Reconciled
  BY DEF Init, Seen, CompletionRight, Reconciled, Idle, Working, StageNames
<1> QED BY <1>1, <1>2, <1>3 DEF UpdatesInv, SerialInv

LEMMA UpdatesSettleFrom == UpdatesInv => UpdatesSettle
<1> SUFFICES ASSUME UpdatesInv PROVE UpdatesSettle OBVIOUS
<1>1. SucceededWasSeen
  BY DEF UpdatesInv, Seen, SeenBy, SucceededWasSeen
<1>2. ReconcileCompletes
  <2> SUFFICES ASSUME NEW c \in Calls, LastCall(c), calls[c].at = "accepted",
                      NEW k \in DOMAIN calls[c].batch, NEW r \in OtaRequests,
                      LastOf(calls[c], k),
                      updates[r] # Nothing, updates[r].device = calls[c].batch[k].client,
                      updates[r].target # Nothing, updates[r].target = calls[c].firmware[k]
               PROVE  updates[r].status # "pending"
    BY DEF ReconcileCompletes, LastOf
  <2>1. Past(calls[c], k, "reconcile") BY DEF Past
  <2>2. ~Waits(r, calls[c].batch[k].client, calls[c].firmware[k])
    BY <2>1 DEF UpdatesInv, Reconciled, Current
  <2> QED BY <2>2 DEF Waits
<1> QED BY <1>1, <1>2 DEF UpdatesSettle

\* Where calls follow one another, and whatever fails, is deleted or changes its
\* firmware meanwhile: an update is shown as succeeded only if its device reported
\* or ran what it was for, and no accepted reading leaves one waiting for that.
THEOREM UpdatesSettleHolds == MaxOpen = 1 /\ Spec => []UpdatesSettle
<1> SUFFICES ASSUME MaxOpen = 1 PROVE Spec => []UpdatesSettle OBVIOUS
<1>1. UpdatesInv /\ [Next]_vars => UpdatesInv'
  <2>1. ASSUME UpdatesInv, [Next]_vars PROVE SerialInv'
    BY <2>1, SerialInvStep DEF UpdatesInv
  <2> QED BY <2>1, SeenStep, CompletionStep, ReconciledStep DEF UpdatesInv
<1> QED BY <1>1, UpdatesInit, UpdatesSettleFrom, PTL DEF Spec

-----------------------------------------------------------------------------
\* The row of latest telemetry, the device and their fix.

\* The row takes over the fix of the entry a call is at.
RowDue(c) == calls[c].at \in {"update", "create", "again"} /\ EntryOf(c).place # Nothing

\* A device has the fix that its row is about to show.
Located ==
  \A c \in Calls : RowDue(c) =>
    \A d \in Devices : d = TargetOf(c) =>
      Gone(d) \/ devices[d].place = EntryOf(c).place

NoErrors == \A c \in Calls : calls[c].at # "error"
Agree(d) ==
  IF latest[d] = Nothing THEN devices[d].place = Nothing
  ELSE latest[d].place = devices[d].place
FixesAgree ==
  NoErrors => \A d \in Devices :
    Gone(d) \/ Agree(d) \/ \E c \in Calls : RowDue(c) /\ TargetOf(c) = d

FixInv == SerialInv /\ DeletedAreGone /\ Located /\ FixesAgree

LEMMA RowStages ==
  /\ \A step \in Working : Rank(StageOf(step)) = 2 <=> step \in {"update", "create", "again"}
  /\ \A step \in Working : Rank(StageOf(step)) = 1 <=> step = "locate"
  /\ \A step \in Working : Rank(StageOf(step)) \in 1..6
<1>1. ASSUME NEW step \in Working PROVE StageOf(step) \in StageNames BY StageOfWorking
<1>2. \A stage \in StageNames : (Rank(stage) = 2 => stage = "update") /\ Rank(stage) \in 1..6
                              /\ (Rank(stage) = 1 => stage = "locate")
  BY RankRight DEF Stages
<1>3. \A step \in Working : StageOf(step) = "update" <=> step \in {"update", "create", "again"}
  BY DEF StageOf, Working, StageNames
<1>4. \A step \in Working : StageOf(step) = "locate" <=> step = "locate"
  BY DEF StageOf, Working, StageNames
<1> QED BY <1>1, <1>2, <1>3, <1>4, RankRight

\* What a device shows changes by its locating call only.
LEMMA PlaceChanges ==
  ASSUME IInv, [Next]_vars, NEW d \in Devices, ~Gone(d)'
  PROVE  /\ ~Gone(d)
         /\ \/ devices'[d].place = devices[d].place
            \/ \E c \in Calls : /\ Locate(c) /\ TargetOf(c) = d
                              /\ devices'[d].place = EntryOf(c).place
                              /\ calls'[c] = After(c, "locate")
<1>t. devices \in [Devices -> Device \cup {Nothing}] BY DEF IInv, TypeOK
<1>g. ~Gone(d) BY GoneStays
<1>d. devices[d] \in Device BY <1>t, <1>g DEF Gone
<1>1. ASSUME NEW c \in Calls, Locate(c), devices'[d].place # devices[d].place
      PROVE  /\ Locate(c) /\ TargetOf(c) = d /\ devices'[d].place = EntryOf(c).place
             /\ calls'[c] = After(c, "locate")
  <2>1. /\ devices' = [devices EXCEPT ![TargetOf(c)].place = EntryOf(c).place]
        /\ Becomes(c, After(c, "locate"))
    BY <1>1 DEF Locate
  <2>2. TargetOf(c) = d BY <1>1, <1>t, <2>1
  <2>3. devices'[d].place = EntryOf(c).place BY <1>d, <1>t, <2>1, <2>2 DEF Device
  <2> QED BY <1>1, <2>1, <2>2, <2>3, BecomesIt
<1>2. ASSUME NEW c \in Calls, Call(c) \/ Reads(c) \/ Fault(c) PROVE UNCHANGED devices
  BY <1>2, ReadsOnly DEF Call
<1>3. ASSUME Outside \/ UNCHANGED vars PROVE devices'[d].place = devices[d].place
  <2>1. ASSUME NEW x \in Devices, NEW version \in Versions, ReportFirmware(x, version)
        PROVE  devices'[d].place = devices[d].place
    BY <1>d, <1>t, <2>1 DEF ReportFirmware, Device
  <2>2. ASSUME NEW x \in Devices, Delete(x) PROVE devices'[d].place = devices[d].place
    <3>1. x # d
      <4>1. SUFFICES ASSUME x = d PROVE Gone(d)' OBVIOUS
      <4> QED BY <1>t, <2>2, <4>1 DEF Delete, Gone
    <3> QED BY <1>t, <2>2, <3>1 DEF Delete
  <2>3. ASSUME NEW x \in deleted, RemoveLatest(x) PROVE devices'[d].place = devices[d].place
    BY <2>3 DEF RemoveLatest
  <2> QED BY <1>3, <2>1, <2>2, <2>3 DEF Outside, vars
<1> QED BY <1>g, <1>1, <1>2, <1>3, StepKinds, Writers

LEMMA LocatedStep ==
  ASSUME FixInv, [Next]_vars
  PROVE  Located'
<1>i. IInv /\ SerialInv /\ Serial /\ Located BY DEF FixInv, SerialInv
<1> SUFFICES ASSUME NEW c \in Calls, RowDue(c)', NEW d \in Devices, d = TargetOf(c)', ~Gone(d)'
             PROVE  devices'[d].place = EntryOf(c)'.place
  BY DEF Located
<1>n. calls'[c].at \in Working /\ calls'[c].at \in {"update", "create", "again"}
      /\ EntryOf(c)'.place # Nothing
  BY DEF RowDue, Working, StageNames
<1>e. EntryOf(c)' = calls'[c].batch[calls'[c].entry]
      /\ d = calls'[c].batch[calls'[c].entry].client
  BY DEF EntryOf, TargetOf
<1>g. ~Gone(d) BY <1>i, GoneStays
<1>s. ASSUME RowDue(c), calls'[c].batch = calls[c].batch, calls'[c].entry = calls[c].entry,
             devices'[d].place = devices[d].place
      PROVE  devices'[d].place = EntryOf(c)'.place
  <2>1. d = TargetOf(c) /\ EntryOf(c)' = EntryOf(c) BY <1>e, <1>s DEF TargetOf, EntryOf
  <2>2. devices[d].place = EntryOf(c).place BY <1>g, <1>i, <1>s, <2>1 DEF Located
  <2> QED BY <1>s, <2>1, <2>2
<1>1. CASE ~(Call(c) \/ Reads(c) \/ Writes(c) \/ Fault(c))
  <2>1. calls'[c] = calls[c] BY <1>1, <1>i, OwnStep
  <2>2. c \in Open /\ RowDue(c) BY <1>i, <1>n, <1>e, <2>1, WorkingIsOpen DEF RowDue, EntryOf
  <2>3. ASSUME NEW b \in Calls, Locate(b) PROVE FALSE
    <3>1. b \in Open BY <1>i, <2>3, StepOpens DEF Writes
    <3>2. b = c BY <1>i, <2>2, <3>1 DEF Serial
    <3> QED BY <1>1, <2>3, <3>2 DEF Writes
  <2>4. devices'[d].place = devices[d].place BY <1>i, <2>3, PlaceChanges
  <2> QED BY <1>s, <2>1, <2>2, <2>4
<1>2. CASE Call(c)
  <2>1. PICK p \in Publishes : calls'[c] = Called(p[1], p[2]) BY <1>i, <1>2, BecomesIt DEF Call
  <2>2. calls'[c].at = "device" BY <2>1, CalledRight
  <2> QED BY <1>n, <2>2
<1>k. Past(calls'[c], calls'[c].entry, "locate") /\ ~Past(calls'[c], calls'[c].entry, "update")
  <2>1. Rank(StageOf(calls'[c].at)) = 2 BY <1>n, RowStages
  <2>2. calls'[c].entry \in Nat
    <3>1. IInv' BY <1>i, IngestStep
    <3>2. calls'[c] # Idle BY <1>n DEF Idle
    <3> QED BY <3>1, <3>2 DEF IInv, CallsRight, CallRight, CallType
  <2> QED BY <1>n, <2>1, <2>2, RankRight DEF Past
<1>r. "locate" \in StageNames /\ "update" \in StageNames BY DEF StageNames
<1>m. calls'[c].entry \in 1..Len(calls'[c].batch) /\ calls'[c].entry \in DOMAIN calls'[c].batch
  <2>1. IInv' BY <1>i, IngestStep
  <2>2. calls'[c] # Idle BY <1>n DEF Idle
  <2>3. calls'[c].entry \in 1..Len(calls'[c].batch) /\ calls'[c].batch \in Seq(Entry)
    BY <1>n, <2>1, <2>2 DEF IInv, CallsRight, CallRight, CallType
  <2>4. calls'[c].entry \in DOMAIN calls'[c].batch BY <2>3
  <2> QED BY <2>3, <2>4
<1>3. CASE Store(c)
  <2> DEFINE stamped == [calls[c] EXCEPT !.receivedAt = clock']
  <2>1. calls'[c] = WithEntry(stamped, 1) BY <1>i, <1>3, BecomesIt DEF Store
  <2>2. CallRight(calls[c]) /\ calls[c] \in CallType /\ clock' \in Nat /\ calls[c].at = "store"
        /\ calls'[c].batch = calls[c].batch
    BY <1>i, <1>3, StoreRight DEF CallRight
  <2>3. stamped \in CallType /\ stamped.batch = calls[c].batch
        /\ stamped.firmware = calls[c].firmware /\ stamped.publisher = calls[c].publisher
    BY <2>2 DEF CallType
  <2>4. Len(stamped.batch) \in 1..16 /\ Len(stamped.firmware) = Len(stamped.batch)
        /\ \A l \in 1..Len(stamped.batch) : Allowed(stamped, l)
    BY <2>2, <2>3 DEF CallRight, Allowed
  <2> HIDE DEF stamped
  <2>5. ~Needed(stamped, calls'[c].entry, "locate")
    <3>1. ~(calls'[c].entry < 1) BY <1>m
    <3>2. 1 \in Nat \ {0} OBVIOUS
    <3> QED BY <1>k, <1>m, <1>r, <2>1, <2>2, <2>3, <2>4, <3>1, <3>2, WithEntryPast
  <2> QED BY <1>e, <1>n, <2>2, <2>3, <2>5 DEF Needed
<1>4. CASE (Reads(c) \/ Writes(c) \/ Fault(c)) /\ ~Store(c)
  <2>1. calls[c].at \in Working /\ calls'[c].at # "error" /\ ~Fault(c) BY <1>4, <1>i, <1>n, WorkBegins
  <2>2. /\ calls'[c].batch = calls[c].batch
        /\ \A l \in DOMAIN calls[c].batch, stage \in StageNames :
             /\ Past(calls[c], l, stage) => Past(calls'[c], l, stage)
             /\ Past(calls'[c], l, stage) /\ Needed(calls[c], l, stage)
                => \/ Past(calls[c], l, stage)
                   \/ /\ l = calls[c].entry /\ stage = StageOf(calls[c].at)
                      /\ calls'[c] = After(c, stage)
    BY <1>4, <1>i, <2>1, Progress
  <2> DEFINE k == calls'[c].entry
  <2>3. Needed(calls[c], k, "locate") BY <1>e, <1>n, <2>2 DEF Needed
  <2>4. ~Past(calls[c], k, "update") BY <1>k, <1>m, <1>r, <2>2
  <2>5. CASE k = calls[c].entry /\ "locate" = StageOf(calls[c].at)
    <3>1. calls[c].at = "locate" BY <2>1, <2>5 DEF StageOf, Working, StageNames
    <3>2. Locate(c)
      BY <1>4, <2>1, <3>1 DEF Reads, Writes, RowSteps, LookupPublisher, Lookup,
         Update, Create, UpdateAgain, ListAlarms, WriteAlarm, ListUpdate, WriteUpdate,
         ListPending, CompleteUpdate, ListDownlink, WriteDownlink
    <3>3. TargetOf(c) = d /\ EntryOf(c)' = EntryOf(c)
      BY <1>e, <2>2, <2>5 DEF TargetOf, EntryOf
    <3>4. devices' = [devices EXCEPT ![d].place = EntryOf(c).place]
      <4>1. ~Goes(c, "error")
        <5>1. calls[c] \in CallType BY <1>i, <2>1, WorkingEntry
        <5>2. ASSUME Goes(c, "error") PROVE calls'[c].at = "error"
          <6>1. calls'[c] = [calls[c] EXCEPT !.at = "error"] BY <1>i, <5>2, BecomesIt DEF Goes
          <6> QED BY <5>1, <6>1 DEF CallType
        <5> QED BY <2>1, <5>2
      <4> QED BY <3>2, <3>3, <4>1 DEF Locate
    <3>5. devices[d] \in Device /\ devices \in [Devices -> Device \cup {Nothing}]
      BY <1>g, <1>i DEF IInv, TypeOK, Gone
    <3> QED BY <3>3, <3>4, <3>5 DEF Device
  <2>6. CASE Past(calls[c], k, "locate")
    <3>1. calls[c].at # "accepted" BY <2>1 DEF Working, StageNames
    <3>2. calls[c].entry \in Nat /\ k \in Nat /\ Rank(StageOf(calls[c].at)) \in 1..6
      BY <1>i, <1>m, <2>1, WorkingEntry, RowStages
    <3>3. k = calls[c].entry /\ Rank(StageOf(calls[c].at)) = 2
      BY <2>1, <2>4, <2>6, <3>1, <3>2, RankRight DEF Past
    <3>4. calls[c].at \in {"update", "create", "again"} BY <2>1, <3>3, RowStages
    <3>5. RowDue(c) BY <1>e, <1>n, <2>2, <3>3, <3>4 DEF RowDue, EntryOf
    <3>6. ASSUME NEW b \in Calls, Locate(b) PROVE FALSE
      <4>1. b \in Open /\ c \in Open BY <1>i, <2>1, <3>6, StepOpens, WorkingIsOpen DEF Writes
      <4>2. b = c BY <1>i, <4>1 DEF Serial
      <4> QED BY <3>4, <3>6, <4>2 DEF Locate
    <3>7. devices'[d].place = devices[d].place BY <1>i, <3>6, PlaceChanges
    <3> QED BY <1>s, <2>2, <3>3, <3>5, <3>7
  <2> QED BY <1>k, <1>m, <1>r, <2>2, <2>3, <2>5, <2>6
<1> QED BY <1>1, <1>2, <1>3, <1>4

\* A call at the row writes it, or goes on to create it or to try again.
LEMMA RowMoves ==
  ASSUME IInv, NEW c \in Calls, RowSteps(c), calls'[c].at # "error"
  PROVE  /\ calls[c].at \in {"update", "create", "again"} /\ calls[c].at \in Working
         /\ \/ latest' = [latest EXCEPT ![TargetOf(c)] = RowOf(c, latest[TargetOf(c)])]
            \/ /\ UNCHANGED latest
               /\ calls'[c].at \in {"create", "again"}
               /\ calls'[c].entry = calls[c].entry /\ calls'[c].batch = calls[c].batch
<1>1. calls[c].at \in {"update", "create", "again"} /\ calls[c].at \in Working
  BY DEF RowSteps, Update, Create, UpdateAgain, Working, StageNames
<1>2. calls[c] \in CallType BY <1>1, WorkingEntry
<1>3. latest \in [Devices -> Row \cup {Nothing}] BY DEF IInv, TypeOK
<1>4. \/ PutRow(c)
      \/ /\ UNCHANGED latest
         /\ \E step \in {"create", "again", "error"} : Becomes(c, [calls[c] EXCEPT !.at = step])
  BY DEF RowSteps, Update, Create, UpdateAgain, Goes, OnConflict
<1>5. CASE PutRow(c) BY <1>1, <1>3, <1>5 DEF PutRow
<1>6. ASSUME UNCHANGED latest, NEW step \in {"create", "again", "error"},
             Becomes(c, [calls[c] EXCEPT !.at = step])
      PROVE  /\ calls'[c].at \in {"create", "again"}
             /\ calls'[c].entry = calls[c].entry /\ calls'[c].batch = calls[c].batch
  <2>1. calls'[c] = [calls[c] EXCEPT !.at = step] BY <1>6, BecomesIt
  <2> QED BY <1>2, <2>1 DEF CallType
<1> QED BY <1>1, <1>4, <1>5, <1>6

\* A row of a device that is there changes only by the call that puts it.
LEMMA RowChanges ==
  ASSUME IInv, DeletedAreGone, [Next]_vars, NEW d \in Devices, ~Gone(d)'
  PROVE  latest'[d] = latest[d] \/ \E c \in Calls : RowSteps(c) /\ TargetOf(c) = d
<1>t. latest \in [Devices -> Row \cup {Nothing}] BY DEF IInv, TypeOK
<1>1. ASSUME NEW c \in Calls, RowSteps(c), TargetOf(c) # d PROVE latest'[d] = latest[d]
  BY <1>1, <1>t, RowWritten
<1>2. ASSUME NEW c \in Calls, Call(c) \/ Reads(c) \/ Fault(c) PROVE UNCHANGED latest
  BY <1>2, ReadsOnly DEF Call, tables
<1>3. ASSUME Outside \/ UNCHANGED vars PROVE latest'[d] = latest[d]
  <2>1. ASSUME NEW x \in deleted, RemoveLatest(x) PROVE latest'[d] = latest[d]
    <3>1. x # d
      <4>1. SUFFICES ASSUME x = d PROVE Gone(d)' OBVIOUS
      <4>2. Gone(d) BY <4>1 DEF DeletedAreGone
      <4> QED BY <4>2, GoneStays
    <3> QED BY <1>t, <2>1, <3>1 DEF RemoveLatest
  <2> QED BY <1>3, <2>1 DEF Outside, ReportFirmware, Delete, vars, tables
<1> QED BY <1>1, <1>2, <1>3, StepKinds, Writers

\* After its location a device's row is next.
LEMMA RowFollows ==
  ASSUME IInv, NEW c \in Calls, Locate(c), calls'[c] = After(c, "locate")
  PROVE  RowDue(c)' /\ TargetOf(c)' = TargetOf(c)
<1>1. calls[c].at = "locate" /\ calls[c].at \in Working /\ StageOf(calls[c].at) = "locate"
  BY DEF Locate, Working, StageNames, StageOf
<1>2. /\ CallRight(calls[c]) /\ calls[c].entry \in 1..Len(calls[c].batch)
      /\ Needed(calls[c], calls[c].entry, "locate") /\ calls[c].batch \in Seq(Entry)
  BY <1>1, WorkingEntry DEF CallType
<1>r. "locate" \in StageNames /\ "update" \in StageNames /\ "error" \notin StageNames
  BY DEF StageNames
<1>3. StageReached(calls[c], calls'[c]) BY <1>1, <1>2, <1>r, AfterRight
<1>4. CallRight(calls'[c]) /\ calls'[c].at \in StageNames \cup {"accepted"}
      /\ calls'[c].batch = calls[c].batch
  BY <1>3 DEF StageReached, Same
<1> DEFINE k == calls[c].entry
<1>5. Past(calls'[c], k, "locate") BY <1>1, <1>2, <1>r, AfterPast
<1>6. ~Past(calls[c], k, "update")
  <2>1. calls[c].at # "accepted" BY <1>1
  <2>2. k \in Nat BY <1>2 DEF CallRight, CallType
  <2>3. Rank("update") = 2 /\ Rank(StageOf(calls[c].at)) = 1 BY <1>1, RankRight
  <2> QED BY <2>1, <2>2, <2>3 DEF Past
<1>7. Needed(calls[c], k, "update") BY DEF Needed
<1>8. ~Past(calls'[c], k, "update")
  BY <1>1, <1>2, <1>6, <1>7, <1>r, AfterPast
<1>9. calls'[c].at \in Working /\ calls'[c].at # "accepted"
  BY <1>4, <1>8 DEF Past, Working
<1>10. calls'[c].entry \in Nat /\ k \in Nat /\ Rank(StageOf(calls'[c].at)) \in 1..6
  BY <1>2, <1>4, <1>9, RowStages DEF CallRight, CallType
<1>11. calls'[c].entry = k /\ Rank(StageOf(calls'[c].at)) = 2
  BY <1>5, <1>8, <1>9, <1>10, RankRight DEF Past
<1>12. calls'[c].at \in {"update", "create", "again"} BY <1>9, <1>11, RowStages
<1>13. calls[c].batch[k].place # Nothing BY <1>2 DEF Needed
<1> QED BY <1>4, <1>11, <1>12, <1>13 DEF RowDue, EntryOf, TargetOf

LEMMA FixStep ==
  ASSUME FixInv, [Next]_vars
  PROVE  FixesAgree'
<1>i. IInv /\ SerialInv /\ Serial /\ Located /\ DeletedAreGone BY DEF FixInv, SerialInv
<1> SUFFICES ASSUME NoErrors', NEW d \in Devices, ~Gone(d)', ~Agree(d)'
             PROVE  \E c \in Calls : RowDue(c)' /\ TargetOf(c)' = d
  BY DEF FixesAgree
<1>e. \A c \in Calls : calls'[c].at # "error" BY DEF NoErrors
<1>n. NoErrors
  <2> SUFFICES ASSUME NEW c \in Calls, calls[c].at = "error" PROVE FALSE BY DEF NoErrors
  <2>1. calls[c] # Idle /\ c \notin Open BY DEF Idle, Open, Ended
  <2>2. calls'[c] = calls[c] BY <1>i, <2>1, EndedStays
  <2> QED BY <1>e, <2>2
<1>g. ~Gone(d) BY <1>i, GoneStays
<1>f. Agree(d) \/ \E c \in Calls : RowDue(c) /\ TargetOf(c) = d
  BY <1>g, <1>n DEF FixInv, FixesAgree
<1>1. CASE \E c \in Calls : Locate(c) /\ TargetOf(c) = d /\ calls'[c] = After(c, "locate")
  BY <1>1, <1>i, RowFollows
<1>2. CASE devices'[d].place = devices[d].place /\ ~\E c \in Calls : RowSteps(c) /\ TargetOf(c) = d
  <2>1. latest'[d] = latest[d] BY <1>2, <1>i, RowChanges
  <2>2. ~Agree(d) BY <1>2, <2>1 DEF Agree
  <2>3. PICK c \in Calls : RowDue(c) /\ TargetOf(c) = d BY <1>f, <2>2
  <2>4. calls'[c] = calls[c]
    <3>1. SUFFICES ASSUME calls'[c] # calls[c] PROVE FALSE OBVIOUS
    <3>2. Call(c) \/ Reads(c) \/ Writes(c) \/ Fault(c) BY <1>i, <3>1, OwnStep
    <3>3. ~Fault(c)
      <4>1. SUFFICES ASSUME Fault(c) PROVE FALSE OBVIOUS
      <4>2. calls'[c] = [calls[c] EXCEPT !.at = "error"] /\ calls[c] \in CallType
        BY <1>i, <4>1, StepOpens, BecomesIt DEF Fault, AfterFault, IInv, CallsRight, CallRight
      <4> QED BY <1>e, <4>2 DEF CallType
    <3>4. ~RowSteps(c) BY <1>2, <2>3
    <3>5. calls[c].at \in {"update", "create", "again"} BY <2>3 DEF RowDue
    <3>6. ~Call(c) BY <3>5 DEF Call, Idle
    <3>7. ~(LookupPublisher(c) \/ Lookup(c) \/ Store(c) \/ Locate(c))
      BY <3>5 DEF LookupPublisher, Lookup, Store, Locate
    <3>8. ~(ListAlarms(c) \/ WriteAlarm(c) \/ ListUpdate(c) \/ WriteUpdate(c))
      BY <3>5 DEF ListAlarms, WriteAlarm, ListUpdate, WriteUpdate
    <3>9. ~(ListPending(c) \/ CompleteUpdate(c) \/ ListDownlink(c) \/ WriteDownlink(c))
      BY <3>5 DEF ListPending, CompleteUpdate, ListDownlink, WriteDownlink
    <3> QED BY <3>2, <3>3, <3>4, <3>6, <3>7, <3>8, <3>9 DEF Reads, Writes
  <2> QED BY <2>3, <2>4 DEF RowDue, TargetOf, EntryOf
<1>3. ASSUME NEW c \in Calls, RowSteps(c), TargetOf(c) = d
      PROVE  \E b \in Calls : RowDue(b)' /\ TargetOf(b)' = d
  <2>1. calls'[c].at # "error" BY <1>e
  <2>2. calls[c].at \in {"update", "create", "again"} /\ calls[c].at \in Working
    BY <1>3, <1>i, <2>1, RowMoves
  <2>p. devices'[d].place = devices[d].place
    <3>1. UNCHANGED devices
      <4>1. ~Locate(c) BY <2>2 DEF Locate
      <4> QED BY <1>3, <4>1, Writers DEF Writes
    <3> QED BY <3>1
  <2>o. ASSUME NEW b \in Calls, RowDue(b) PROVE b = c
    <3>1. b \in Open /\ c \in Open
      BY <1>i, <2>2, <2>o, WorkingIsOpen DEF RowDue, Working, StageNames
    <3> QED BY <1>i, <3>1 DEF Serial
  <2>3. CASE EntryOf(c).place # Nothing
    <3>1. devices[d].place = EntryOf(c).place
      BY <1>3, <1>g, <1>i, <2>2, <2>3 DEF Located, RowDue
    <3>2. CASE latest' = [latest EXCEPT ![d] = RowOf(c, latest[d])]
      <4>1. latest'[d] = RowOf(c, latest[d]) BY <1>i, <3>2 DEF IInv, TypeOK
      <4>2. latest'[d].place = EntryOf(c).place BY <2>3, <4>1 DEF RowOf
      <4>3. latest'[d] # Nothing
        <5>1. calls[c] \in CallType /\ EntryOf(c) \in Entry BY <1>i, <2>2, WorkingEntry
        <5>2. latest[d] \in Row \cup {Nothing} BY <1>i DEF IInv, TypeOK
        <5>3. RowOf(c, latest[d]) \in Row BY <5>1, <5>2 DEF RowOf, Row, CallType, Entry
        <5> QED BY <4>1, <5>3, IngestAssumption
      <4> QED BY <2>p, <3>1, <4>2, <4>3 DEF Agree
    <3>3. CASE latest' # [latest EXCEPT ![d] = RowOf(c, latest[d])]
      <4>1. calls'[c].at \in {"create", "again"} /\ calls'[c].entry = calls[c].entry
            /\ calls'[c].batch = calls[c].batch
        BY <1>3, <1>i, <2>1, <3>3, RowMoves
      <4> QED BY <1>3, <2>3, <4>1 DEF RowDue, EntryOf, TargetOf
    <3> QED BY <3>2, <3>3
  <2>4. CASE EntryOf(c).place = Nothing
    <3>1. ~RowDue(c) BY <2>4 DEF RowDue
    <3>2. Agree(d) BY <1>f, <2>o, <3>1
    <3>3. CASE latest' = [latest EXCEPT ![d] = RowOf(c, latest[d])]
      <4>1. latest'[d] = RowOf(c, latest[d]) BY <1>i, <3>3 DEF IInv, TypeOK
      <4>2. latest'[d].place = IF latest[d] # Nothing THEN latest[d].place ELSE Nothing
        BY <2>4, <4>1 DEF RowOf
      <4>3. latest'[d] # Nothing
        <5>1. calls[c] \in CallType /\ EntryOf(c) \in Entry BY <1>i, <2>2, WorkingEntry
        <5>2. latest[d] \in Row \cup {Nothing} BY <1>i DEF IInv, TypeOK
        <5>3. RowOf(c, latest[d]) \in Row BY <5>1, <5>2 DEF RowOf, Row, CallType, Entry
        <5> QED BY <4>1, <5>3, IngestAssumption
      <4> QED BY <2>p, <3>2, <4>2, <4>3 DEF Agree
    <3>4. CASE latest' # [latest EXCEPT ![d] = RowOf(c, latest[d])]
      <4>1. UNCHANGED latest BY <1>3, <1>i, <2>1, <3>4, RowMoves
      <4> QED BY <2>p, <3>2, <4>1 DEF Agree
    <3> QED BY <3>3, <3>4
  <2> QED BY <2>3, <2>4
<1> QED BY <1>1, <1>2, <1>3, <1>i, PlaceChanges

LEMMA FixInvStep ==
  ASSUME MaxOpen = 1, FixInv, [Next]_vars
  PROVE  FixInv'
<1>1. SerialInv /\ IInv /\ DeletedAreGone BY DEF FixInv, SerialInv
<1> QED BY <1>1, SerialInvStep, DeletedStep, LocatedStep, FixStep DEF FixInv

LEMMA FixInit == Init => FixInv
<1> SUFFICES ASSUME Init PROVE FixInv OBVIOUS
<1>1. IInv BY IngestInit
<1>2. Serial /\ Timely BY SerialInit
<1>3. Located /\ DeletedAreGone BY DEF Init, Located, RowDue, DeletedAreGone, Idle
<1>4. \A d \in Devices : devices[d].place = Nothing /\ latest[d] = Nothing BY DEF Init
<1>5. FixesAgree BY <1>4 DEF FixesAgree, Agree
<1> QED BY <1>1, <1>2, <1>3, <1>5 DEF FixInv, SerialInv

LEMMA SameFixFrom == FixInv => SameFix
<1> SUFFICES ASSUME FixInv, Open = {}, NoErrors,
                    NEW d \in Devices, devices[d] # Nothing, latest[d] # Nothing
             PROVE  latest[d].place = devices[d].place
  BY DEF SameFix, Quiet, NoErrors
<1>1. ASSUME NEW c \in Calls, RowDue(c) PROVE FALSE
  BY <1>1, WorkingIsOpen DEF FixInv, SerialInv, RowDue, Working, StageNames
<1> QED BY <1>1 DEF FixInv, FixesAgree, Gone, Agree
-----------------------------------------------------------------------------
\* Geofence alarms.

\* An alarm is raised exactly if its rule matches; all alarms of a device are so.
AlarmIs(rule, d, event, place) ==
  LET alarm == alarms[<<rule, d, event>>]
  IN (alarm # Nothing /\ alarm.active) <=> Matches(rule, event, place)
Matched(d, place) ==
  \A rule \in RulesFor(d), event \in Events : AlarmIs(rule, d, event, place)

\* A later fix of the same device takes over the alarms once they are written.
Begun(call, l) == Past(call, l, "fences") \/ (l = call.entry /\ call.at = "alarm")
Superseded(call, k) ==
  \E l \in DOMAIN call.batch :
    /\ l > k /\ call.batch[l].client = call.batch[k].client
    /\ call.batch[l].place # Nothing /\ Begun(call, l)

\* Writes that leave the alarms of a device as they are for a place.
WritesRight(writes, d, place) ==
  /\ \A w \in writes : \E rule \in RulesFor(d), event \in Events :
       w.key = <<rule, d, event>> /\ (w.active <=> Matches(rule, event, place))
  /\ \A rule \in RulesFor(d), event \in Events :
       AlarmIs(rule, d, event, place) \/ \E w \in writes : w.key = <<rule, d, event>>
AlarmsComing ==
  \A c \in Calls : calls[c].at = "alarm" =>
    WritesRight(calls[c].found, TargetOf(c), EntryOf(c).place)

\* Behind a call that is current the alarms are those of the last fix.
AlarmsKept ==
  \A c \in Calls : Current(c) /\ calls[c].at \in Working \cup {"accepted"} =>
    \A k \in DOMAIN calls[c].batch :
      /\ Past(calls[c], k, "fences") /\ calls[c].batch[k].place # Nothing
      /\ ~Superseded(calls[c], k)
      => Matched(calls[c].batch[k].client, calls[c].batch[k].place)

AlarmInv == SerialInv /\ AlarmsComing /\ AlarmsKept

\* What a call lists: nothing where all alarms are right, or what makes them so.
LEMMA AlarmsListed ==
  ASSUME NEW c \in Calls, IInv, ListAlarms(c)
  PROVE  /\ calls[c].at = "fences" /\ UNCHANGED alarms
         /\ \/ calls'[c] = After(c, "fences") /\ Matched(TargetOf(c), EntryOf(c).place)
            \/ \E found :
                 /\ calls'[c] = [calls[c] EXCEPT !.at = "alarm", !.found = found]
                 /\ WritesRight(found, TargetOf(c), EntryOf(c).place)
<1> DEFINE d == TargetOf(c)
           place == EntryOf(c).place
           matches(x) == Matches(x[1], x[2], place)
           alarm(x) == alarms[<<x[1], d, x[2]>>]
           due == {y \in RulesFor(d) \X Events : NeedsWrite(alarm(y), matches(y))}
           write(x) == [key |-> <<x[1], d, x[2]>>, active |-> matches(x),
                        create |-> alarm(x) = Nothing]
           found == {write(x) : x \in due}
<1>1. /\ calls[c].at = "fences" /\ UNCHANGED alarms
      /\ Becomes(c, IF found = {} THEN After(c, "fences")
                    ELSE [calls[c] EXCEPT !.at = "alarm", !.found = found])
  BY DEF ListAlarms, tables
<1>2. ASSUME NEW rule \in RulesFor(d), NEW event \in Events, <<rule, event>> \notin due
      PROVE  AlarmIs(rule, d, event, place)
  <2>1. ~NeedsWrite(alarm(<<rule, event>>), matches(<<rule, event>>)) BY <1>2
  <2>2. ~NeedsWrite(alarms[<<rule, d, event>>], Matches(rule, event, place)) BY <2>1
  <2>3. Matches(rule, event, place) \in BOOLEAN BY DEF Matches
  <2>4. alarms[<<rule, d, event>>] \in AlarmRow \cup {Nothing}
    <3>1. rule \in Rules /\ d \in Devices BY <1>1, WorkingEntry DEF RulesFor, Working, StageNames
    <3>2. <<rule, d, event>> \in AlarmKeys BY <3>1 DEF AlarmKeys
    <3> QED BY <3>2 DEF IInv, TypeOK
  <2>5. CASE alarms[<<rule, d, event>>] = Nothing BY <2>2, <2>5 DEF NeedsWrite, AlarmIs
  <2>6. CASE alarms[<<rule, d, event>>] # Nothing
    <3>1. alarms[<<rule, d, event>>].active \in BOOLEAN BY <2>4, <2>6 DEF AlarmRow
    <3>2. alarms[<<rule, d, event>>].active = Matches(rule, event, place)
      BY <2>2, <2>6 DEF NeedsWrite
    <3> QED BY <2>6, <3>2 DEF AlarmIs
  <2> QED BY <2>5, <2>6
<1>3. ASSUME NEW w \in found
      PROVE  \E rule \in RulesFor(d), event \in Events :
               w.key = <<rule, d, event>> /\ (w.active <=> Matches(rule, event, place))
  <2>1. PICK x \in due : w = write(x) BY <1>3
  <2>2. x[1] \in RulesFor(d) /\ x[2] \in Events BY <2>1
  <2>3. w.key = <<x[1], d, x[2]>> /\ w.active = Matches(x[1], x[2], place) BY <2>1
  <2> HIDE DEF found, due
  <2> QED BY <2>2, <2>3
<1>4. ASSUME NEW rule \in RulesFor(d), NEW event \in Events, <<rule, event>> \in due
      PROVE  \E w \in found : w.key = <<rule, d, event>>
  <2>1. write(<<rule, event>>) \in found BY <1>4
  <2>2. write(<<rule, event>>).key = <<rule, d, event>> OBVIOUS
  <2> HIDE DEF found, due, write
  <2> QED BY <2>1, <2>2
<1>5. CASE found = {}
  <2>1. calls'[c] = After(c, "fences") BY <1>1, <1>5, BecomesIt
  <2>2. ASSUME NEW rule \in RulesFor(d), NEW event \in Events
        PROVE  AlarmIs(rule, d, event, place)
    <3>1. ~\E w \in found : w.key = <<rule, d, event>> BY <1>5
    <3> HIDE DEF found, due
    <3> QED BY <1>2, <1>4, <3>1
  <2> QED BY <1>1, <2>1, <2>2 DEF Matched
<1>6. CASE found # {}
  <2>1. calls'[c] = [calls[c] EXCEPT !.at = "alarm", !.found = found]
    BY <1>1, <1>6, BecomesIt
  <2> HIDE DEF found, due
  <2>2. WritesRight(found, d, place) BY <1>2, <1>3, <1>4 DEF WritesRight
  <2> QED BY <1>1, <2>1, <2>2
<1> QED BY <1>5, <1>6

\* A write makes one alarm of the device right and leaves all others alone.
LEMMA AlarmWritten ==
  ASSUME NEW c \in Calls, IInv, WriteAlarm(c), calls'[c].at # "error",
         WritesRight(calls[c].found, TargetOf(c), EntryOf(c).place)
  PROVE  /\ calls[c].at = "alarm" /\ calls[c].at \in Working
         /\ \E w \in calls[c].found :
              /\ \/ calls[c].found = {w} /\ calls'[c] = After(c, "fences")
                 \/ calls'[c] = [calls[c] EXCEPT !.found = @ \ {w}]
              /\ \A rule \in Rules, d \in Devices, event \in Events : \A place :
                   AlarmIs(rule, d, event, place)' <=>
                     IF w.key = <<rule, d, event>> THEN w.active <=> Matches(rule, event, place)
                     ELSE AlarmIs(rule, d, event, place)
              /\ \A rule \in Rules, d \in Devices, event \in Events :
                   w.key = <<rule, d, event>> =>
                     d = TargetOf(c) /\ (w.active <=> Matches(rule, event, EntryOf(c).place))
<1>1. calls[c].at = "alarm" /\ calls[c].at \in Working BY DEF WriteAlarm, Working
<1>2. /\ calls[c] \in CallType /\ calls[c].found \subseteq AlarmWrite
      /\ EntryOf(c) \in Entry /\ EntryOf(c).place # Nothing
  BY <1>1, WorkingEntry DEF CallRight, Needed, StageOf, EntryOf
<1>3. PICK w \in calls[c].found :
        IF w.create /\ alarms[w.key] # Nothing
        THEN Goes(c, "error") /\ UNCHANGED alarms
        ELSE /\ alarms' = [alarms EXCEPT ![w.key] = AlarmOf(c, w)]
             /\ Becomes(c, IF calls[c].found = {w} THEN After(c, "fences")
                           ELSE [calls[c] EXCEPT !.found = @ \ {w}])
  BY DEF WriteAlarm
<1>4. ~Goes(c, "error")
  <2>1. SUFFICES ASSUME Goes(c, "error") PROVE FALSE OBVIOUS
  <2>2. calls'[c] = [calls[c] EXCEPT !.at = "error"] BY <2>1, BecomesIt DEF Goes
  <2> QED BY <1>2, <2>2 DEF CallType
<1>5. \/ calls[c].found = {w} /\ calls'[c] = After(c, "fences")
      \/ calls'[c] = [calls[c] EXCEPT !.found = @ \ {w}]
  BY <1>3, <1>4, BecomesIt
<1>6. w \in AlarmWrite /\ w.active \in BOOLEAN /\ w.key \in AlarmKeys BY <1>2 DEF AlarmWrite
<1>7. AlarmOf(c, w) \in AlarmRow /\ AlarmOf(c, w).active = w.active /\ AlarmOf(c, w) # Nothing
  <2>1. EntryOf(c).place \in Places BY <1>2 DEF Entry
  <2>2. AlarmOf(c, w) \in AlarmRow BY <1>6, <2>1 DEF AlarmOf, AlarmRow
  <2>3. AlarmOf(c, w).active = w.active BY DEF AlarmOf
  <2> QED BY <2>2, <2>3, IngestAssumption
<1>8. ASSUME NEW rule \in Rules, NEW d \in Devices, NEW event \in Events, NEW place
      PROVE  AlarmIs(rule, d, event, place)' <=>
               IF w.key = <<rule, d, event>> THEN w.active <=> Matches(rule, event, place)
               ELSE AlarmIs(rule, d, event, place)
  <2>1. <<rule, d, event>> \in AlarmKeys BY DEF AlarmKeys
  <2>2. alarms' = [alarms EXCEPT ![w.key] = AlarmOf(c, w)] /\ DOMAIN alarms = AlarmKeys
    BY <1>3, <1>4 DEF IInv, TypeOK
  <2>3. CASE w.key = <<rule, d, event>>
    <3>1. alarms'[<<rule, d, event>>] = AlarmOf(c, w) BY <2>1, <2>2, <2>3
    <3> QED BY <1>7, <2>3, <3>1 DEF AlarmIs
  <2>4. CASE w.key # <<rule, d, event>>
    <3>1. alarms'[<<rule, d, event>>] = alarms[<<rule, d, event>>] BY <2>1, <2>2, <2>4
    <3> QED BY <2>4, <3>1 DEF AlarmIs
  <2> QED BY <2>3, <2>4
<1>9. PICK own \in RulesFor(TargetOf(c)), kind \in Events :
        /\ w.key = <<own, TargetOf(c), kind>>
        /\ w.active <=> Matches(own, kind, EntryOf(c).place)
  BY <1>3 DEF WritesRight
<1>10. ASSUME NEW rule \in Rules, NEW d \in Devices, NEW event \in Events,
              w.key = <<rule, d, event>>
       PROVE  d = TargetOf(c) /\ (w.active <=> Matches(rule, event, EntryOf(c).place))
  <2>1. rule = own /\ d = TargetOf(c) /\ event = kind BY <1>9, <1>10
  <2> QED BY <1>9, <2>1
<1> QED BY <1>1, <1>5, <1>8, <1>10

LEMMA AlarmsOnlyWritten ==
  ASSUME IInv, NEW c \in Calls, Reads(c) \/ Writes(c) \/ Fault(c)
  PROVE  UNCHANGED alarms \/ WriteAlarm(c)
BY ReadsOnly, Writers DEF tables

\* The next step of a call at its geofences.
LEMMA FenceSteps ==
  ASSUME NEW c \in Calls, Reads(c) \/ Writes(c)
  PROVE  /\ calls[c].at = "fences" => ListAlarms(c)
         /\ calls[c].at = "alarm" => WriteAlarm(c)
<1>1. CASE LookupPublisher(c) \/ Lookup(c) \/ Store(c) \/ Locate(c)
  BY <1>1 DEF LookupPublisher, Lookup, Store, Locate
<1>2. CASE RowSteps(c) BY <1>2 DEF RowSteps, Update, Create, UpdateAgain
<1>3. CASE ListUpdate(c) \/ WriteUpdate(c) \/ ListPending(c) \/ CompleteUpdate(c)
  BY <1>3 DEF ListUpdate, WriteUpdate, ListPending, CompleteUpdate
<1>4. CASE ListDownlink(c) \/ WriteDownlink(c) BY <1>4 DEF ListDownlink, WriteDownlink
<1>5. CASE ListAlarms(c) BY <1>5 DEF ListAlarms
<1>6. CASE WriteAlarm(c) BY <1>6 DEF WriteAlarm
<1> QED BY <1>1, <1>2, <1>3, <1>4, <1>5, <1>6 DEF Reads, Writes

LEMMA AlarmsComingStep ==
  ASSUME AlarmInv, [Next]_vars
  PROVE  AlarmsComing'
<1>i. IInv /\ SerialInv BY DEF AlarmInv, SerialInv
<1> SUFFICES ASSUME NEW c \in Calls, calls'[c].at = "alarm"
             PROVE  WritesRight(calls[c].found, TargetOf(c), EntryOf(c).place)'
  BY DEF AlarmsComing
<1>n. calls'[c].at \in Working \ StageNames BY DEF Working, StageNames
<1>1. CASE ~(Call(c) \/ Reads(c) \/ Writes(c) \/ Fault(c))
  <2>1. calls'[c] = calls[c] BY <1>1, <1>i, OwnStep
  <2>2. Current(c)'
    <3>1. c \in Open BY <1>i, <1>n, <2>1, WorkingIsOpen
    <3> QED BY <2>1, <3>1 DEF Current, Open, Ended
  <2>3. UNCHANGED alarms BY <1>1, <1>i, <2>2, Elsewhere
  <2>4. WritesRight(calls[c].found, TargetOf(c), EntryOf(c).place)
    BY <2>1 DEF AlarmInv, AlarmsComing
  <2>5. TargetOf(c)' = TargetOf(c) /\ EntryOf(c)' = EntryOf(c)
    BY <2>1 DEF TargetOf, EntryOf
  <2> QED BY <2>1, <2>3, <2>4, <2>5 DEF WritesRight, AlarmIs
<1>2. CASE Call(c)
  <2>1. PICK p \in Publishes : calls'[c] = Called(p[1], p[2]) BY <1>i, <1>2, BecomesIt DEF Call
  <2> QED BY <2>1, CalledRight
<1>3. CASE Reads(c) \/ Writes(c) \/ Fault(c)
  <2>1. calls[c].at \in Working /\ Stays(calls[c], calls'[c]) /\ ~Fault(c)
    BY <1>i, <1>3, <1>n, WithinStage
  <2>2. calls[c].at \in {"fences", "alarm"}
    BY <2>1 DEF Stays, StageOf, Working, StageNames
  <2>3. TargetOf(c)' = TargetOf(c) /\ EntryOf(c)' = EntryOf(c)
    BY <2>1 DEF Stays, TargetOf, EntryOf
  <2>t. calls[c] \in CallType /\ TargetOf(c) \in Devices BY <1>i, <2>1, WorkingEntry
  <2>a. calls'[c] # After(c, "fences")
    <3>1. "fences" \in StageNames BY DEF StageNames
    <3>2. After(c, "fences").at \in StageNames \cup {"accepted"}
      BY <1>i, <2>1, <3>1, WorkingEntry, AfterRight DEF StageReached
    <3> QED BY <3>2 DEF StageNames
  <2>4. ListAlarms(c) \/ WriteAlarm(c) BY <1>3, <2>1, <2>2, FenceSteps
  <2>5. CASE ListAlarms(c)
    <3>1. UNCHANGED alarms BY <1>i, <2>5, AlarmsListed
    <3>2. PICK found :
            /\ calls'[c] = [calls[c] EXCEPT !.at = "alarm", !.found = found]
            /\ WritesRight(found, TargetOf(c), EntryOf(c).place)
      BY <1>i, <2>5, <2>a, AlarmsListed
    <3>3. calls'[c].found = found BY <2>t, <3>2 DEF CallType
    <3> QED BY <2>3, <3>1, <3>2, <3>3 DEF WritesRight, AlarmIs
  <2>6. CASE WriteAlarm(c)
    <3> DEFINE d == TargetOf(c)
               place == EntryOf(c).place
    <3>1. calls[c].at = "alarm" /\ calls'[c].at # "error" BY <2>6 DEF WriteAlarm
    <3>2. WritesRight(calls[c].found, d, place) BY <3>1 DEF AlarmInv, AlarmsComing
    <3>3. PICK w \in calls[c].found :
            /\ \/ calls[c].found = {w} /\ calls'[c] = After(c, "fences")
               \/ calls'[c] = [calls[c] EXCEPT !.found = @ \ {w}]
            /\ \A rule \in Rules, dd \in Devices, event \in Events : \A pl :
                 AlarmIs(rule, dd, event, pl)' <=>
                   IF w.key = <<rule, dd, event>> THEN w.active <=> Matches(rule, event, pl)
                   ELSE AlarmIs(rule, dd, event, pl)
            /\ \A rule \in Rules, dd \in Devices, event \in Events :
                 w.key = <<rule, dd, event>> =>
                   dd = d /\ (w.active <=> Matches(rule, event, place))
      BY <1>i, <2>6, <3>1, <3>2, AlarmWritten
    <3>4. calls'[c].found = calls[c].found \ {w} BY <2>a, <2>t, <3>3 DEF CallType
    <3> HIDE DEF d, place
    <3>5. PICK at, target : at = place /\ target = d OBVIOUS
    <3>6. /\ target \in Devices /\ TargetOf(c)' = target /\ EntryOf(c).place' = at
          /\ calls'[c].found \subseteq calls[c].found
      BY <2>3, <2>t, <3>4, <3>5 DEF d, place
    <3>7. ASSUME NEW x \in calls'[c].found
          PROVE  \E rule \in RulesFor(target), event \in Events :
                   x.key = <<rule, target, event>> /\ (x.active <=> Matches(rule, event, at))
      BY <3>2, <3>5, <3>6 DEF WritesRight
    <3>8. ASSUME NEW rule \in RulesFor(target), NEW event \in Events,
                 ~\E x \in calls'[c].found : x.key = <<rule, target, event>>
          PROVE  AlarmIs(rule, target, event, at)'
      <4>1. rule \in Rules BY DEF RulesFor
      <4>2. /\ AlarmIs(rule, target, event, at)' <=>
                 IF w.key = <<rule, target, event>> THEN w.active <=> Matches(rule, event, at)
                 ELSE AlarmIs(rule, target, event, at)
            /\ w.key = <<rule, target, event>> =>
                 (w.active <=> Matches(rule, event, place))
        BY <3>3, <3>6, <4>1
      <4>3. CASE w.key = <<rule, target, event>> BY <3>5, <4>2, <4>3
      <4>4. CASE w.key # <<rule, target, event>>
        <5>1. AlarmIs(rule, d, event, place)
          BY <3>2, <3>4, <3>5, <3>8, <4>4 DEF WritesRight
        <5> QED BY <3>5, <4>2, <4>4, <5>1
      <4> QED BY <4>3, <4>4
    <3> QED BY <3>6, <3>7, <3>8 DEF WritesRight, AlarmIs
  <2> QED BY <2>4, <2>5, <2>6
<1> QED BY <1>1, <1>2, <1>3

\* What has taken over the alarms keeps them.
LEMMA BegunStays ==
  ASSUME AlarmInv, NEW c \in Calls, Reads(c) \/ Writes(c), calls[c].at \in Working,
         calls'[c].at # "error", NEW l \in DOMAIN calls[c].batch, Begun(calls[c], l)
  PROVE  Begun(calls'[c], l)
<1>i. IInv BY DEF AlarmInv, SerialInv
<1>r. "fences" \in StageNames BY DEF StageNames
<1>1. CASE Past(calls[c], l, "fences")
  BY <1>1, <1>i, <1>r, Progress DEF Begun
<1>2. CASE l = calls[c].entry /\ calls[c].at = "alarm"
  <2>1. WriteAlarm(c) BY <1>2, FenceSteps
  <2>2. WritesRight(calls[c].found, TargetOf(c), EntryOf(c).place)
    BY <1>2 DEF AlarmInv, AlarmsComing
  <2>3. \/ calls'[c] = After(c, "fences")
        \/ \E w : calls'[c] = [calls[c] EXCEPT !.found = @ \ {w}]
    BY <1>i, <2>1, <2>2, AlarmWritten
  <2>4. CallRight(calls[c]) /\ calls[c] \in CallType /\ calls[c].entry \in 1..Len(calls[c].batch)
    BY <1>i, WorkingEntry
  <2>5. CASE calls'[c] = After(c, "fences")
    <3>1. StageOf(calls[c].at) = "fences" BY <1>2 DEF StageOf
    <3>2. Past(calls'[c], l, "fences") BY <1>2, <1>r, <2>4, <2>5, <3>1, AfterPast
    <3> QED BY <3>2 DEF Begun
  <2>6. ASSUME NEW w, calls'[c] = [calls[c] EXCEPT !.found = @ \ {w}]
        PROVE  Begun(calls'[c], l)
    <3>1. calls'[c].at = "alarm" /\ calls'[c].entry = l BY <1>2, <2>4, <2>6 DEF CallType
    <3> QED BY <3>1 DEF Begun
  <2> QED BY <2>3, <2>5, <2>6
<1> QED BY <1>1, <1>2 DEF Begun

LEMMA AlarmsKeptStep ==
  ASSUME AlarmInv, [Next]_vars
  PROVE  AlarmsKept'
<1>i. IInv /\ SerialInv BY DEF AlarmInv, SerialInv
<1> SUFFICES ASSUME NEW c \in Calls, Current(c)', calls'[c].at \in Working \cup {"accepted"},
                    NEW k \in DOMAIN calls'[c].batch,
                    Past(calls'[c], k, "fences"), calls'[c].batch[k].place # Nothing,
                    ~Superseded(calls'[c], k)
             PROVE  Matched(calls[c].batch[k].client, calls[c].batch[k].place)'
  BY DEF AlarmsKept, Superseded, Begun, Past
<1>r. "fences" \in StageNames BY DEF StageNames
<1>1. CASE ~(Call(c) \/ Reads(c) \/ Writes(c) \/ Fault(c))
  <2>1. calls'[c] = calls[c] /\ Current(c) /\ UNCHANGED alarms BY <1>1, <1>i, Elsewhere
  <2>2. Matched(calls[c].batch[k].client, calls[c].batch[k].place)
    BY <2>1 DEF AlarmInv, AlarmsKept
  <2> QED BY <2>1, <2>2 DEF Matched, AlarmIs
<1>2. CASE Call(c)
  <2>1. PICK p \in Publishes : calls'[c] = Called(p[1], p[2]) BY <1>i, <1>2, BecomesIt DEF Call
  <2>2. calls'[c].at = "device" BY <2>1, CalledRight
  <2> QED BY <2>2 DEF Working, StageNames
<1>3. CASE Store(c)
  <2> DEFINE stamped == [calls[c] EXCEPT !.receivedAt = clock']
  <2>1. calls'[c] = WithEntry(stamped, 1) BY <1>i, <1>3, BecomesIt DEF Store
  <2>2. CallRight(calls[c]) /\ calls[c] \in CallType /\ clock' \in Nat /\ calls[c].at = "store"
        /\ calls'[c].batch = calls[c].batch
    BY <1>i, <1>3, StoreRight DEF CallRight
  <2>3. stamped \in CallType /\ stamped.batch = calls[c].batch
        /\ stamped.firmware = calls[c].firmware /\ stamped.publisher = calls[c].publisher
    BY <2>2 DEF CallType
  <2>4. Len(stamped.batch) \in 1..16 /\ Len(stamped.firmware) = Len(stamped.batch)
        /\ \A l \in 1..Len(stamped.batch) : Allowed(stamped, l)
    BY <2>2, <2>3 DEF CallRight, Allowed
  <2>5. k \in 1..Len(stamped.batch)
    <3>1. stamped.batch \in Seq(Entry) BY <2>3 DEF CallType
    <3> HIDE DEF stamped
    <3>2. DOMAIN stamped.batch = 1..Len(stamped.batch) BY <3>1
    <3> QED BY <2>2, <2>3, <3>2
  <2> HIDE DEF stamped
  <2>6. ~Needed(stamped, k, "fences")
    <3>1. ~(k < 1) BY <2>5
    <3>2. 1 \in Nat \ {0} OBVIOUS
    <3> QED BY <1>r, <2>1, <2>3, <2>4, <2>5, <3>1, <3>2, WithEntryPast
  <2> QED BY <2>2, <2>3, <2>6 DEF Needed
<1>4. CASE (Reads(c) \/ Writes(c) \/ Fault(c)) /\ ~Store(c)
  <2>1. calls[c].at \in Working /\ calls'[c].at # "error" /\ (Reads(c) \/ Writes(c))
    BY <1>4, <1>i, WorkBegins
  <2>2. /\ calls'[c].batch = calls[c].batch
        /\ \A l \in DOMAIN calls[c].batch, stage \in StageNames :
             Past(calls'[c], l, stage) /\ Needed(calls[c], l, stage)
             => \/ Past(calls[c], l, stage)
                \/ /\ l = calls[c].entry /\ stage = StageOf(calls[c].at)
                   /\ calls'[c] = After(c, stage)
    BY <1>4, <1>i, <2>1, Progress
  <2>3. k \in DOMAIN calls[c].batch /\ Needed(calls[c], k, "fences") BY <2>2 DEF Needed
  <2>4. PICK d, place : d = calls[c].batch[k].client /\ place = calls[c].batch[k].place
    OBVIOUS
  <2>5. /\ calls[c].batch[k].client' = d /\ calls[c].batch[k].place' = place
        /\ d \in Devices /\ place # Nothing /\ k \in Nat
    <3>1. calls[c].batch \in Seq(Entry) BY <1>i, <2>1, WorkingEntry DEF CallType
    <3>2. calls[c].batch[k] \in Entry /\ k \in Nat BY <2>3, <3>1
    <3> QED BY <2>2, <2>4, <3>2 DEF Entry
  <2>6. ~Superseded(calls[c], k)
    <3>1. SUFFICES ASSUME Superseded(calls[c], k) PROVE FALSE OBVIOUS
    <3>2. PICK l \in DOMAIN calls[c].batch :
            /\ l > k /\ calls[c].batch[l].client = calls[c].batch[k].client
            /\ calls[c].batch[l].place # Nothing /\ Begun(calls[c], l)
      BY <3>1 DEF Superseded
    <3>3. Begun(calls'[c], l) BY <2>1, <3>2, BegunStays
    <3> QED BY <2>2, <3>2, <3>3 DEF Superseded
  <2>7. c \in Open /\ Current(c) BY <1>i, <2>1, WorkingIsOpen DEF Current
  <2>c. /\ CallRight(calls[c]) /\ calls[c] \in CallType
        /\ calls[c].entry \in DOMAIN calls[c].batch
        /\ Needed(calls[c], calls[c].entry, StageOf(calls[c].at))
    <3>1. CallRight(calls[c]) /\ calls[c].entry \in 1..Len(calls[c].batch)
          /\ calls[c].batch \in Seq(Entry) /\ calls[c] \in CallType
          /\ Needed(calls[c], calls[c].entry, StageOf(calls[c].at))
      BY <1>i, <2>1, WorkingEntry DEF CallType
    <3> QED BY <3>1
  <2>8. SUFFICES Matched(d, place)' BY <2>5 DEF Matched, AlarmIs
  <2>9. CASE Past(calls[c], k, "fences")
    <3>1. Matched(d, place) BY <2>1, <2>3, <2>4, <2>5, <2>6, <2>7, <2>9 DEF AlarmInv, AlarmsKept
    <3>2. CASE UNCHANGED alarms BY <3>1, <3>2 DEF Matched, AlarmIs
    <3>3. CASE WriteAlarm(c)
      <4>1. calls[c].at = "alarm" BY <3>3 DEF WriteAlarm
      <4>2. WritesRight(calls[c].found, TargetOf(c), EntryOf(c).place)
        BY <4>1 DEF AlarmInv, AlarmsComing
      <4>3. TargetOf(c) # d
        <5>1. SUFFICES ASSUME TargetOf(c) = d PROVE FALSE OBVIOUS
        <5>2. k < calls[c].entry
          <6>1. StageOf(calls[c].at) = "fences" /\ Rank("fences") \in 1..6
            BY <1>r, <4>1, RankRight DEF StageOf
          <6> QED BY <2>9, <4>1, <6>1 DEF Past
        <5>3. calls[c].batch[calls[c].entry].place # Nothing
          BY <2>c, <4>1 DEF Needed, StageOf
        <5>4. calls[c].entry > k BY <2>5, <2>c, <5>2 DEF CallType
        <5> QED BY <2>4, <2>6, <2>c, <4>1, <5>1, <5>3, <5>4
                DEF Superseded, Begun, TargetOf, EntryOf
      <4>4. PICK w \in calls[c].found :
              /\ \A rule \in Rules, dd \in Devices, event \in Events : \A pl :
                   AlarmIs(rule, dd, event, pl)' <=>
                     IF w.key = <<rule, dd, event>> THEN w.active <=> Matches(rule, event, pl)
                     ELSE AlarmIs(rule, dd, event, pl)
              /\ \A rule \in Rules, dd \in Devices, event \in Events :
                   w.key = <<rule, dd, event>> =>
                     dd = TargetOf(c) /\ (w.active <=> Matches(rule, event, EntryOf(c).place))
        BY <1>i, <2>1, <3>3, <4>2, AlarmWritten
      <4>5. ASSUME NEW rule \in RulesFor(d), NEW event \in Events
            PROVE  AlarmIs(rule, d, event, place)'
        <5>1. rule \in Rules /\ AlarmIs(rule, d, event, place)
          BY <3>1 DEF RulesFor, Matched
        <5>2. w.key # <<rule, d, event>> BY <2>5, <4>3, <4>4, <5>1
        <5> QED BY <2>5, <4>4, <5>1, <5>2
      <4> QED BY <4>5 DEF Matched
    <3> QED BY <1>i, <2>1, <3>2, <3>3, AlarmsOnlyWritten
  <2>10. CASE k = calls[c].entry /\ "fences" = StageOf(calls[c].at)
              /\ calls'[c] = After(c, "fences")
    <3>1. calls[c].at \in {"fences", "alarm"}
      BY <2>1, <2>10 DEF StageOf, Working, StageNames
    <3>2. d = TargetOf(c) /\ place = EntryOf(c).place
      BY <2>4, <2>10 DEF TargetOf, EntryOf
    <3>3. calls'[c].at # "alarm"
      BY <1>r, <2>1, <2>10, <2>c, AfterRight DEF StageReached, StageNames
    <3>4. CASE calls[c].at = "fences"
      <4>1. ListAlarms(c) BY <2>1, <3>4, FenceSteps
      <4>2. \A found : calls'[c] # [calls[c] EXCEPT !.at = "alarm", !.found = found]
        BY <2>c, <3>3 DEF CallType
      <4>3. Matched(TargetOf(c), EntryOf(c).place) /\ UNCHANGED alarms
        BY <1>i, <4>1, <4>2, AlarmsListed
      <4> QED BY <3>2, <4>3 DEF Matched, AlarmIs
    <3>5. CASE calls[c].at = "alarm"
      <4>1. WriteAlarm(c) BY <2>1, <3>5, FenceSteps
      <4>2. WritesRight(calls[c].found, d, place)
        BY <3>2, <3>5 DEF AlarmInv, AlarmsComing
      <4>3. \A w : calls'[c] # [calls[c] EXCEPT !.found = @ \ {w}]
        BY <2>c, <3>3, <3>5 DEF CallType
      <4>4. PICK w \in calls[c].found :
              /\ calls[c].found = {w}
              /\ \A rule \in Rules, dd \in Devices, event \in Events : \A pl :
                   AlarmIs(rule, dd, event, pl)' <=>
                     IF w.key = <<rule, dd, event>> THEN w.active <=> Matches(rule, event, pl)
                     ELSE AlarmIs(rule, dd, event, pl)
              /\ \A rule \in Rules, dd \in Devices, event \in Events :
                   w.key = <<rule, dd, event>> =>
                     (w.active <=> Matches(rule, event, EntryOf(c).place))
        BY <1>i, <2>1, <3>2, <4>1, <4>2, <4>3, AlarmWritten
      <4>5. ASSUME NEW rule \in RulesFor(d), NEW event \in Events
            PROVE  AlarmIs(rule, d, event, place)'
        <5>1. rule \in Rules BY DEF RulesFor
        <5>2. CASE w.key = <<rule, d, event>>
          <6>1. w.active <=> Matches(rule, event, place) BY <2>5, <3>2, <4>4, <5>1, <5>2
          <6> QED BY <2>5, <4>4, <5>1, <5>2, <6>1
        <5>3. CASE w.key # <<rule, d, event>>
          <6>1. AlarmIs(rule, d, event, place) BY <4>2, <4>4, <5>3 DEF WritesRight
          <6> QED BY <2>5, <4>4, <5>1, <5>3, <6>1
        <5> QED BY <5>2, <5>3
      <4> QED BY <4>5 DEF Matched
    <3> QED BY <3>1, <3>4, <3>5
  <2> QED BY <1>r, <2>2, <2>3, <2>9, <2>10
<1> QED BY <1>1, <1>2, <1>3, <1>4

LEMMA AlarmInit == Init => AlarmInv
<1> SUFFICES ASSUME Init PROVE AlarmInv OBVIOUS
<1>1. IInv BY IngestInit
<1>2. Serial /\ Timely BY SerialInit
<1>3. AlarmsComing /\ AlarmsKept
  BY DEF Init, AlarmsComing, AlarmsKept, Idle, Working, StageNames
<1> QED BY <1>1, <1>2, <1>3 DEF AlarmInv, SerialInv

LEMMA AlarmCurrentFrom == AlarmInv => AlarmCurrent
<1> SUFFICES ASSUME AlarmInv, NEW c \in Calls, LastCall(c), calls[c].at = "accepted",
                    NEW k \in DOMAIN calls[c].batch, calls[c].batch[k].place # Nothing,
                    {l \in DOMAIN calls[c].batch :
                       l > k /\ calls[c].batch[l].client = calls[c].batch[k].client
                             /\ calls[c].batch[l].place # Nothing} = {}
             PROVE  Matched(calls[c].batch[k].client, calls[c].batch[k].place)
  BY DEF AlarmCurrent, Matched, AlarmIs
<1>1. Past(calls[c], k, "fences") BY DEF Past
<1>2. ~Superseded(calls[c], k) BY DEF Superseded
<1> QED BY <1>1, <1>2 DEF AlarmInv, AlarmsKept, Current

\* Where calls follow one another, however they fail and whatever rules there are:
\* after an accepted call a device's alarms are those of its last fix, and as long
\* as no call failed its row and the device itself show that fix too.
THEOREM TablesAgreeHolds == MaxOpen = 1 /\ Spec => []TablesAgree
<1> SUFFICES ASSUME MaxOpen = 1 PROVE Spec => []TablesAgree OBVIOUS
<1>1. AlarmInv /\ [Next]_vars => AlarmInv'
  <2>1. ASSUME AlarmInv, [Next]_vars PROVE SerialInv'
    BY <2>1, SerialInvStep DEF AlarmInv
  <2> QED BY <2>1, AlarmsComingStep, AlarmsKeptStep DEF AlarmInv
<1>2. FixInv /\ [Next]_vars => FixInv' BY FixInvStep
<1>3. AlarmInv /\ FixInv => TablesAgree BY AlarmCurrentFrom, SameFixFrom DEF TablesAgree
<1> QED BY <1>1, <1>2, <1>3, AlarmInit, FixInit, PTL DEF Spec

=============================================================================
