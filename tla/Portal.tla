-------------------------------- MODULE Portal --------------------------------
(***************************************************************************)
(* The operator portal's dashboard (site/app/page.tsx): signing in and out,*)
(* the refresh of every 5 s, the choice of a farm, a device and a range,   *)
(* the history fetched for them, and deleting a device.  A step runs from  *)
(* one answer of the service, or one click, through React's effects to the *)
(* next await.  What was listed is told apart by the operator whose session*)
(* listed it.                                                              *)
(***************************************************************************)
EXTENDS FiniteSets, Naturals

CONSTANTS
  Operators, NoOperator,
  Devices, NoDevice,
  FarmOne,            \* the devices of farm 1; the others are of farm 2
  Ranges,             \* of the history
  MaxPortalEvents,    \* bound: sessions made, refreshes of the timer, devices removed
                      \* or onboarded, faults and reloads, all together
  MaxHistories        \* bound: history requests open at a time

ASSUME PortalAssumption ==
  /\ NoOperator \notin Operators /\ NoDevice \notin Devices
  /\ FarmOne \subseteq Devices /\ "1h" \in Ranges
  /\ MaxPortalEvents \in Nat /\ MaxHistories \in Nat

VARIABLES
  account,      \* the service: whose session this browser has
  listed,       \* the service: the devices
  page,         \* the component's state
  signing,      \* account.get() of the start, or authenticate
  leaving,      \* signOut
  loads,        \* refreshes under way
  histories,    \* history requests under way
  removal,      \* removeSelectedDevice
  askedFor,     \* the device the open delete dialog was opened for, as long as
                \* no refresh and no choice of a farm took the selection from it
  late,         \* an operator signed out while a refresh was under way, or a
                \* deletion, whose answer asks for one
  portalEvents  \* how much of the bound is used up

portalVars == <<account, listed, page, signing, leaving, loads, histories,
                removal, askedFor, late, portalEvents>>

NoFarm == 0
Farms == {1, 2}
FarmOf(d) == IF d \in FarmOne THEN 1 ELSE 2
Opened == [user |-> NoOperator, owner |-> NoOperator, devices |-> {}, farm |-> NoFarm,
           selected |-> NoDevice, range |-> "1h", confirm |-> FALSE,
           loading |-> FALSE, shown |-> {}]
NoSigning == [at |-> "idle", user |-> NoOperator]
NoRemoval == [at |-> "idle", device |-> NoDevice]

PortalEvent == portalEvents < MaxPortalEvents /\ portalEvents' = portalEvents + 1

PortalInit ==
  /\ account \in Operators \cup {NoOperator} /\ listed = Devices
  /\ page = Opened /\ signing = [NoSigning EXCEPT !.at = "start"] /\ leaving = FALSE
  /\ loads = {} /\ histories = {} /\ removal = NoRemoval
  /\ askedFor = NoDevice /\ late = FALSE
  /\ portalEvents = 0

PortalFault == PortalEvent
NoPortalFault == UNCHANGED portalEvents

\* ------------------------------------------------------------------ effects
FarmDevices(p) == {d \in p.devices : FarmOf(d) = p.farm}
\* A farm, once farms and user are known: the one chosen last on this browser,
\* the account's preference or the first.
FarmsFor(p) ==
  IF p.user = NoOperator \/ p.owner = NoOperator \/ p.farm # NoFarm
  THEN {p.farm} ELSE Farms
\* The selected device stays, or else the first of the farm is selected.
Selections(p) ==
  LET here == FarmDevices(p)
  IN IF p.selected \in here THEN {p.selected}
     ELSE IF here = {} THEN {NoDevice} ELSE here
AfterEffects(p) ==
  UNION {LET q == [p EXCEPT !.farm = f]
         IN {[q EXCEPT !.selected = d] : d \in Selections(q)} : f \in FarmsFor(p)}

\* As if the effect had no cleanup: late answers still count.
StillCounting == histories
Abandoned == {[h EXCEPT !.active = FALSE] : h \in histories}
\* Another device or range: what is shown goes, what is under way is abandoned.
Render(p) ==
  IF p.selected = page.selected /\ p.range = page.range
  THEN page' = p /\ UNCHANGED histories
  ELSE /\ page' = [p EXCEPT !.shown = {}, !.loading = @ \/ p.selected # NoDevice]
       /\ histories' = Abandoned \cup
            IF p.selected = NoDevice THEN {}
            ELSE {[device |-> p.selected, range |-> p.range, active |-> TRUE]}
       /\ Cardinality(histories') <= MaxHistories

\* What becomes of askedFor when the operator acts, and when the page does.
DialogStays == askedFor' = IF page'.confirm THEN askedFor ELSE NoDevice
DialogDrifts ==
  askedFor' = IF page'.confirm /\ page'.selected = page.selected THEN askedFor
              ELSE NoDevice

\* ------------------------------------------------------------------ refresh
Load(caller) == [caller |-> caller, served |-> FALSE, owner |-> NoOperator,
                 devices |-> {}]
Tick ==
  /\ page.user # NoOperator /\ PortalEvent
  /\ loads' = loads \cup {Load("timer")}
  /\ UNCHANGED <<account, listed, page, signing, leaving, histories, removal,
                 askedFor, late>>

LoadServed(l) ==
  /\ ~l.served /\ account # NoOperator
  /\ loads' = (loads \ {l}) \cup
       {[l EXCEPT !.served = TRUE, !.owner = account, !.devices = listed]}
  /\ UNCHANGED <<account, listed, page, signing, leaving, histories, removal,
                 askedFor, late, portalEvents>>

\* Whoever waited for the refresh goes on, with or without its rows.
LoadEnds(l) ==
  /\ loads' = loads \ {l}
  /\ signing' = IF l.caller = "sign" THEN NoSigning ELSE signing
  /\ removal' = IF l.caller = "removal" THEN NoRemoval ELSE removal

\* Answers are shown in the order in which they come.
LoadAnswered(l) ==
  /\ l.served /\ LoadEnds(l)
  /\ \E p \in AfterEffects([page EXCEPT !.devices = l.devices, !.owner = l.owner]) :
       Render(p)
  /\ DialogDrifts
  /\ UNCHANGED <<account, listed, leaving, late, portalEvents>>

LoadFails(l) ==
  /\ LoadEnds(l)
  /\ (~l.served /\ account = NoOperator /\ NoPortalFault) \/ PortalFault
  /\ UNCHANGED <<account, listed, page, leaving, histories, askedFor,
                 late>>

\* ---------------------------------------------------------- signing in and out
SignIn(u) ==
  /\ page.user = NoOperator /\ signing.at = "idle"
  /\ signing' = [at |-> "session", user |-> u]
  /\ UNCHANGED <<account, listed, page, leaving, loads, histories, removal,
                 askedFor, late, portalEvents>>

SessionMade ==
  /\ signing.at = "session" /\ account = NoOperator /\ PortalEvent
  /\ account' = signing.user
  /\ signing' = [NoSigning EXCEPT !.at = "get"]
  /\ UNCHANGED <<listed, page, leaving, loads, histories, removal, askedFor,
                 late>>

\* account.get() of the start or of authenticate names the operator.
Identified ==
  /\ signing.at \in {"start", "get"} /\ account # NoOperator
  /\ \E p \in AfterEffects([page EXCEPT !.user = account]) : Render(p)
  /\ DialogDrifts
  /\ signing' = [NoSigning EXCEPT !.at = "load"]
  /\ loads' = loads \cup {Load("sign")}
  /\ UNCHANGED <<account, listed, leaving, removal, late, portalEvents>>

\* No session, one that is still active, or a lost request or answer.
NotIdentified ==
  /\ signing.at \in {"start", "session", "get"}
  /\ \/ /\ (signing.at = "session") = (account # NoOperator)
        /\ UNCHANGED account /\ NoPortalFault
     \/ /\ PortalFault
        /\ \/ UNCHANGED account
           \/ /\ signing.at = "session" /\ account = NoOperator
              /\ account' = signing.user
  /\ signing' = NoSigning
  /\ UNCHANGED <<listed, page, leaving, loads, histories, removal, askedFor,
                 late>>

SignOut ==
  /\ page.user # NoOperator /\ ~leaving
  /\ leaving' = TRUE
  /\ UNCHANGED <<account, listed, page, signing, loads, histories, removal,
                 askedFor, late, portalEvents>>

SignedOut ==
  /\ leaving /\ account # NoOperator
  /\ leaving' = FALSE /\ account' = NoOperator
  /\ Render([Opened EXCEPT !.range = page.range, !.loading = page.loading,
                           !.shown = page.shown])
  /\ late' = (late \/ loads # {} \/ removal.at # "idle")
  /\ DialogStays
  /\ UNCHANGED <<listed, signing, loads, removal, portalEvents>>

SignOutFails ==
  /\ leaving /\ leaving' = FALSE
  /\ (account = NoOperator /\ NoPortalFault) \/ PortalFault
  /\ UNCHANGED <<account, listed, page, signing, loads, histories, removal,
                 askedFor, late>>

\* -------------------------------------------------------- farm, device, range
SelectFarm(f) ==
  /\ page.user # NoOperator /\ page.owner # NoOperator
  /\ \E p \in AfterEffects([page EXCEPT !.farm = f]) : Render(p)
  /\ DialogDrifts
  /\ UNCHANGED <<account, listed, signing, leaving, loads, removal, late, portalEvents>>

SelectDevice(d) ==
  /\ page.user # NoOperator /\ d \in FarmDevices(page)
  /\ Render([page EXCEPT !.selected = d, !.range = "1h", !.confirm = FALSE])
  /\ DialogStays
  /\ UNCHANGED <<account, listed, signing, leaving, loads, removal, late, portalEvents>>

SelectRange(r) ==
  /\ page.user # NoOperator /\ page.selected # NoDevice /\ ~page.loading
  /\ Render([page EXCEPT !.range = r])
  /\ DialogStays
  /\ UNCHANGED <<account, listed, signing, leaving, loads, removal, late, portalEvents>>

\* An abandoned request changes nothing when it ends.
HistoryEnds(h, rows) ==
  /\ histories' = histories \ {h}
  /\ page' = IF h.active
             THEN [page EXCEPT !.loading = FALSE, !.shown = rows]
             ELSE page
  /\ UNCHANGED <<account, listed, signing, leaving, loads, removal, askedFor,
                 late>>
HistoryAnswered(h) ==
  /\ account # NoOperator
  /\ HistoryEnds(h, {[device |-> h.device, range |-> h.range]}) /\ NoPortalFault
HistoryFails(h) ==
  /\ (account = NoOperator /\ NoPortalFault) \/ PortalFault
  /\ HistoryEnds(h, page.shown)

\* ------------------------------------------------------------- delete a device
AskDelete ==
  /\ page.user # NoOperator /\ page.selected # NoDevice
  /\ page' = [page EXCEPT !.confirm = TRUE]
  /\ askedFor' = page.selected
  /\ UNCHANGED <<account, listed, signing, leaving, loads, histories, removal,
                 late, portalEvents>>

CloseDialog ==
  /\ page.confirm
  /\ Render([page EXCEPT !.confirm = FALSE])
  /\ DialogStays
  /\ UNCHANGED <<account, listed, signing, leaving, loads, removal, late, portalEvents>>

RemoveDevice ==
  /\ page.user # NoOperator /\ page.confirm /\ page.selected # NoDevice
  /\ removal.at = "idle" /\ PortalEvent
  /\ removal' = [at |-> "sent", device |-> page.selected]
  /\ UNCHANGED <<account, listed, page, signing, leaving, loads, histories,
                 askedFor, late>>

RemovalServed ==
  /\ removal.at = "sent" /\ account # NoOperator /\ removal.device \in listed
  /\ listed' = listed \ {removal.device}
  /\ removal' = [removal EXCEPT !.at = "served"]
  /\ UNCHANGED <<account, page, signing, leaving, loads, histories, askedFor,
                 late, portalEvents>>

RemovalAnswered ==
  /\ removal.at = "served"
  /\ removal' = [NoRemoval EXCEPT !.at = "load"]
  /\ loads' = loads \cup {Load("removal")}
  /\ Render([page EXCEPT !.selected = NoDevice, !.confirm = FALSE])
  /\ DialogStays
  /\ UNCHANGED <<account, listed, signing, leaving, late, portalEvents>>

RemovalFails ==
  /\ \/ /\ removal.at = "sent" /\ NoPortalFault
        /\ account = NoOperator \/ removal.device \notin listed
     \/ removal.at \in {"sent", "served"} /\ PortalFault
  /\ removal' = NoRemoval
  /\ UNCHANGED <<account, listed, page, signing, leaving, loads, histories,
                 askedFor, late>>

\* --------------------------------------------------------------- environment
OthersChange(d) ==
  /\ PortalEvent
  /\ listed' = IF d \in listed THEN listed \ {d} ELSE listed \cup {d}
  /\ UNCHANGED <<account, page, signing, leaving, loads, histories, removal,
                 askedFor, late>>

SessionExpires ==
  /\ account # NoOperator /\ PortalFault
  /\ account' = NoOperator
  /\ UNCHANGED <<listed, page, signing, leaving, loads, histories, removal,
                 askedFor, late>>

\* Requests on their way may still be served.
Reload ==
  /\ signing.at # "start" /\ PortalFault
  /\ account' \in {account} \cup IF leaving THEN {NoOperator} ELSE {}
  /\ listed' \in {listed} \cup
       IF removal.at = "sent" THEN {listed \ {removal.device}} ELSE {}
  /\ page' = Opened /\ signing' = [NoSigning EXCEPT !.at = "start"] /\ leaving' = FALSE
  /\ loads' = {} /\ histories' = {} /\ removal' = NoRemoval
  /\ askedFor' = NoDevice /\ late' = FALSE

PortalNext ==
  \/ Tick
  \/ \E l \in loads : LoadServed(l) \/ LoadAnswered(l) \/ LoadFails(l)
  \/ \E u \in Operators : SignIn(u)
  \/ SessionMade \/ Identified \/ NotIdentified
  \/ SignOut \/ SignedOut \/ SignOutFails
  \/ \E f \in Farms : SelectFarm(f)
  \/ \E d \in Devices : SelectDevice(d) \/ OthersChange(d)
  \/ \E r \in Ranges : SelectRange(r)
  \/ \E h \in histories : HistoryAnswered(h) \/ HistoryFails(h)
  \/ AskDelete \/ CloseDialog \/ RemoveDevice
  \/ RemovalServed \/ RemovalAnswered \/ RemovalFails
  \/ SessionExpires \/ Reload

PortalSpec == PortalInit /\ [][PortalNext]_portalVars

\* --------------------------------------------------------------- properties
Sessions == Operators \cup {NoOperator}
Selectable == Devices \cup {NoDevice}
Pages == [user : Sessions, owner : Sessions, devices : SUBSET Devices,
          farm : Farms \cup {NoFarm}, selected : Selectable, range : Ranges,
          confirm : BOOLEAN, loading : BOOLEAN,
          shown : SUBSET [device : Devices, range : Ranges]]
SigningSteps == [at : {"idle", "start", "session", "get", "load"}, user : Sessions]
Loadings == [caller : {"timer", "sign", "removal"}, served : BOOLEAN, owner : Sessions,
             devices : SUBSET Devices]
HistoryRequests == [device : Devices, range : Ranges, active : BOOLEAN]
RemovalSteps == [at : {"idle", "sent", "served", "load"}, device : Selectable]

\* Every variable of the portal keeps its type.
PortalTypeOK ==
  /\ account \in Sessions /\ listed \subseteq Devices
  /\ page \in Pages /\ signing \in SigningSteps /\ loads \subseteq Loadings
  /\ histories \subseteq HistoryRequests /\ removal \in RemovalSteps
  /\ askedFor \in Selectable /\ leaving \in BOOLEAN /\ late \in BOOLEAN
  /\ portalEvents \in 0..MaxPortalEvents

Current == [device |-> page.selected, range |-> page.range]
Counting == {h \in histories : h.active}
HistoryIsSelecteds ==
  /\ page.shown \subseteq {Current}
  /\ \A h \in Counting : [device |-> h.device, range |-> h.range] = Current
  /\ page.selected # NoDevice => (page.loading <=> Counting # {})
SelectedIsOfFarm ==
  page.selected = NoDevice \/ page.selected \in FarmDevices(page)
RowsAreOperators ==
  page.user # NoOperator => page.owner \in {NoOperator, page.user} \/ late
DialogIsFor ==
  page.selected # NoDevice => askedFor \in {page.selected, NoDevice}

\* In whatever order refreshes, histories, deletions and sign-outs are answered:
\* the history shown is that of the selected device and range, and no spinner
\* waits for an answer that will not count; the selected device is one of the
\* farm on the screen; rows are the operator's own unless a refresh or a deletion
\* was under way when another signed out; the dialog names the device it was opened
\* for unless a refresh or the farm selector moved the selection under it.
PortalShowsSelected ==
  HistoryIsSelecteds /\ SelectedIsOfFarm /\ RowsAreOperators /\ DialogIsFor
===============================================================================
