----------------------------- MODULE AppProvision ----------------------------
(***************************************************************************)
(* The app's dialog that provisions a device (app/App.tsx): find it, choose*)
(* it, connect, choose its upstream, prepare its credential at the service,*)
(* send it the farm's mesh and the credential.  A handler runs from one    *)
(* await to the next; its buttons are off while it does, but the timer's   *)
(* refresh, the Wi-Fi scan of a device and the end of the session are not. *)
(* The SDK's transports are external: a call connects, fails, or is lost   *)
(* after it had its effect.                                                *)
(***************************************************************************)
EXTENDS Naturals

CONSTANTS
  Trackers,          \* nRF54: connected only to be configured
  Boards,            \* ESP32, with upstream Wi-Fi
  Gateways,          \* H7608: the credential is prepared before it is joined
  NoTarget,
  Pastures, NoPasture,   \* farms the operators see
  MaxAttempts,       \* bound: connections and provisionings started
  MaxDialogEvents    \* bound: faults, other phones, sessions, farms that go

Targets == Trackers \cup Boards \cup Gateways

ASSUME ProvisionAssumption ==
  /\ Trackers \cap Boards = {} /\ Boards \cap Gateways = {}
  /\ Gateways \cap Trackers = {}
  /\ NoTarget \notin Targets /\ NoPasture \notin Pastures
  /\ MaxAttempts \in Nat /\ MaxDialogEvents \in Nat

VARIABLES
  dialog,     \* the dialog's state
  request,    \* the handler that is busy, with what it began with
  wifiScans,  \* chooseUpstreamWifi: the scans not answered yet, by generation
  joined,     \* the device the phone is connected to
  signedIn, reachable,   \* user, ~offline
  pasture,    \* currentFarmId
  known,      \* devices: the farm of each record, as of the last refresh
  records,    \* the service: the farm of each device's record
  issued,     \* the service: credentials issued for each device; the last counts
  sent,       \* what a device was last configured with
  drifted,    \* history: the farm or the session went since a credential was prepared
  attempts, dialogEvents

dialogVars == <<dialog, request, wifiScans, joined, signedIn, reachable, pasture, known,
                records, issued, sent, drifted, attempts, dialogEvents>>
cloud == <<records, issued>>
handset == <<signedIn, reachable, pasture, known, drifted>>

NoCredential == [device |-> NoTarget, number |-> 0]
Closed == [open |-> FALSE, step |-> 1, found |-> FALSE, selected |-> NoTarget,
           prepared |-> NoCredential, linked |-> FALSE, upstream |-> "unset",
           scanning |-> FALSE]
NoRequest == [kind |-> "idle", at |-> "idle", farm |-> NoPasture, credential |-> NoCredential]
NothingSent == [device |-> NoTarget, credential |-> NoCredential, valid |-> TRUE,
                mesh |-> NoPasture, upstream |-> "none", drifted |-> FALSE]

DialogInit ==
  /\ dialog = Closed /\ request = NoRequest /\ wifiScans = {} /\ joined = NoTarget
  /\ signedIn = TRUE /\ reachable = TRUE /\ pasture \in Pastures
  /\ known = [d \in Targets |-> NoPasture] /\ records = known
  /\ issued = [d \in Targets |-> 0]
  /\ sent = NothingSent /\ drifted = FALSE
  /\ attempts = 0 /\ dialogEvents = 0

DialogEvent == dialogEvents < MaxDialogEvents /\ dialogEvents' = dialogEvents + 1
NoDialogEvent == UNCHANGED dialogEvents

AtStep(n) == dialog.open /\ signedIn /\ dialog.step = n /\ request = NoRequest
Selected == dialog.selected
Unlinked(d) == IF joined = d THEN NoTarget ELSE joined
Outdated == IF wifiScans = {} THEN {} ELSE {"outdated"}

\* --------------------------------------------------- opening, finding, closing
OpenDialog ==
  /\ ~dialog.open /\ request = NoRequest /\ signedIn /\ reachable
  /\ pasture # NoPasture
  /\ dialog' = [Closed EXCEPT !.open = TRUE]
  /\ joined' = Unlinked(Selected) /\ wifiScans' = Outdated
  /\ UNCHANGED <<request, handset, cloud, sent, attempts, dialogEvents>>

\* What it keeps of the dialog, OpenDialog resets.
CancelDialog ==
  /\ dialog.open /\ signedIn /\ request = NoRequest
  /\ dialog' = Closed
  /\ joined' = Unlinked(Selected) /\ wifiScans' = Outdated
  /\ UNCHANGED <<request, handset, cloud, sent, attempts, dialogEvents>>

ScanDevices ==
  /\ AtStep(1)
  /\ dialog' = [dialog EXCEPT !.selected = NoTarget, !.prepared = NoCredential,
                              !.linked = FALSE]
  /\ joined' = Unlinked(Selected)
  /\ request' = [NoRequest EXCEPT !.kind = "scan"]
  /\ UNCHANGED <<wifiScans, handset, cloud, sent, attempts, dialogEvents>>

DevicesScanned ==
  /\ request.kind = "scan"
  /\ \E found \in BOOLEAN : dialog' = [dialog EXCEPT !.found = found]
  /\ request' = NoRequest
  /\ UNCHANGED <<wifiScans, joined, handset, cloud, sent, attempts, dialogEvents>>

ChooseDevice(d) ==
  /\ AtStep(1) /\ dialog.found
  /\ dialog' = [dialog EXCEPT !.selected = d, !.prepared = NoCredential,
                              !.linked = FALSE, !.step = 2]
  /\ joined' = Unlinked(Selected)
  /\ UNCHANGED <<request, wifiScans, handset, cloud, sent, attempts, dialogEvents>>

BackUnlinked(step) ==
  /\ dialog' = [dialog EXCEPT !.step = step, !.linked = FALSE]
  /\ joined' = Unlinked(Selected)

PreviousStep ==
  /\ \/ AtStep(4) /\ Selected \in Trackers /\ BackUnlinked(2)
     \/ /\ AtStep(4) /\ Selected \notin Trackers
        /\ dialog' = [dialog EXCEPT !.step = 3] /\ UNCHANGED joined
     \/ AtStep(3) /\ BackUnlinked(2)
     \/ /\ AtStep(2)
        /\ dialog' = [dialog EXCEPT !.selected = NoTarget, !.step = 1] /\ UNCHANGED joined
  /\ UNCHANGED <<request, wifiScans, handset, cloud, sent, attempts, dialogEvents>>

\* ---------------------------------------------------------------- credentials
\* As if the farm of the record were not looked at.
NeverOther(d) == FALSE

\* prepareDeviceCredential refuses a device that it knows in another farm.
OtherFarm(d) == known[d] \notin {NoPasture, pasture}

\* Where a handler that needs a credential begins.
FirstStep(d) == IF known[d] = NoPasture THEN "create" ELSE "issue"
Begin(kind, at, credential) ==
  /\ attempts < MaxAttempts /\ attempts' = attempts + 1
  /\ request' = [kind |-> kind, at |-> at, farm |-> pasture, credential |-> credential]

\* The catch and finally blocks of both handlers: the device is disconnected.
Ends ==
  /\ request' = NoRequest
  /\ joined' = Unlinked(Selected)

RequestFails ==
  /\ Ends
  /\ dialog' = [dialog EXCEPT !.linked = FALSE]

\* Each request is answered, refused or lost on its way, or its answer is lost.
CreateRecord ==
  /\ request.at = "create"
  /\ \/ /\ signedIn /\ records[Selected] = NoPasture
        /\ records' = [records EXCEPT ![Selected] = request.farm]
        /\ \/ /\ request' = [request EXCEPT !.at = "issue"]
              /\ UNCHANGED <<dialog, joined>> /\ NoDialogEvent
           \/ RequestFails /\ DialogEvent
     \/ /\ RequestFails /\ UNCHANGED records
        /\ IF signedIn /\ records[Selected] = NoPasture THEN DialogEvent ELSE NoDialogEvent
  /\ UNCHANGED <<wifiScans, handset, issued, sent, attempts>>

IssueCredential ==
  /\ request.at = "issue"
  /\ \/ /\ signedIn
        /\ issued' = [issued EXCEPT ![Selected] = @ + 1]
        /\ LET credential == [device |-> Selected, number |-> issued'[Selected]]
           IN \/ /\ request.kind = "connect"
                 /\ dialog' = [dialog EXCEPT !.prepared = credential]
                 /\ request' = [request EXCEPT !.at = "link"]
                 /\ UNCHANGED joined /\ NoDialogEvent
              \/ /\ request.kind = "provision"
                 /\ request' = [request EXCEPT !.at = "patch", !.credential = credential]
                 /\ UNCHANGED <<dialog, joined>> /\ NoDialogEvent
              \/ RequestFails /\ DialogEvent
     \/ /\ RequestFails /\ UNCHANGED issued
        /\ IF signedIn THEN DialogEvent ELSE NoDialogEvent
  /\ UNCHANGED <<wifiScans, handset, records, sent, attempts>>

\* ----------------------------------------------------------------- connecting
\* connectForProvisioning: an nRF54 only comes to the last step; an H7608 needs
\* its credential first, or has it from an attempt before.
PressConnect ==
  /\ AtStep(2)
  /\ \/ /\ Selected \in Trackers
        /\ dialog' = [dialog EXCEPT !.step = 4, !.upstream = "none", !.linked = FALSE]
        /\ UNCHANGED <<request, attempts>>
     \/ /\ Selected \in Boards
        /\ Begin("connect", "link", NoCredential) /\ UNCHANGED dialog
     \/ /\ Selected \in Gateways /\ reachable /\ pasture # NoPasture
        /\ IF dialog.prepared # NoCredential THEN Begin("connect", "link", NoCredential)
           ELSE ~OtherFarm(Selected) /\ Begin("connect", FirstStep(Selected), NoCredential)
        /\ UNCHANGED dialog
  /\ UNCHANGED <<wifiScans, joined, handset, cloud, sent, dialogEvents>>

DeviceConnects ==
  /\ request.at = "link"
  /\ \/ /\ joined' = Selected
        /\ IF request.kind = "connect"
           THEN /\ dialog' = [dialog EXCEPT !.linked = TRUE, !.step = 3]
                /\ request' = NoRequest
           ELSE /\ dialog' = [dialog EXCEPT !.linked = TRUE]
                /\ request' = [request EXCEPT !.at = "configure"]
        /\ NoDialogEvent
     \/ RequestFails /\ DialogEvent
  /\ UNCHANGED <<wifiScans, handset, cloud, sent, attempts>>

\* ------------------------------------------------------------------- upstream
ChooseWifi ==
  /\ AtStep(3) /\ ~dialog.scanning
  /\ dialog' = [dialog EXCEPT !.upstream = "wifi", !.scanning = TRUE]
  /\ wifiScans' = Outdated \cup {"current"}
  /\ UNCHANGED <<request, joined, handset, cloud, sent, attempts, dialogEvents>>

\* The networks come, or an error; those of an earlier generation are dropped.
WifiScanned(s) ==
  /\ wifiScans' = wifiScans \ {s}
  /\ dialog' = IF s = "current" THEN [dialog EXCEPT !.scanning = FALSE] ELSE dialog
  /\ UNCHANGED <<request, joined, handset, cloud, sent, attempts, dialogEvents>>

ContinueWithWifi ==
  /\ AtStep(3) /\ dialog.upstream = "wifi"
  /\ dialog' = [dialog EXCEPT !.step = 4]
  /\ UNCHANGED <<request, wifiScans, joined, handset, cloud, sent, attempts, dialogEvents>>

ChooseOther(upstream) ==
  /\ AtStep(3) /\ (upstream = "ethernet" => Selected \in Gateways)
  /\ dialog' = [dialog EXCEPT !.upstream = upstream, !.scanning = FALSE, !.step = 4]
  /\ wifiScans' = Outdated
  /\ UNCHANGED <<request, joined, handset, cloud, sent, attempts, dialogEvents>>

\* --------------------------------------------------------------- provisioning
\* Some requests of a refresh fail; what the others bring is taken.
RefreshFails ==
  /\ DialogEvent
  /\ reachable' = FALSE /\ known' \in {known, records}

PressProvision ==
  /\ AtStep(4) /\ pasture # NoPasture
  /\ reachable \/ dialog.prepared # NoCredential
  /\ Selected \notin Trackers => dialog.linked
  /\ IF dialog.prepared # NoCredential THEN Begin("provision", "patch", dialog.prepared)
     ELSE ~OtherFarm(Selected) /\ Begin("provision", FirstStep(Selected), NoCredential)
  /\ UNCHANGED <<dialog, wifiScans, joined, handset, cloud, sent, dialogEvents>>

\* The record's icon, place and upstream are brought up to date, when there is
\* a network and they differ; the credential must be the device's.
PatchRecord ==
  /\ request.at = "patch"
  /\ \/ /\ request.credential.device = Selected
        /\ request' = [request EXCEPT !.at = IF Selected \in Trackers THEN "link"
                                             ELSE "configure"]
        /\ UNCHANGED <<dialog, joined>> /\ NoDialogEvent
     \/ RequestFails /\ request.credential.device # Selected /\ NoDialogEvent
     \/ RequestFails /\ DialogEvent
  /\ UNCHANGED <<wifiScans, handset, cloud, sent, attempts>>

Configuration ==
  [device |-> Selected, credential |-> request.credential,
   valid |-> request.credential.number = issued[request.credential.device],
   mesh |-> request.farm, upstream |-> dialog.upstream, drifted |-> drifted]

\* configure: the device has it and says so, or has it and the answer is lost,
\* or never got it.
Configure ==
  /\ request.at = "configure"
  /\ \/ /\ joined = Selected /\ sent' = Configuration
        /\ dialog' = [Closed EXCEPT !.upstream = dialog.upstream,
                                    !.scanning = dialog.scanning]
        /\ request' = [request EXCEPT !.at = "refresh"]
        /\ UNCHANGED joined /\ NoDialogEvent
     \/ /\ joined = Selected /\ sent' = Configuration /\ RequestFails /\ DialogEvent
     \/ /\ RequestFails /\ UNCHANGED sent
        /\ IF joined = Selected THEN DialogEvent ELSE NoDialogEvent
  /\ UNCHANGED <<wifiScans, handset, cloud, attempts>>

\* The refresh after a success is waited for; then the device is disconnected.
ProvisioningEnds ==
  /\ request.at = "refresh"
  /\ request' = NoRequest /\ joined' = NoTarget
  /\ \/ /\ signedIn /\ reachable /\ known' = records
        /\ UNCHANGED reachable /\ NoDialogEvent
     \/ signedIn /\ reachable /\ RefreshFails
     \/ ~(signedIn /\ reachable) /\ UNCHANGED <<known, reachable>> /\ NoDialogEvent
  /\ UNCHANGED <<dialog, wifiScans, signedIn, pasture, drifted, cloud, sent, attempts>>

\* ---------------------------------------------------------------- surroundings
Preparing == dialog.prepared # NoCredential \/ request.kind = "connect"

\* The timer's refresh: the devices, and another farm when the current one went.
Refreshed ==
  /\ signedIn
  /\ \/ /\ known' = records /\ reachable' = TRUE
        /\ UNCHANGED <<pasture, drifted>> /\ NoDialogEvent
     \/ /\ DialogEvent /\ known' = records /\ reachable' = TRUE
        /\ pasture' \in (Pastures \cup {NoPasture}) \ {pasture}
        /\ drifted' = (drifted \/ Preparing)
     \/ RefreshFails /\ UNCHANGED <<pasture, drifted>>
  /\ UNCHANGED <<dialog, request, wifiScans, joined, signedIn, cloud, sent, attempts>>

\* It is refused, and the user signed out, with the dialog left as it is.
SessionGone ==
  /\ signedIn /\ DialogEvent
  /\ signedIn' = FALSE /\ known' = [d \in Targets |-> NoPasture] /\ pasture' = NoPasture
  /\ drifted' = (drifted \/ Preparing)
  /\ UNCHANGED <<dialog, request, wifiScans, joined, reachable, cloud, sent, attempts>>

SignInAgain ==
  /\ ~signedIn /\ request = NoRequest
  /\ signedIn' = TRUE /\ reachable' = TRUE /\ known' = records
  /\ pasture' \in Pastures
  /\ UNCHANGED <<dialog, request, wifiScans, joined, drifted, cloud, sent, attempts,
                dialogEvents>>

\* Another phone provisions a device.
OtherPhone(d) ==
  /\ records[d] = NoPasture /\ DialogEvent
  /\ \E farm \in Pastures : records' = [records EXCEPT ![d] = farm]
  /\ UNCHANGED <<dialog, request, wifiScans, joined, handset, issued, sent, attempts>>

LinkLost ==
  /\ joined # NoTarget /\ DialogEvent
  /\ joined' = NoTarget
  /\ UNCHANGED <<dialog, request, wifiScans, handset, cloud, sent, attempts>>

DialogNext ==
  \/ OpenDialog \/ CancelDialog \/ ScanDevices \/ DevicesScanned \/ PreviousStep
  \/ \E d \in Targets : ChooseDevice(d) \/ OtherPhone(d)
  \/ CreateRecord \/ IssueCredential \/ PressConnect \/ DeviceConnects
  \/ ChooseWifi \/ ContinueWithWifi
  \/ \E upstream \in {"ethernet", "none"} : ChooseOther(upstream)
  \/ \E s \in wifiScans : WifiScanned(s)
  \/ PressProvision \/ PatchRecord \/ Configure \/ ProvisioningEnds
  \/ Refreshed \/ SessionGone \/ SignInAgain \/ LinkLost

DialogSpec == DialogInit /\ [][DialogNext]_dialogVars

\* --------------------------------------------------------------- properties
Credentials == [device : Targets, number : 1..MaxAttempts] \cup {NoCredential}
Upstreams == {"unset", "wifi", "ethernet", "none"}
Farmlands == Pastures \cup {NoPasture}
Dialogs == [open : BOOLEAN, step : 1..4, found : BOOLEAN, selected : Targets \cup {NoTarget},
            prepared : Credentials, linked : BOOLEAN, upstream : Upstreams,
            scanning : BOOLEAN]
DialogRequests == [kind : {"idle", "scan", "connect", "provision"},
                   at : {"idle", "create", "issue", "patch", "link", "configure", "refresh"},
                   farm : Farmlands, credential : Credentials]
Configurations == [device : Targets \cup {NoTarget}, credential : Credentials,
                   valid : BOOLEAN, mesh : Farmlands, upstream : Upstreams,
                   drifted : BOOLEAN]

\* Every variable of the dialog and of the service keeps its type.
DialogTypeOK ==
  /\ dialog \in Dialogs /\ request \in DialogRequests
  /\ wifiScans \subseteq {"current", "outdated"} /\ joined \in Targets \cup {NoTarget}
  /\ signedIn \in BOOLEAN /\ reachable \in BOOLEAN /\ pasture \in Farmlands
  /\ known \in [Targets -> Farmlands] /\ records \in [Targets -> Farmlands]
  /\ issued \in [Targets -> 0..MaxAttempts]
  /\ sent \in Configurations /\ drifted \in BOOLEAN
  /\ attempts \in 0..MaxAttempts /\ dialogEvents \in 0..MaxDialogEvents

OwnCredential == sent.valid /\ sent.credential.device = sent.device
OwnFarm == sent.drifted \/ sent.device = NoTarget \/ sent.mesh = records[sent.device]
OwnUpstream ==
  /\ sent.upstream # "unset"
  /\ sent.upstream = "ethernet" => sent.device \in Gateways
  /\ sent.upstream = "wifi" => sent.device \notin Trackers

\* No device stays connected when its steps are left, by success, failure,
\* cancelling or going back.
LinkClosed ==
  request = NoRequest /\ (~dialog.open \/ dialog.step <= 2) => joined = NoTarget
ScanEnds == dialog.scanning => "current" \in wifiScans

\* Through retries, other phones, lost answers and sessions that end: a device
\* is configured with the credential last issued for it, with the mesh of the
\* farm its record is in (unless that farm or the session went while the
\* credential was in hand) and with an upstream that it has; it is disconnected
\* whichever way the dialog leaves it; and a Wi-Fi scan that the dialog waits
\* for will be answered.
SetupIsRight ==
  OwnCredential /\ OwnFarm /\ OwnUpstream /\ LinkClosed /\ ScanEnds
===============================================================================
