------------------------------ MODULE AppSession ------------------------------
(***************************************************************************)
(* Whose data the Android app shows and keeps (app/App.tsx): start-up from *)
(* the snapshot on the phone, signing in, the refresh of every 5 or 15 s,  *)
(* handlers that save and then write the snapshot, and signing out, also   *)
(* without network.  A step runs from one answer of the network to the     *)
(* next await of it; the phone's own storage answers at once.  Rows are    *)
(* told apart by the user whose session fetched them.                      *)
(***************************************************************************)
EXTENDS Naturals

CONSTANTS
  Users, NoUser,
  MaxLogins,      \* bound: sessions created
  MaxRefreshes,   \* bound: refreshes asked for
  MaxSaves,       \* bound: handlers that save
  MaxAppFaults    \* bound: lost requests and answers, sessions ended, restarts

ASSUME AppAssumption ==
  /\ NoUser \notin Users
  /\ MaxLogins \in Nat /\ MaxRefreshes \in Nat /\ MaxSaves \in Nat
  /\ MaxAppFaults \in Nat

VARIABLES
  server,       \* the account service: the session this phone has, numbered
  phone,        \* AsyncStorage: snapshots, the last user, a sign-out to be done
  app,          \* activeUserId, the state user, offline, busy; whose rows there are
  boot,         \* the effect that starts the app
  signIn,       \* authenticate
  signOut,      \* signOut
  saving,       \* a handler that saves
  asked,        \* refreshes under way, and who waits for each
  refreshes, saves, appFaults,
  gone,         \* users who sign or signed out, and have not signed in again
  overtaken     \* a user was signed out while a start or a save waited, or a sign-out
                \* ended after another sign-in, or a start showed one whose sign-out
                \* was interrupted, in another's session

appVars == <<server, phone, app, boot, signIn, signOut, saving, asked,
             refreshes, saves, appFaults, gone, overtaken>>

Launched == [active |-> NoUser, user |-> NoUser, offline |-> FALSE,
             busy |-> TRUE, rows |-> {}]
Starting == [at |-> "flag", cached |-> NoUser, rows |-> {},
             owner |-> NoUser, login |-> 0]
NoSignIn == [at |-> "idle", user |-> NoUser]
NoSignOut == [at |-> "idle", user |-> NoUser, login |-> 0]
NoSave == [kind |-> "idle", user |-> NoUser, owner |-> NoUser, login |-> 0]

AppInit ==
  /\ server = [user |-> NoUser, login |-> 0]
  /\ phone = [kept |-> {}, owners |-> [u \in Users |-> {}], lastUser |-> NoUser,
              pending |-> FALSE]
  /\ app = Launched /\ boot = Starting
  /\ signIn = NoSignIn /\ signOut = NoSignOut /\ saving = NoSave
  /\ asked = {}
  /\ refreshes = 0 /\ saves = 0 /\ appFaults = 0
  /\ gone = {} /\ overtaken = FALSE

\* A request carries the session of the moment it was sent.
Refused(request) == server.user = NoUser \/ server.login # request.login
Fault == appFaults < MaxAppFaults /\ appFaults' = appFaults + 1
NoFaultHere == UNCHANGED appFaults

Cleared(p, u) ==
  [p EXCEPT !.kept = @ \ {u}, !.owners[u] = {}, !.lastUser = NoUser]
Cached(p, u, rows) ==
  [p EXCEPT !.kept = @ \cup {u}, !.owners[u] = rows, !.lastUser = u]
LoggedOut(a) == [a EXCEPT !.user = NoUser, !.rows = {}, !.offline = FALSE]
Shown(a, u, rows) ==
  [a EXCEPT !.active = u, !.user = u, !.rows = rows, !.offline = TRUE, !.busy = FALSE]

Overtakes == overtaken' = (overtaken \/ boot.at = "get" \/ saving.kind # "idle")
EndsAnothers == overtaken' = (overtaken \/ app.active # NoUser)

\* One refresh per user at a time: whoever asks again waits for the same one.
SameRefresh(u) == {r \in asked : r.current /\ r.for = u}
Asking(u, caller) ==
  IF SameRefresh(u) # {}
  THEN {IF r \in SameRefresh(u) THEN [r EXCEPT !.callers = @ \cup {caller}] ELSE r
          : r \in asked}
  ELSE {[r EXCEPT !.current = FALSE] : r \in asked}
       \cup {[for |-> u, owner |-> server.user, login |-> server.login,
              callers |-> {caller}, current |-> TRUE]}
CallRefresh(u, caller) ==
  /\ asked' = Asking(u, caller)
  /\ SameRefresh(u) = {} => refreshes < MaxRefreshes
  /\ refreshes' = IF SameRefresh(u) = {} THEN refreshes + 1 ELSE refreshes

\* ----------------------------------------------------------------- start-up
\* A sign-out that could not reach the service keeps the app signed out.
StartSignedOut ==
  /\ boot.at = "flag" /\ phone.pending
  /\ app' = [app EXCEPT !.busy = FALSE]
  /\ boot' = [boot EXCEPT !.at = "done"]
  /\ UNCHANGED <<server, phone, signIn, signOut, saving, asked, refreshes, saves,
                 appFaults, gone, overtaken>>

\* What the last user left is shown while the service is asked who this is.
StartFromCache ==
  /\ boot.at = "flag" /\ ~phone.pending
  /\ LET u == IF phone.lastUser \in phone.kept THEN phone.lastUser ELSE NoUser
         rows == IF u = NoUser THEN {} ELSE phone.owners[u]
     IN /\ boot' = [at |-> "get", cached |-> u, rows |-> rows,
                    owner |-> server.user, login |-> server.login]
        /\ app' = IF u = NoUser THEN app ELSE Shown(app, u, rows)
        /\ overtaken' = (overtaken \/ (NoUser \notin {u, server.user} /\ u # server.user))
  /\ UNCHANGED <<server, phone, signIn, signOut, saving, asked, refreshes, saves,
                 appFaults, gone>>

\* account.get() names the user: the snapshot of another one is dropped, his own
\* shown, or nothing, and refreshed.
StartIdentified ==
  /\ boot.at = "get" /\ boot.owner # NoUser
  /\ LET u == boot.owner
         mine == boot.cached = u
         left == IF boot.cached # NoUser /\ ~mine THEN Cleared(phone, boot.cached)
                 ELSE phone
         scoped == mine \/ u \in left.kept
     IN /\ phone' = IF scoped THEN [left EXCEPT !.lastUser = u] ELSE left
        /\ app' = IF scoped
                  THEN Shown(app, u, IF mine THEN boot.rows ELSE left.owners[u])
                  ELSE [app EXCEPT !.active = u, !.user = u, !.rows = {}]
        /\ CallRefresh(u, "boot")
  /\ boot' = [boot EXCEPT !.at = "refresh"]
  /\ UNCHANGED <<server, signIn, signOut, saving, saves, appFaults, gone, overtaken>>

StartRefused ==
  /\ boot.at = "get" /\ Refused(boot)
  /\ phone' = IF boot.cached = NoUser THEN phone ELSE Cleared(phone, boot.cached)
  /\ app' = [LoggedOut(app) EXCEPT !.active = NoUser, !.busy = FALSE]
  /\ boot' = [boot EXCEPT !.at = "done"]
  /\ overtaken' = (overtaken \/ saving.kind # "idle")
  /\ UNCHANGED <<server, signIn, signOut, saving, asked, refreshes, saves,
                 appFaults, gone>>

StartOffline ==
  /\ boot.at = "get" /\ Fault
  /\ app' = [app EXCEPT !.offline = @ \/ boot.cached # NoUser, !.busy = FALSE]
  /\ boot' = [boot EXCEPT !.at = "done"]
  /\ UNCHANGED <<server, phone, signIn, signOut, saving, asked, refreshes, saves,
                 gone, overtaken>>

\* ------------------------------------------------------------------ refresh
TimerRefresh ==
  /\ app.user # NoUser
  /\ CallRefresh(app.user, "timer")
  /\ UNCHANGED <<server, phone, app, boot, signIn, signOut, saving, saves,
                 appFaults, gone, overtaken>>

\* As if rows were taken in whoever is signed in when they come.
Anyone(r) == TRUE
StillActive(r) == app.active = r.for

\* Those who wait for a refresh go on when it has its answer: start-up and
\* authenticate end, and so does a sign-out.
EndWaits(r, p, a) ==
  LET ended == IF r.callers \cap {"boot", "signIn"} # {}
               THEN [a EXCEPT !.busy = FALSE] ELSE a
  IN /\ boot' = IF "boot" \in r.callers THEN [boot EXCEPT !.at = "done"] ELSE boot
     /\ signIn' = IF "signIn" \in r.callers THEN NoSignIn ELSE signIn
     /\ IF "signOut" \in r.callers
        THEN /\ phone' = Cleared(p, signOut.user) /\ app' = LoggedOut(ended)
             /\ signOut' = NoSignOut
        ELSE /\ phone' = p /\ app' = ended /\ UNCHANGED signOut

\* The tables that came replace the app's rows and the snapshot is written, also
\* if some or all failed; for a user who is not active any more, nothing is.
RefreshAnswered(r, tables) ==
  /\ tables \in {"all", "some"} => r.owner # NoUser
  /\ IF tables = "all" THEN NoFaultHere ELSE Fault
  /\ LET rows == CASE tables = "all" -> {r.owner}
                   [] tables = "some" -> app.rows \cup {r.owner}
                   [] tables = "none" -> app.rows
     IN IF StillActive(r)
        THEN EndWaits(r, Cached(phone, r.for, rows),
                      [app EXCEPT !.rows = rows, !.offline = tables # "all"])
        ELSE EndWaits(r, phone, app)
  /\ asked' = asked \ {r}
  /\ IF "signOut" \in r.callers THEN EndsAnothers ELSE UNCHANGED overtaken
  /\ UNCHANGED <<server, saving, refreshes, saves, gone>>

\* One table that answers 401 fails the refresh; the timer's and the start's
\* handlers sign the user out, whoever that is by now.
RefreshRefused(r) ==
  /\ Refused(r)
  /\ LET timed == IF "timer" \in r.callers THEN Cleared(phone, r.for) ELSE phone
         both == IF "boot" \in r.callers /\ boot.cached # NoUser
                 THEN Cleared(timed, boot.cached) ELSE timed
     IN EndWaits(r, both,
                 IF r.callers \cap {"timer", "boot"} # {}
                 THEN [LoggedOut(app) EXCEPT !.active = NoUser] ELSE app)
  /\ asked' = asked \ {r}
  /\ NoFaultHere
  /\ IF r.callers \cap {"timer", "boot"} # {} THEN Overtakes
     ELSE IF "signOut" \in r.callers THEN EndsAnothers ELSE UNCHANGED overtaken
  /\ UNCHANGED <<server, saving, refreshes, saves, gone>>

\* ------------------------------------------------------------------ sign in
BeginSignIn(u) ==
  /\ app.user = NoUser /\ ~app.busy /\ signIn.at = "idle"
  /\ app' = [app EXCEPT !.busy = TRUE]
  /\ signIn' = [at |-> IF phone.pending THEN "delete" ELSE "create", user |-> u]
  /\ UNCHANGED <<server, phone, boot, signOut, saving, asked, refreshes, saves,
                 appFaults, gone, overtaken>>

\* The session of a user who signed out without network is deleted first.
DeletePending ==
  /\ signIn.at = "delete"
  /\ server' = [server EXCEPT !.user = NoUser]
  /\ phone' = [phone EXCEPT !.pending = FALSE]
  /\ signIn' = [signIn EXCEPT !.at = "create"]
  /\ UNCHANGED <<app, boot, signOut, saving, asked, refreshes, saves, appFaults,
                 gone, overtaken>>

\* The service creates no session while another is there; its answer may be lost.
CreateSession ==
  /\ signIn.at = "create" /\ server.user = NoUser /\ server.login < MaxLogins
  /\ server' = [user |-> signIn.user, login |-> server.login + 1]
  /\ gone' = gone \ {signIn.user}
  /\ \/ signIn' = [signIn EXCEPT !.at = "get"] /\ UNCHANGED <<app, appFaults>>
     \/ Fault /\ signIn' = NoSignIn /\ app' = [app EXCEPT !.busy = FALSE]
  /\ UNCHANGED <<phone, boot, signOut, saving, asked, refreshes, saves, overtaken>>

SignedIn ==
  /\ signIn.at = "get" /\ server.user # NoUser
  /\ app' = [app EXCEPT !.active = server.user, !.user = server.user]
  /\ CallRefresh(server.user, "signIn")
  /\ signIn' = [signIn EXCEPT !.at = "refresh"]
  /\ UNCHANGED <<server, phone, boot, signOut, saving, saves, appFaults, gone,
                 overtaken>>

\* Any of the requests is refused or lost, or the deletion's answer is.
SignInFails ==
  /\ signIn.at \in {"delete", "create", "get"}
  /\ \/ /\ signIn.at = "create" \/ (signIn.at = "get" /\ server.user = NoUser)
        /\ NoFaultHere /\ UNCHANGED server
     \/ Fault /\ UNCHANGED server
     \/ /\ signIn.at = "delete" /\ Fault
        /\ server' = [server EXCEPT !.user = NoUser]
  /\ signIn' = NoSignIn
  /\ app' = [app EXCEPT !.busy = FALSE]
  /\ UNCHANGED <<phone, boot, signOut, saving, asked, refreshes, saves, gone,
                 overtaken>>

\* ----------------------------------------------------------------- sign out
SignOutOffline ==
  /\ app.user # NoUser /\ app.offline /\ signOut.at = "idle"
  /\ phone' = Cleared([phone EXCEPT !.pending = TRUE], app.user)
  /\ app' = [LoggedOut(app) EXCEPT !.active = NoUser]
  /\ gone' = gone \cup {app.user}
  /\ Overtakes
  /\ UNCHANGED <<server, boot, signIn, signOut, saving, asked, refreshes, saves,
                 appFaults>>

BeginSignOut ==
  /\ app.user # NoUser /\ ~app.offline /\ signOut.at = "idle"
  /\ app' = [app EXCEPT !.active = NoUser]
  /\ signOut' = [at |-> "delete", user |-> app.user, login |-> server.login]
  /\ gone' = gone \cup {app.user}
  /\ Overtakes
  /\ UNCHANGED <<server, phone, boot, signIn, saving, asked, refreshes, saves,
                 appFaults>>

SessionDeleted ==
  /\ signOut.at = "delete" /\ ~Refused(signOut)
  /\ server' = [server EXCEPT !.user = NoUser]
  /\ signOut' = [signOut EXCEPT !.at = "answer"]
  /\ UNCHANGED <<phone, app, boot, signIn, saving, asked, refreshes, saves,
                 appFaults, gone, overtaken>>

\* With its answer, or without one, the handler waits for the refresh under way
\* and clears what is left of the user.
ClearAfter(p) ==
  IF \E r \in asked : r.current
  THEN /\ asked' = {IF r.current THEN [r EXCEPT !.callers = @ \cup {"signOut"}] ELSE r
                      : r \in asked}
       /\ signOut' = [signOut EXCEPT !.at = "drain"]
       /\ phone' = p
       /\ UNCHANGED <<app, overtaken>>
  ELSE /\ phone' = Cleared(p, signOut.user)
       /\ app' = LoggedOut(app)
       /\ signOut' = NoSignOut
       /\ EndsAnothers
       /\ UNCHANGED asked

SignOutAnswered ==
  /\ \/ /\ signOut.at = "answer" /\ NoFaultHere
        /\ ClearAfter([phone EXCEPT !.pending = FALSE])
     \/ /\ signOut.at = "delete" /\ Refused(signOut) /\ NoFaultHere
        /\ ClearAfter(phone)
     \/ /\ signOut.at \in {"delete", "answer"} /\ Fault
        /\ ClearAfter([phone EXCEPT !.pending = TRUE])
  /\ UNCHANGED <<server, boot, signIn, saving, refreshes, saves, gone>>

\* -------------------------------------------------------------------- saves
\* createFarm, saveFarm and saveDeviceAppearance, selectFarm, saveProfileName.
Saves == {"farm", "edit", "select", "profile"}

BeginSave(kind) ==
  /\ app.user # NoUser /\ ~app.offline /\ ~app.busy
  /\ saves < MaxSaves /\ saves' = saves + 1
  /\ saving' = [kind |-> kind, user |-> app.user, owner |-> server.user,
                login |-> server.login]
  /\ app' = [app EXCEPT !.busy = TRUE]
  /\ overtaken' = (overtaken \/ signOut.at # "idle")
  /\ UNCHANGED <<server, phone, boot, signIn, signOut, asked, refreshes,
                 appFaults, gone>>

\* The handler goes on with the user it began with, and the rows of now.
SaveAnswered ==
  /\ saving.kind # "idle" /\ saving.owner # NoUser
  /\ LET rows == IF saving.kind = "farm" THEN app.rows \cup {saving.owner}
                 ELSE app.rows
         user == IF saving.kind \in {"select", "profile"} THEN saving.owner
                 ELSE app.user
     IN /\ app' = [app EXCEPT !.rows = rows, !.user = user,
                              !.busy = saving.kind = "farm"]
        /\ phone' = CASE saving.kind = "select" -> phone
                      [] saving.kind = "profile" -> Cached(phone, saving.owner, rows)
                      [] OTHER -> Cached(phone, saving.user, rows)
  /\ saving' = IF saving.kind = "farm"
               THEN [saving EXCEPT !.kind = "select", !.owner = server.user,
                                   !.login = server.login]
               ELSE NoSave
  /\ UNCHANGED <<server, boot, signIn, signOut, asked, refreshes, saves, appFaults,
                 gone, overtaken>>

SaveFails ==
  /\ saving.kind # "idle"
  /\ (Refused(saving) /\ NoFaultHere) \/ Fault
  /\ saving' = NoSave
  /\ app' = [app EXCEPT !.busy = FALSE]
  /\ UNCHANGED <<server, phone, boot, signIn, signOut, asked, refreshes, saves,
                 gone, overtaken>>

\* --------------------------------------------------------------- environment
\* The session expires or is ended from elsewhere.
SessionEnds ==
  /\ server.user # NoUser /\ Fault
  /\ server' = [server EXCEPT !.user = NoUser]
  /\ UNCHANGED <<phone, app, boot, signIn, signOut, saving, asked, refreshes,
                 saves, gone, overtaken>>

\* The app is closed or killed; a request on its way may still arrive.
AppRestarts ==
  /\ boot.at # "flag" /\ Fault
  /\ \/ UNCHANGED server
     \/ /\ signOut.at = "delete" \/ signIn.at = "delete"
        /\ server' = [server EXCEPT !.user = NoUser]
  /\ app' = Launched /\ boot' = Starting
  /\ signIn' = NoSignIn /\ signOut' = NoSignOut /\ saving' = NoSave
  /\ asked' = {}
  /\ gone' = gone \ {signOut.user}
  /\ UNCHANGED <<phone, refreshes, saves, overtaken>>

AppNext ==
  \/ StartSignedOut \/ StartFromCache \/ StartIdentified \/ StartRefused
  \/ StartOffline \/ TimerRefresh
  \/ \E r \in asked, tables \in {"all", "some", "none"} : RefreshAnswered(r, tables)
  \/ \E r \in asked : RefreshRefused(r)
  \/ \E u \in Users : BeginSignIn(u)
  \/ DeletePending \/ CreateSession \/ SignedIn \/ SignInFails
  \/ SignOutOffline \/ BeginSignOut \/ SessionDeleted \/ SignOutAnswered
  \/ \E kind \in Saves : BeginSave(kind)
  \/ SaveAnswered \/ SaveFails
  \/ SessionEnds \/ AppRestarts

AppSpec == AppInit /\ [][AppNext]_appVars

\* --------------------------------------------------------------- properties
Known == Users \cup {NoUser}
Logins == 0..MaxLogins
Servers == [user : Known, login : Logins]
Phones == [kept : SUBSET Users, owners : [Users -> SUBSET Users],
           lastUser : Known, pending : BOOLEAN]
Apps == [active : Known, user : Known, offline : BOOLEAN, busy : BOOLEAN,
         rows : SUBSET Users]
BootSteps == [at : {"flag", "get", "refresh", "done"}, cached : Known,
              rows : SUBSET Users, owner : Known, login : Logins]
SignInSteps == [at : {"idle", "delete", "create", "get", "refresh"}, user : Known]
SignOutSteps == [at : {"idle", "delete", "answer", "drain"}, user : Known, login : Logins]
SaveSteps == [kind : Saves \cup {"idle"}, user : Known, owner : Known, login : Logins]
Waiters == {"boot", "timer", "signIn", "signOut"}
Refreshes == [for : Users, owner : Known, login : Logins, callers : SUBSET Waiters,
              current : BOOLEAN]

\* Every variable of the app's session keeps its type.
AppTypeOK ==
  /\ server \in Servers /\ phone \in Phones /\ app \in Apps
  /\ boot \in BootSteps /\ signIn \in SignInSteps /\ signOut \in SignOutSteps
  /\ saving \in SaveSteps /\ asked \subseteq Refreshes
  /\ refreshes \in 0..MaxRefreshes /\ saves \in 0..MaxSaves
  /\ appFaults \in 0..MaxAppFaults
  /\ gone \subseteq Users /\ overtaken \in BOOLEAN

RowsAreUsers == app.user # NoUser => app.rows \subseteq {app.user}
SnapshotsAreOwn == \A u \in Users : phone.owners[u] \subseteq {u}
NothingLeft == \A u \in gone \cap phone.kept : signOut.user = u
SignedOutStays == app.user \in gone => signOut.user = app.user

\* Whatever requests are in flight when users sign out and in, offline, after
\* lost answers and across restarts: the rows on the screen and in each snapshot
\* were fetched by that user, a user who signed out is back only by signing in
\* and leaves no snapshot, unless a sign-out overtook account.get() of the
\* start or a save, ended in another's session, or was interrupted and its
\* snapshot shown in another's.
UsersApart ==
  overtaken \/ (RowsAreUsers /\ SnapshotsAreOwn /\ NothingLeft /\ SignedOutStays)
===============================================================================
