--------------------------- MODULE AppPortalProofs ----------------------------
(***************************************************************************)
(* Proofs about the clients of the service and its installation, each from *)
(* an inductive invariant of its own. AppSession: that users of one phone  *)
(* stay apart; Portal: that the page shows what is selected; AppProvision: *)
(* that a device is configured with what is its own; Installer: that       *)
(* installing and cleaning can be repeated. All of it for any users,       *)
(* devices and farms and any number of faults, attempts and runs.          *)
(***************************************************************************)
EXTENDS AppSession, AppProvision, Portal, Installer, SequenceTheorems, TLAPS

\* --------------------------------------------------------------- AppSession

\* ------------------------------------------------------------ the invariant
\* At most one refresh is the one that callers join, and at most one is waited
\* for by a sign-out that drains.
OneCurrent == \A r, s \in asked : r.current /\ s.current => r = s
DrainsSignOut ==
  /\ \A r \in asked : "signOut" \in r.callers => signOut.at = "drain"
  /\ \A r, s \in asked : "signOut" \in r.callers /\ "signOut" \in s.callers => r = s
HandlersNamed ==
  /\ signOut.at = "idle" <=> signOut.user = NoUser
  /\ saving.kind # "idle" => saving.user \in Users
StartsAlone ==
  boot.at = "flag" => /\ signIn.at = "idle" /\ signOut.at = "idle" /\ saving.kind = "idle"
                      /\ asked = {} /\ app = Launched
SessionShape == OneCurrent /\ DrainsSignOut /\ HandlersNamed /\ StartsAlone

ActiveIsUser == app.active # NoUser => app.active = app.user
ActiveStays == app.active \notin gone
RowsOfUser == app.rows \subseteq {app.user}
\* The session the service has is that of the user on the screen, and a session
\* of somebody who signed out is one that a sign-out is about to delete.
SessionOfUser == app.user # NoUser => server.user \in {NoUser, app.user}
GoneSession ==
  /\ server.user \in gone =>
       \/ phone.pending
       \/ signOut.at = "delete" /\ signOut.user = server.user /\ signOut.login = server.login
  /\ signOut.at = "answer" => server.user \notin gone
\* What the start, authenticate and a save read before they wait is still so.
StartWaits ==
  boot.at = "get" =>
     /\ signIn.at = "idle" /\ signOut.at = "idle" /\ app.user = boot.cached
     /\ boot.owner \notin gone /\ boot.rows \subseteq {boot.cached}
     /\ server.user \in {NoUser, boot.owner}
     /\ NoUser \notin {boot.cached, boot.owner} => boot.cached = boot.owner
     /\ boot.cached = NoUser => app.busy /\ asked = {} /\ saving.kind = "idle"
SignInWaits ==
  /\ signIn.at \in {"delete", "create", "get"} => app.user = NoUser
  /\ signIn.at = "get" => server.user \notin gone
SaveWaits ==
  saving.kind # "idle" => /\ signOut.at = "idle" /\ app.user = saving.user
                          /\ saving.owner \in {NoUser, saving.user}
RefreshesOwn == \A r \in asked : r.owner \in {NoUser, r.for}

ScreenApart == ActiveIsUser /\ ActiveStays /\ RowsOfUser /\ SignedOutStays /\ SessionOfUser
PhoneApart == SnapshotsAreOwn /\ NothingLeft
WaitsApart == GoneSession /\ StartWaits /\ SignInWaits /\ SaveWaits /\ RefreshesOwn
Apart == ScreenApart /\ PhoneApart /\ WaitsApart

AppInvariant == AppTypeOK /\ SessionShape /\ (overtaken \/ Apart)

\* ------------------------------------------------------------------- types

LEMMA ClearedIsPhone ==
  ASSUME NEW p \in Phones, NEW u \in Known
  PROVE  /\ Cleared(p, u) \in Phones
         /\ Cleared(p, u).kept = p.kept \ {u}
         /\ Cleared(p, u).pending = p.pending
         /\ \A v \in Users : Cleared(p, u).owners[v] = IF v = u THEN {} ELSE p.owners[v]
  BY DEF Cleared, Phones, Known

LEMMA CachedIsPhone ==
  ASSUME NEW p \in Phones, NEW u \in Users, NEW rows \in SUBSET Users
  PROVE  /\ Cached(p, u, rows) \in Phones
         /\ Cached(p, u, rows).kept = p.kept \cup {u}
         /\ Cached(p, u, rows).pending = p.pending
         /\ \A v \in Users : Cached(p, u, rows).owners[v] = IF v = u THEN rows ELSE p.owners[v]
  BY DEF Cached, Phones, Known

LEMMA LoggedOutIsApp ==
  ASSUME NEW a \in Apps
  PROVE  /\ LoggedOut(a) \in Apps
         /\ LoggedOut(a).user = NoUser /\ LoggedOut(a).rows = {}
         /\ LoggedOut(a).active = a.active
  BY DEF LoggedOut, Apps, Known

LEMMA ShownIsApp ==
  ASSUME NEW a \in Apps, NEW u \in Known, NEW rows \in SUBSET Users
  PROVE  /\ Shown(a, u, rows) \in Apps
         /\ Shown(a, u, rows).user = u /\ Shown(a, u, rows).rows = rows
         /\ Shown(a, u, rows).active = u
  BY DEF Shown, Apps

\* A refresh that is asked for names its user, and the session of now.
LEMMA AskingIsTyped ==
  ASSUME asked \subseteq Refreshes, server.user \in Known, server.login \in Logins,
         NEW u \in Users, NEW caller \in Waiters
  PROVE  Asking(u, caller) \subseteq Refreshes
<1>1. ASSUME NEW r \in asked PROVE [r EXCEPT !.callers = @ \cup {caller}] \in Refreshes
  BY <1>1 DEF Refreshes
<1>2. ASSUME NEW r \in asked PROVE [r EXCEPT !.current = FALSE] \in Refreshes
  BY <1>2 DEF Refreshes
<1>3. [for |-> u, owner |-> server.user, login |-> server.login,
       callers |-> {caller}, current |-> TRUE] \in Refreshes
  BY DEF Refreshes
<1> QED
  BY <1>1, <1>2, <1>3 DEF Asking

LEMMA CallRefreshTypes ==
  ASSUME AppTypeOK, NEW u \in Users, NEW caller \in Waiters, CallRefresh(u, caller)
  PROVE  asked' \subseteq Refreshes /\ refreshes' \in 0..MaxRefreshes
<1>1. asked' \subseteq Refreshes
  <2>1. server.user \in Known /\ server.login \in Logins /\ asked \subseteq Refreshes
    BY DEF AppTypeOK, Servers
  <2> QED
    BY <2>1, AskingIsTyped DEF CallRefresh
<1>2. refreshes' \in 0..MaxRefreshes
  BY AppAssumption DEF CallRefresh, AppTypeOK
<1> QED
  BY <1>1, <1>2

LEMMA EndWaitsTypes ==
  ASSUME AppTypeOK, NEW r \in asked, NEW p \in Phones, NEW a \in Apps, EndWaits(r, p, a)
  PROVE  /\ phone' \in Phones /\ app' \in Apps /\ boot' \in BootSteps
         /\ signIn' \in SignInSteps /\ signOut' \in SignOutSteps
<1> DEFINE ended == IF r.callers \cap {"boot", "signIn"} # {} THEN [a EXCEPT !.busy = FALSE] ELSE a
<1>1. ended \in Apps
  BY DEF Apps
<1>2. [boot EXCEPT !.at = "done"] \in BootSteps /\ NoSignIn \in SignInSteps
      /\ NoSignOut \in SignOutSteps
  BY AppAssumption DEF AppTypeOK, BootSteps, SignInSteps, SignOutSteps, NoSignIn, NoSignOut,
     Known, Logins
<1>3. signOut.user \in Known
  BY DEF AppTypeOK, SignOutSteps
<1>4. Cleared(p, signOut.user) \in Phones /\ LoggedOut(ended) \in Apps
  BY <1>1, <1>3, ClearedIsPhone, LoggedOutIsApp
<1>5. /\ boot' = IF "boot" \in r.callers THEN [boot EXCEPT !.at = "done"] ELSE boot
      /\ signIn' = IF "signIn" \in r.callers THEN NoSignIn ELSE signIn
      /\ IF "signOut" \in r.callers
         THEN phone' = Cleared(p, signOut.user) /\ app' = LoggedOut(ended) /\ signOut' = NoSignOut
         ELSE phone' = p /\ app' = ended /\ UNCHANGED signOut
  BY DEF EndWaits
<1> HIDE DEF ended
<1> QED
  BY <1>1, <1>2, <1>4, <1>5 DEF AppTypeOK

LEMMA FaultTypes ==
  ASSUME AppTypeOK, Fault \/ NoFaultHere
  PROVE  appFaults' \in 0..MaxAppFaults
  BY AppAssumption DEF Fault, NoFaultHere, AppTypeOK

LEMMA StartTypes ==
  /\ Launched \in Apps /\ Starting \in BootSteps /\ NoSignIn \in SignInSteps
  /\ NoSignOut \in SignOutSteps /\ NoSave \in SaveSteps
  BY AppAssumption DEF Launched, Starting, NoSignIn, NoSignOut, NoSave, Apps, BootSteps,
     SignInSteps, SignOutSteps, SaveSteps, Saves, Known, Logins

LEMMA AppTypeInit == AppInit => AppTypeOK
<1> SUFFICES ASSUME AppInit PROVE AppTypeOK
  OBVIOUS
<1>1. server \in Servers /\ phone \in Phones
  BY AppAssumption DEF AppInit, Servers, Phones, Known, Logins
<1>2. app \in Apps /\ boot \in BootSteps /\ signIn \in SignInSteps /\ signOut \in SignOutSteps
      /\ saving \in SaveSteps
  BY StartTypes DEF AppInit
<1>3. refreshes \in 0..MaxRefreshes /\ saves \in 0..MaxSaves /\ appFaults \in 0..MaxAppFaults
  BY AppAssumption DEF AppInit
<1>4. asked \subseteq Refreshes /\ gone \subseteq Users /\ overtaken \in BOOLEAN
  BY DEF AppInit
<1> QED
  BY <1>1, <1>2, <1>3, <1>4 DEF AppTypeOK

\* What the steps of each part leave in range.
LEMMA AppTypeStep ==
  ASSUME AppTypeOK, [AppNext]_appVars, saving.kind # "idle" => saving.user \in Users
  PROVE  AppTypeOK'
<1> USE AppAssumption, StartTypes
<1>0. /\ phone \in Phones /\ app \in Apps /\ asked \subseteq Refreshes
      /\ server \in Servers /\ server.user \in Known /\ server.login \in Logins
      /\ \A step \in {"flag", "get", "refresh", "done"} : [boot EXCEPT !.at = step] \in BootSteps
      /\ \A step \in {"idle", "delete", "create", "get", "refresh"} :
           [signIn EXCEPT !.at = step] \in SignInSteps
      /\ \A step \in {"idle", "delete", "answer", "drain"} : [signOut EXCEPT !.at = step] \in SignOutSteps
      /\ [server EXCEPT !.user = NoUser] \in Servers
      /\ \A busy \in BOOLEAN : [app EXCEPT !.busy = busy] \in Apps
      /\ \A pending \in BOOLEAN : [phone EXCEPT !.pending = pending] \in Phones
      /\ boot.cached \in Known /\ boot.owner \in Known /\ boot.rows \in SUBSET Users
      /\ app.user \in Known /\ app.rows \in SUBSET Users /\ signIn.user \in Known
      /\ signOut.user \in Known /\ saving.owner \in Known
  BY DEF AppTypeOK, Servers, Phones, Apps, BootSteps, SignInSteps, SignOutSteps, SaveSteps, Known
<1>1. CASE StartSignedOut
  BY <1>0, <1>1 DEF StartSignedOut, AppTypeOK
<1>2. CASE StartFromCache
  <2> DEFINE u == IF phone.lastUser \in phone.kept THEN phone.lastUser ELSE NoUser
             rows == IF u = NoUser THEN {} ELSE phone.owners[u]
  <2>1. u \in Known /\ rows \in SUBSET Users
    BY <1>0 DEF Phones, Known
  <2>2. /\ boot' = [at |-> "get", cached |-> u, rows |-> rows,
                    owner |-> server.user, login |-> server.login]
        /\ app' = IF u = NoUser THEN app ELSE Shown(app, u, rows)
        /\ overtaken' \in BOOLEAN
    BY <1>2 DEF StartFromCache, AppTypeOK
  <2> HIDE DEF u, rows
  <2>3. boot' \in BootSteps
    BY <1>0, <2>1, <2>2 DEF BootSteps
  <2>4. app' \in Apps
    BY <1>0, <2>1, <2>2, ShownIsApp
  <2> QED
    BY <1>2, <2>2, <2>3, <2>4 DEF StartFromCache, AppTypeOK
<1>3. CASE StartIdentified
  <2>1. CallRefresh(boot.owner, "boot") /\ boot.owner \in Users
    BY <1>0, <1>3 DEF StartIdentified, Known
  <2>2. asked' \subseteq Refreshes /\ refreshes' \in 0..MaxRefreshes
    BY <2>1, CallRefreshTypes DEF Waiters
  <2> DEFINE left == IF boot.cached # NoUser /\ boot.cached # boot.owner
                     THEN Cleared(phone, boot.cached) ELSE phone
             rows == IF boot.cached = boot.owner THEN boot.rows ELSE left.owners[boot.owner]
  <2>3. left \in Phones
    BY <1>0, ClearedIsPhone
  <2>4. rows \in SUBSET Users
    BY <1>0, <2>1, <2>3 DEF Phones
  <2>5. /\ phone' \in {left, [left EXCEPT !.lastUser = boot.owner]}
        /\ app' \in {Shown(app, boot.owner, rows),
                     [app EXCEPT !.active = boot.owner, !.user = boot.owner, !.rows = {}]}
    BY <1>3 DEF StartIdentified
  <2> HIDE DEF left, rows
  <2>6. phone' \in Phones
    BY <2>1, <2>3, <2>5 DEF Phones, Known
  <2>7. app' \in Apps
    <3>1. [app EXCEPT !.active = boot.owner, !.user = boot.owner, !.rows = {}] \in Apps
      BY <1>0, <2>1 DEF Apps, Known
    <3> QED
      BY <1>0, <2>1, <2>4, <2>5, <3>1, ShownIsApp
  <2> QED
    BY <1>0, <1>3, <2>2, <2>6, <2>7 DEF StartIdentified, AppTypeOK
<1>4. CASE StartRefused
  <2>1. LoggedOut(app) \in Apps /\ Cleared(phone, boot.cached) \in Phones
    BY <1>0, ClearedIsPhone, LoggedOutIsApp
  <2>2. [LoggedOut(app) EXCEPT !.active = NoUser, !.busy = FALSE] \in Apps
    BY <2>1 DEF Apps, Known
  <2> QED
    BY <1>0, <1>4, <2>1, <2>2 DEF StartRefused, AppTypeOK
<1>5. CASE StartOffline
  <2>1. [app EXCEPT !.offline = @ \/ boot.cached # NoUser, !.busy = FALSE] \in Apps
    BY <1>0 DEF Apps
  <2> QED
    BY <1>0, <1>5, <2>1, FaultTypes DEF StartOffline, AppTypeOK
<1>6. CASE TimerRefresh
  <2>1. CallRefresh(app.user, "timer") /\ app.user \in Users
    BY <1>0, <1>6 DEF TimerRefresh, Known
  <2>2. asked' \subseteq Refreshes /\ refreshes' \in 0..MaxRefreshes
    BY <2>1, CallRefreshTypes DEF Waiters
  <2> QED
    BY <1>6, <2>2 DEF TimerRefresh, AppTypeOK
<1>7. ASSUME NEW r \in asked, NEW tables \in {"all", "some", "none"}, RefreshAnswered(r, tables)
      PROVE  AppTypeOK'
  <2> DEFINE rows == CASE tables = "all" -> {r.owner}
                       [] tables = "some" -> app.rows \cup {r.owner}
                       [] tables = "none" -> app.rows
  <2>1. rows \in SUBSET Users
    BY <1>0, <1>7 DEF RefreshAnswered, Refreshes, Known
  <2>2. \/ EndWaits(r, Cached(phone, r.for, rows), [app EXCEPT !.rows = rows, !.offline = tables # "all"])
        \/ EndWaits(r, phone, app)
    BY <1>7 DEF RefreshAnswered
  <2> HIDE DEF rows
  <2>3. Cached(phone, r.for, rows) \in Phones
    BY <1>0, <2>1, CachedIsPhone DEF Refreshes
  <2>4. [app EXCEPT !.rows = rows, !.offline = tables # "all"] \in Apps
    BY <1>0, <2>1 DEF Apps
  <2>5. /\ phone' \in Phones /\ app' \in Apps /\ boot' \in BootSteps
        /\ signIn' \in SignInSteps /\ signOut' \in SignOutSteps
    BY <1>0, <2>2, <2>3, <2>4, EndWaitsTypes
  <2>6. appFaults' \in 0..MaxAppFaults
    BY <1>7, FaultTypes DEF RefreshAnswered
  <2>7. asked' \subseteq asked /\ UNCHANGED <<server, saving, refreshes, saves, gone>>
        /\ overtaken' \in BOOLEAN
    BY <1>7 DEF RefreshAnswered, EndsAnothers, AppTypeOK
  <2> QED
    BY <2>5, <2>6, <2>7 DEF AppTypeOK
<1>8. ASSUME NEW r \in asked, RefreshRefused(r) PROVE AppTypeOK'
  <2> DEFINE timed == IF "timer" \in r.callers THEN Cleared(phone, r.for) ELSE phone
             both == IF "boot" \in r.callers /\ boot.cached # NoUser
                     THEN Cleared(timed, boot.cached) ELSE timed
             a == IF r.callers \cap {"timer", "boot"} # {}
                  THEN [LoggedOut(app) EXCEPT !.active = NoUser] ELSE app
  <2>1. timed \in Phones
    BY <1>0, ClearedIsPhone DEF Refreshes, Known
  <2>2. both \in Phones
    BY <1>0, <2>1, ClearedIsPhone
  <2>3. a \in Apps
    BY <1>0, LoggedOutIsApp DEF Apps, Known
  <2>4. EndWaits(r, both, a)
    BY <1>8 DEF RefreshRefused
  <2> HIDE DEF timed, both, a
  <2>5. /\ phone' \in Phones /\ app' \in Apps /\ boot' \in BootSteps
        /\ signIn' \in SignInSteps /\ signOut' \in SignOutSteps
    BY <2>2, <2>3, <2>4, EndWaitsTypes
  <2>6. asked' \subseteq asked /\ UNCHANGED <<server, saving, refreshes, saves, appFaults, gone>>
        /\ overtaken' \in BOOLEAN
    BY <1>8 DEF RefreshRefused, EndsAnothers, Overtakes, NoFaultHere, AppTypeOK
  <2> QED
    BY <2>5, <2>6 DEF AppTypeOK
<1>9. ASSUME NEW u \in Users, BeginSignIn(u) PROVE AppTypeOK'
  <2>1. \A step \in {"delete", "create"} : [at |-> step, user |-> u] \in SignInSteps
    BY DEF SignInSteps, Known
  <2> QED
    BY <1>0, <1>9, <2>1 DEF BeginSignIn, AppTypeOK
<1>10. CASE DeletePending
  BY <1>0, <1>10 DEF DeletePending, AppTypeOK
<1>11. CASE CreateSession
  <2>1. [user |-> signIn.user, login |-> server.login + 1] \in Servers
    BY <1>0, <1>11 DEF CreateSession, Servers, Logins
  <2> QED
    BY <1>0, <1>11, <2>1, FaultTypes DEF CreateSession, AppTypeOK
<1>12. CASE SignedIn
  <2>1. CallRefresh(server.user, "signIn") /\ server.user \in Users
    BY <1>0, <1>12 DEF SignedIn, Known
  <2>2. asked' \subseteq Refreshes /\ refreshes' \in 0..MaxRefreshes
    BY <2>1, CallRefreshTypes DEF Waiters
  <2>3. [app EXCEPT !.active = server.user, !.user = server.user] \in Apps
    BY <1>0 DEF Apps
  <2> QED
    BY <1>0, <1>12, <2>2, <2>3 DEF SignedIn, AppTypeOK
<1>13. CASE SignInFails
  BY <1>0, <1>13, FaultTypes DEF SignInFails, AppTypeOK
<1>14. CASE SignOutOffline
  <2>1. app.user \in Users
    BY <1>0, <1>14 DEF SignOutOffline, Known
  <2>2. Cleared([phone EXCEPT !.pending = TRUE], app.user) \in Phones /\ LoggedOut(app) \in Apps
    BY <1>0, ClearedIsPhone, LoggedOutIsApp
  <2>3. [LoggedOut(app) EXCEPT !.active = NoUser] \in Apps
    BY <2>2 DEF Apps, Known
  <2> QED
    BY <1>14, <2>1, <2>2, <2>3 DEF SignOutOffline, AppTypeOK, Overtakes
<1>15. CASE BeginSignOut
  <2>1. app.user \in Users
    BY <1>0, <1>15 DEF BeginSignOut, Known
  <2>2. [app EXCEPT !.active = NoUser] \in Apps
    BY <1>0 DEF Apps, Known
  <2>3. [at |-> "delete", user |-> app.user, login |-> server.login] \in SignOutSteps
    BY <1>0 DEF SignOutSteps
  <2> QED
    BY <1>15, <2>1, <2>2, <2>3 DEF BeginSignOut, AppTypeOK, Overtakes
<1>16. CASE SessionDeleted
  BY <1>0, <1>16 DEF SessionDeleted, AppTypeOK
<1>17. CASE SignOutAnswered
  <2>1. PICK p \in Phones : ClearAfter(p)
    BY <1>0, <1>17 DEF SignOutAnswered
  <2>2. phone' \in Phones /\ app' \in Apps
    <3>1. Cleared(p, signOut.user) \in Phones /\ LoggedOut(app) \in Apps
      BY <1>0, ClearedIsPhone, LoggedOutIsApp
    <3> QED
      BY <1>0, <2>1, <3>1 DEF ClearAfter
  <2>3. asked' \subseteq Refreshes
    <3>1. \A r \in Refreshes : [r EXCEPT !.callers = @ \cup {"signOut"}] \in Refreshes
      BY DEF Refreshes, Waiters
    <3> QED
      BY <1>0, <2>1, <3>1 DEF ClearAfter
  <2>4. signOut' \in SignOutSteps /\ overtaken' \in BOOLEAN
    BY <1>0, <2>1 DEF ClearAfter, EndsAnothers, AppTypeOK
  <2>5. appFaults' \in 0..MaxAppFaults
    BY <1>17, FaultTypes DEF SignOutAnswered
  <2> QED
    BY <1>17, <2>2, <2>3, <2>4, <2>5 DEF SignOutAnswered, AppTypeOK
<1>18. ASSUME NEW kind \in Saves, BeginSave(kind) PROVE AppTypeOK'
  <2>1. [kind |-> kind, user |-> app.user, owner |-> server.user, login |-> server.login] \in SaveSteps
    BY <1>0 DEF SaveSteps
  <2>2. saves' \in 0..MaxSaves /\ overtaken' \in BOOLEAN
    BY <1>18 DEF BeginSave, AppTypeOK
  <2> QED
    BY <1>0, <1>18, <2>1, <2>2 DEF BeginSave, AppTypeOK
<1>19. CASE SaveAnswered
  <2> DEFINE rows == IF saving.kind = "farm" THEN app.rows \cup {saving.owner} ELSE app.rows
             user == IF saving.kind \in {"select", "profile"} THEN saving.owner ELSE app.user
  <2>1. rows \in SUBSET Users /\ user \in Known /\ saving.owner \in Users /\ saving.user \in Users
    BY <1>0, <1>19 DEF SaveAnswered, Known
  <2>2. app' = [app EXCEPT !.rows = rows, !.user = user, !.busy = saving.kind = "farm"]
    BY <1>19 DEF SaveAnswered
  <2>3. phone' \in {phone, Cached(phone, saving.owner, rows), Cached(phone, saving.user, rows)}
    BY <1>19 DEF SaveAnswered
  <2> HIDE DEF rows, user
  <2>4. app' \in Apps
    BY <1>0, <2>1, <2>2 DEF Apps
  <2>5. phone' \in Phones
    BY <1>0, <2>1, <2>3, CachedIsPhone
  <2>6. saving' \in SaveSteps
    <3>1. [saving EXCEPT !.kind = "select", !.owner = server.user, !.login = server.login] \in SaveSteps
      BY <1>0 DEF AppTypeOK, SaveSteps, Saves
    <3> QED
      BY <1>19, <3>1 DEF SaveAnswered
  <2> QED
    BY <1>19, <2>4, <2>5, <2>6 DEF SaveAnswered, AppTypeOK
<1>20. CASE SaveFails
  BY <1>0, <1>20, FaultTypes DEF SaveFails, AppTypeOK
<1>21. CASE SessionEnds
  BY <1>0, <1>21, FaultTypes DEF SessionEnds, AppTypeOK
<1>22. CASE AppRestarts
  BY <1>0, <1>22, FaultTypes DEF AppRestarts, AppTypeOK
<1>23. CASE UNCHANGED appVars
  BY <1>23 DEF appVars, AppTypeOK
<1> QED
  BY <1>1, <1>2, <1>3, <1>4, <1>5, <1>6, <1>7, <1>8, <1>9, <1>10, <1>11, <1>12, <1>13, <1>14,
     <1>15, <1>16, <1>17, <1>18, <1>19, <1>20, <1>21, <1>22, <1>23 DEF AppNext

\* ------------------------------------------------------------------- shape

\* Asking for a refresh leaves one current refresh, adds no sign-out to those who
\* wait, and owes its rows to the session of now.
LEMMA CallRefreshShape ==
  ASSUME asked \subseteq Refreshes, OneCurrent, DrainsSignOut, UNCHANGED signOut,
         NEW u \in Users, NEW caller \in {"boot", "timer", "signIn"}, CallRefresh(u, caller)
  PROVE  /\ OneCurrent' /\ DrainsSignOut'
         /\ RefreshesOwn /\ server.user \in {NoUser, u} => RefreshesOwn'
<1> DEFINE withCaller(r) == IF r \in SameRefresh(u) THEN [r EXCEPT !.callers = @ \cup {caller}] ELSE r
           left(r) == [r EXCEPT !.current = FALSE]
           new == [for |-> u, owner |-> server.user, login |-> server.login,
                   callers |-> {caller}, current |-> TRUE]
<1>0. asked' = IF SameRefresh(u) # {} THEN {withCaller(r) : r \in asked}
               ELSE {left(r) : r \in asked} \cup {new}
  BY DEF CallRefresh, Asking
<1>1. \A r \in asked : /\ withCaller(r).current = r.current /\ withCaller(r).owner = r.owner
                       /\ withCaller(r).for = r.for
                       /\ "signOut" \in withCaller(r).callers <=> "signOut" \in r.callers
  BY DEF Refreshes
<1>2. \A r \in asked : /\ left(r).current = FALSE /\ left(r).owner = r.owner
                       /\ left(r).for = r.for /\ left(r).callers = r.callers
  BY DEF Refreshes
<1>3. new.current /\ new.owner = server.user /\ new.for = u /\ "signOut" \notin new.callers
  OBVIOUS
<1> HIDE DEF withCaller, left, new
<1>4. OneCurrent'
  BY <1>0, <1>1, <1>2, <1>3 DEF OneCurrent
<1>5. DrainsSignOut'
  BY <1>0, <1>1, <1>2, <1>3 DEF DrainsSignOut
<1>6. ASSUME RefreshesOwn, server.user \in {NoUser, u} PROVE RefreshesOwn'
  BY <1>0, <1>1, <1>2, <1>3, <1>6 DEF RefreshesOwn
<1> QED
  BY <1>4, <1>5, <1>6

LEMMA ShapeInit == AppInit => SessionShape
  BY AppAssumption DEF AppInit, SessionShape, OneCurrent, DrainsSignOut, HandlersNamed, StartsAlone,
     NoSignIn, NoSignOut, NoSave, Starting

\* Whoever ends the wait of a refresh takes it from those under way.
LEMMA EndWaitsShape ==
  ASSUME AppTypeOK, SessionShape, NEW r \in asked, NEW p, NEW a, EndWaits(r, p, a),
         asked' = asked \ {r}, UNCHANGED saving
  PROVE  SessionShape'
<1>1. boot.at # "flag" /\ boot'.at # "flag"
  BY DEF SessionShape, StartsAlone, EndWaits, AppTypeOK, BootSteps
<1>2. signOut' = IF "signOut" \in r.callers THEN NoSignOut ELSE signOut
  BY DEF EndWaits
<1>3. OneCurrent' /\ DrainsSignOut'
  BY <1>2 DEF SessionShape, OneCurrent, DrainsSignOut
<1>4. HandlersNamed'
  BY <1>2 DEF SessionShape, HandlersNamed, NoSignOut
<1> QED
  BY <1>1, <1>3, <1>4 DEF SessionShape, StartsAlone

LEMMA ShapeStep ==
  ASSUME AppTypeOK, SessionShape, [AppNext]_appVars
  PROVE  SessionShape'
<1> USE AppAssumption
<1>0. /\ boot \in BootSteps /\ signOut \in SignOutSteps /\ saving \in SaveSteps /\ app \in Apps
      /\ asked \subseteq Refreshes /\ app.user \in Known /\ server.user \in Known /\ boot.owner \in Known
      /\ OneCurrent /\ DrainsSignOut /\ HandlersNamed /\ StartsAlone
  BY DEF AppTypeOK, SessionShape, BootSteps, SignOutSteps, SaveSteps, Apps, Servers
<1>1. CASE StartSignedOut
  BY <1>0, <1>1 DEF StartSignedOut, SessionShape, OneCurrent, DrainsSignOut, HandlersNamed, StartsAlone, BootSteps
<1>2. CASE StartFromCache
  BY <1>0, <1>2 DEF StartFromCache, SessionShape, OneCurrent, DrainsSignOut, HandlersNamed, StartsAlone, BootSteps
<1>3. CASE StartIdentified
  <2>1. OneCurrent' /\ DrainsSignOut'
    BY <1>0, <1>3, CallRefreshShape DEF StartIdentified, Known
  <2>2. HandlersNamed' /\ StartsAlone'
    BY <1>0, <1>3 DEF StartIdentified, HandlersNamed, StartsAlone, BootSteps
  <2> QED
    BY <2>1, <2>2 DEF SessionShape
<1>4. CASE StartRefused
  BY <1>0, <1>4 DEF StartRefused, SessionShape, OneCurrent, DrainsSignOut, HandlersNamed, StartsAlone, BootSteps
<1>5. CASE StartOffline
  BY <1>0, <1>5 DEF StartOffline, SessionShape, OneCurrent, DrainsSignOut, HandlersNamed, StartsAlone, BootSteps
<1>6. CASE TimerRefresh
  <2>1. OneCurrent' /\ DrainsSignOut'
    BY <1>0, <1>6, CallRefreshShape DEF TimerRefresh, Known
  <2>2. HandlersNamed' /\ StartsAlone'
    BY <1>0, <1>6 DEF TimerRefresh, HandlersNamed, StartsAlone, Launched
  <2> QED
    BY <2>1, <2>2 DEF SessionShape
<1>7. ASSUME NEW r \in asked, NEW tables \in {"all", "some", "none"}, RefreshAnswered(r, tables)
      PROVE  SessionShape'
  <2>1. PICK p, a : EndWaits(r, p, a)
    BY <1>7 DEF RefreshAnswered
  <2>2. asked' = asked \ {r} /\ UNCHANGED saving
    BY <1>7 DEF RefreshAnswered
  <2> QED
    BY <2>1, <2>2, EndWaitsShape
<1>8. ASSUME NEW r \in asked, RefreshRefused(r) PROVE SessionShape'
  <2>1. PICK p, a : EndWaits(r, p, a)
    BY <1>8 DEF RefreshRefused
  <2>2. asked' = asked \ {r} /\ UNCHANGED saving
    BY <1>8 DEF RefreshRefused
  <2> QED
    BY <2>1, <2>2, EndWaitsShape
<1>9. ASSUME NEW u \in Users, BeginSignIn(u) PROVE SessionShape'
  BY <1>0, <1>9 DEF BeginSignIn, SessionShape, OneCurrent, DrainsSignOut, HandlersNamed, StartsAlone, Launched
<1>10. CASE DeletePending
  BY <1>0, <1>10 DEF DeletePending, SessionShape, OneCurrent, DrainsSignOut, HandlersNamed, StartsAlone
<1>11. CASE CreateSession
  BY <1>0, <1>11 DEF CreateSession, SessionShape, OneCurrent, DrainsSignOut, HandlersNamed, StartsAlone
<1>12. CASE SignedIn
  <2>1. OneCurrent' /\ DrainsSignOut'
    BY <1>0, <1>12, CallRefreshShape DEF SignedIn, Known
  <2>2. HandlersNamed' /\ StartsAlone'
    BY <1>0, <1>12 DEF SignedIn, HandlersNamed, StartsAlone
  <2> QED
    BY <2>1, <2>2 DEF SessionShape
<1>13. CASE SignInFails
  BY <1>0, <1>13 DEF SignInFails, SessionShape, OneCurrent, DrainsSignOut, HandlersNamed, StartsAlone
<1>14. CASE SignOutOffline
  BY <1>0, <1>14 DEF SignOutOffline, SessionShape, OneCurrent, DrainsSignOut, HandlersNamed, StartsAlone, Launched
<1>15. CASE BeginSignOut
  BY <1>0, <1>15 DEF BeginSignOut, SessionShape, OneCurrent, DrainsSignOut, HandlersNamed, StartsAlone, Launched
<1>16. CASE SessionDeleted
  BY <1>0, <1>16 DEF SessionDeleted, SessionShape, OneCurrent, DrainsSignOut, HandlersNamed, StartsAlone, SignOutSteps
<1>17. CASE SignOutAnswered
  <2>1. PICK p : ClearAfter(p)
    BY <1>17 DEF SignOutAnswered
  <2>2. signOut.at \in {"delete", "answer"} /\ UNCHANGED <<boot, signIn, saving>>
    BY <1>17 DEF SignOutAnswered
  <2>3. boot.at # "flag" /\ (\A r \in asked : "signOut" \notin r.callers)
    BY <1>0, <2>2 DEF StartsAlone, DrainsSignOut
  <2>4. HandlersNamed'
    BY <1>0, <2>1, <2>2 DEF ClearAfter, HandlersNamed, NoSignOut, SignOutSteps
  <2>5. CASE \E r \in asked : r.current
    <3> DEFINE waited(r) == IF r.current THEN [r EXCEPT !.callers = @ \cup {"signOut"}] ELSE r
    <3>1. asked' = {waited(r) : r \in asked} /\ signOut'.at = "drain"
      BY <1>0, <2>1, <2>5 DEF ClearAfter, SignOutSteps
    <3>2. \A r \in asked : /\ waited(r).current = r.current
                           /\ "signOut" \in waited(r).callers => r.current
      BY <1>0, <2>3 DEF Refreshes
    <3> HIDE DEF waited
    <3>3. OneCurrent' /\ DrainsSignOut'
      BY <1>0, <3>1, <3>2 DEF OneCurrent, DrainsSignOut
    <3> QED
      BY <2>2, <2>3, <2>4, <3>3 DEF SessionShape, StartsAlone
  <2>6. CASE ~ \E r \in asked : r.current
    BY <1>0, <2>1, <2>2, <2>3, <2>4, <2>6 DEF ClearAfter, SessionShape, StartsAlone, OneCurrent, DrainsSignOut
  <2> QED
    BY <2>5, <2>6
<1>18. ASSUME NEW kind \in Saves, BeginSave(kind) PROVE SessionShape'
  BY <1>0, <1>18 DEF BeginSave, SessionShape, OneCurrent, DrainsSignOut, HandlersNamed, StartsAlone, Launched, Known
<1>19. CASE SaveAnswered
  BY <1>0, <1>19 DEF SaveAnswered, SessionShape, OneCurrent, DrainsSignOut, HandlersNamed, StartsAlone, NoSave, SaveSteps
<1>20. CASE SaveFails
  BY <1>0, <1>20 DEF SaveFails, SessionShape, OneCurrent, DrainsSignOut, HandlersNamed, StartsAlone, NoSave
<1>21. CASE SessionEnds
  BY <1>0, <1>21 DEF SessionEnds, SessionShape, OneCurrent, DrainsSignOut, HandlersNamed, StartsAlone
<1>22. CASE AppRestarts
  BY <1>0, <1>22 DEF AppRestarts, SessionShape, OneCurrent, DrainsSignOut, HandlersNamed, StartsAlone, NoSignIn,
     NoSignOut, NoSave
<1>23. CASE UNCHANGED appVars
  BY <1>0, <1>23 DEF appVars, SessionShape, OneCurrent, DrainsSignOut, HandlersNamed, StartsAlone
<1> QED
  BY <1>1, <1>2, <1>3, <1>4, <1>5, <1>6, <1>7, <1>8, <1>9, <1>10, <1>11, <1>12, <1>13, <1>14,
     <1>15, <1>16, <1>17, <1>18, <1>19, <1>20, <1>21, <1>22, <1>23 DEF AppNext

\* ------------------------------------------------------------- users apart

LEMMA ApartInit == AppInit => Apart
  BY AppAssumption DEF AppInit, Apart, ScreenApart, PhoneApart, WaitsApart, ActiveIsUser, ActiveStays,
     RowsOfUser, SignedOutStays, SessionOfUser, SnapshotsAreOwn, NothingLeft, GoneSession, StartWaits,
     SignInWaits, SaveWaits, RefreshesOwn, Launched, Starting, NoSignIn, NoSignOut, NoSave

LEMMA ApartStart ==
  ASSUME AppTypeOK, SessionShape, Apart, ~overtaken',
         StartSignedOut \/ StartFromCache \/ StartIdentified \/ StartRefused \/ StartOffline
  PROVE  Apart'
<1> USE AppAssumption
<1>0. /\ boot \in BootSteps /\ signOut \in SignOutSteps /\ saving \in SaveSteps /\ app \in Apps
      /\ signIn \in SignInSteps /\ phone \in Phones /\ server \in Servers /\ asked \subseteq Refreshes
      /\ app.user \in Known /\ server.user \in Known /\ boot.owner \in Known /\ boot.cached \in Known
      /\ gone \subseteq Users
      /\ ActiveIsUser /\ ActiveStays /\ RowsOfUser /\ SignedOutStays /\ SessionOfUser /\ SnapshotsAreOwn
      /\ NothingLeft /\ GoneSession /\ StartWaits /\ SignInWaits /\ SaveWaits /\ RefreshesOwn
      /\ OneCurrent /\ DrainsSignOut /\ HandlersNamed /\ StartsAlone
  BY DEF AppTypeOK, SessionShape, BootSteps, SignOutSteps, SaveSteps, Apps, Servers, Apart, ScreenApart,
     PhoneApart, WaitsApart
<1>1. CASE StartSignedOut
  <2>1. ScreenApart'
    BY <1>0, <1>1 DEF StartSignedOut, ScreenApart, ActiveIsUser, ActiveStays, RowsOfUser, SignedOutStays,
       SessionOfUser, Apps
  <2>2. PhoneApart'
    BY <1>0, <1>1 DEF StartSignedOut, PhoneApart, SnapshotsAreOwn, NothingLeft
  <2>3. WaitsApart'
    BY <1>0, <1>1 DEF StartSignedOut, WaitsApart, GoneSession, StartWaits, SignInWaits, SaveWaits,
       RefreshesOwn, BootSteps, Apps
  <2> QED
    BY <2>1, <2>2, <2>3 DEF Apart
<1>2. CASE StartFromCache
  <2> DEFINE u == IF phone.lastUser \in phone.kept THEN phone.lastUser ELSE NoUser
             rows == IF u = NoUser THEN {} ELSE phone.owners[u]
  <2>1. /\ boot' = [at |-> "get", cached |-> u, rows |-> rows,
                    owner |-> server.user, login |-> server.login]
        /\ app' = IF u = NoUser THEN app ELSE Shown(app, u, rows)
        /\ NoUser \in {u, server.user} \/ u = server.user
        /\ boot.at = "flag" /\ ~phone.pending
    BY <1>2 DEF StartFromCache
  <2>2. /\ signIn.at = "idle" /\ signOut.at = "idle" /\ signOut.user = NoUser /\ saving.kind = "idle"
        /\ asked = {} /\ app = Launched
    BY <1>0, <2>1 DEF StartsAlone, HandlersNamed
  <2>3. u # NoUser => u \in Users /\ u \in phone.kept
    BY <1>0 DEF Phones
  <2>4. u \notin gone /\ server.user \notin gone /\ rows \subseteq {u}
    BY <1>0, <2>1, <2>2, <2>3 DEF NothingLeft, GoneSession, SnapshotsAreOwn
  <2>5. u \in Known /\ rows \in SUBSET Users
    BY <1>0, <2>3, <2>4 DEF Known
  <2> HIDE DEF u, rows
  <2>6. /\ app'.user = u /\ app'.active = u /\ app'.rows \subseteq {u}
        /\ u = NoUser => app'.busy
    <3>1. CASE u = NoUser
      BY <1>0, <2>1, <2>2, <3>1 DEF Launched
    <3>2. CASE u # NoUser
      BY <1>0, <2>1, <2>4, <2>5, <3>2, ShownIsApp
    <3> QED
      BY <3>1, <3>2
  <2>7. UNCHANGED <<server, phone, signIn, signOut, saving, asked, gone>>
    BY <1>2 DEF StartFromCache
  <2>8. ScreenApart'
    BY <1>0, <2>1, <2>4, <2>6, <2>7 DEF ScreenApart, ActiveIsUser, ActiveStays, RowsOfUser, SignedOutStays, SessionOfUser
  <2>9. PhoneApart'
    BY <1>0, <2>7 DEF PhoneApart, SnapshotsAreOwn, NothingLeft
  <2>10. WaitsApart'
    BY <1>0, <2>1, <2>2, <2>4, <2>6, <2>7 DEF WaitsApart, GoneSession, StartWaits, SignInWaits, SaveWaits, RefreshesOwn
  <2> QED
    BY <2>8, <2>9, <2>10 DEF Apart
<1>3. CASE StartIdentified
  <2> DEFINE u == boot.owner
             left == IF boot.cached # NoUser /\ boot.cached # u THEN Cleared(phone, boot.cached) ELSE phone
             rows == IF boot.cached = u THEN boot.rows ELSE left.owners[u]
  <2>1. /\ boot.at = "get" /\ u \in Users
        /\ phone' \in {left, [left EXCEPT !.lastUser = u]}
        /\ app' \in {Shown(app, u, rows), [app EXCEPT !.active = u, !.user = u, !.rows = {}]}
        /\ CallRefresh(u, "boot")
        /\ boot' = [boot EXCEPT !.at = "refresh"]
        /\ UNCHANGED <<server, signIn, signOut, saving, gone>>
    BY <1>0, <1>3 DEF StartIdentified, Known
  <2>2. /\ left = phone /\ u \notin gone /\ rows \subseteq {u}
        /\ server.user \in {NoUser, u}
        /\ saving.kind # "idle" => app.user = u
    BY <1>0, <2>1 DEF StartWaits, SnapshotsAreOwn, SaveWaits
  <2>3. rows \in SUBSET Users
    BY <2>1, <2>2
  <2> HIDE DEF left, rows
  <2>4. app'.user = u /\ app'.active = u /\ app'.rows \subseteq {u}
    <3>1. CASE app' = Shown(app, u, rows)
      BY <1>0, <2>2, <2>3, <3>1, ShownIsApp
    <3>2. CASE app' = [app EXCEPT !.active = u, !.user = u, !.rows = {}]
      BY <1>0, <3>2 DEF Apps
    <3> QED
      BY <2>1, <3>1, <3>2
  <2>5. phone'.kept = phone.kept /\ phone'.owners = phone.owners /\ phone'.pending = phone.pending
    BY <1>0, <2>1, <2>2 DEF Phones
  <2>6. ScreenApart'
    BY <1>0, <2>1, <2>2, <2>4 DEF ScreenApart, ActiveIsUser, ActiveStays, RowsOfUser, SignedOutStays, SessionOfUser
  <2>7. PhoneApart'
    BY <1>0, <2>1, <2>5 DEF PhoneApart, SnapshotsAreOwn, NothingLeft
  <2>8. RefreshesOwn'
    BY <1>0, <2>1, <2>2, CallRefreshShape
  <2>9. GoneSession' /\ StartWaits' /\ SignInWaits' /\ SaveWaits'
    BY <1>0, <2>1, <2>2, <2>4, <2>5 DEF GoneSession, StartWaits, SignInWaits, SaveWaits, BootSteps
  <2> QED
    BY <2>6, <2>7, <2>8, <2>9 DEF Apart, WaitsApart
<1>4. CASE StartRefused
  <2>1. /\ boot.at = "get" /\ saving.kind = "idle" /\ signIn.at = "idle" /\ signOut.at = "idle"
        /\ phone' = IF boot.cached = NoUser THEN phone ELSE Cleared(phone, boot.cached)
        /\ app' = [LoggedOut(app) EXCEPT !.active = NoUser, !.busy = FALSE]
        /\ boot'.at = "done"
        /\ UNCHANGED <<server, signIn, signOut, saving, asked, gone>>
    BY <1>0, <1>4 DEF StartRefused, StartWaits, BootSteps
  <2>2. app'.user = NoUser /\ app'.active = NoUser /\ app'.rows = {}
    BY <1>0, <2>1, LoggedOutIsApp DEF Apps
  <2>3. /\ phone'.kept \subseteq phone.kept /\ phone'.pending = phone.pending
        /\ \A u \in Users : phone'.owners[u] \subseteq phone.owners[u]
    <3>1. CASE phone' = phone
      BY <3>1
    <3>2. CASE boot.cached # NoUser /\ phone' = Cleared(phone, boot.cached)
      BY <1>0, <3>2, ClearedIsPhone
    <3> QED
      BY <2>1, <3>1, <3>2
  <2>4. ScreenApart'
    BY <1>0, <2>1, <2>2 DEF ScreenApart, ActiveIsUser, ActiveStays, RowsOfUser, SignedOutStays, SessionOfUser
  <2>5. PhoneApart'
    BY <1>0, <2>1, <2>3 DEF PhoneApart, SnapshotsAreOwn, NothingLeft
  <2>6. WaitsApart'
    BY <1>0, <2>1, <2>2, <2>3 DEF WaitsApart, GoneSession, StartWaits, SignInWaits, SaveWaits, RefreshesOwn
  <2> QED
    BY <2>4, <2>5, <2>6 DEF Apart
<1>5. CASE StartOffline
  <2>1. ScreenApart'
    BY <1>0, <1>5 DEF StartOffline, ScreenApart, ActiveIsUser, ActiveStays, RowsOfUser, SignedOutStays,
       SessionOfUser, Apps
  <2>2. PhoneApart'
    BY <1>0, <1>5 DEF StartOffline, PhoneApart, SnapshotsAreOwn, NothingLeft
  <2>3. WaitsApart'
    BY <1>0, <1>5 DEF StartOffline, WaitsApart, GoneSession, StartWaits, SignInWaits, SaveWaits,
       RefreshesOwn, BootSteps, Apps
  <2> QED
    BY <2>1, <2>2, <2>3 DEF Apart
<1> QED
  BY <1>1, <1>2, <1>3, <1>4, <1>5

\* A wait that ends leaves the app as a step before it left it, or signs it out.
LEMMA EndWaitsApart ==
  ASSUME AppTypeOK, NEW r \in asked, NEW p \in Phones, NEW a \in Apps, EndWaits(r, p, a)
  PROVE  /\ app'.active = a.active
         /\ "signOut" \notin r.callers => /\ app'.user = a.user /\ app'.rows = a.rows
                                          /\ phone' = p /\ signOut' = signOut
         /\ "signOut" \in r.callers => /\ app'.user = NoUser /\ app'.rows = {}
                                       /\ phone'.kept = p.kept \ {signOut.user}
                                       /\ phone'.pending = p.pending
                                       /\ \A u \in Users : phone'.owners[u] \subseteq p.owners[u]
                                       /\ signOut' = NoSignOut
         /\ signIn' = signIn \/ signIn' = NoSignIn
         /\ boot' = boot \/ boot'.at = "done"
<1> DEFINE ended == IF r.callers \cap {"boot", "signIn"} # {} THEN [a EXCEPT !.busy = FALSE] ELSE a
<1>1. ended \in Apps /\ ended.active = a.active /\ ended.user = a.user /\ ended.rows = a.rows
  BY DEF Apps
<1>2. /\ boot' = IF "boot" \in r.callers THEN [boot EXCEPT !.at = "done"] ELSE boot
      /\ signIn' = IF "signIn" \in r.callers THEN NoSignIn ELSE signIn
      /\ IF "signOut" \in r.callers
         THEN phone' = Cleared(p, signOut.user) /\ app' = LoggedOut(ended) /\ signOut' = NoSignOut
         ELSE phone' = p /\ app' = ended /\ UNCHANGED signOut
  BY DEF EndWaits
<1> HIDE DEF ended
<1>3. signOut.user \in Known /\ boot \in BootSteps
  BY DEF AppTypeOK, SignOutSteps
<1>4. boot' = boot \/ boot'.at = "done"
  BY <1>2, <1>3 DEF BootSteps
<1> QED
  BY <1>1, <1>2, <1>3, <1>4, ClearedIsPhone, LoggedOutIsApp

LEMMA ClearedShrinks ==
  ASSUME NEW p \in Phones, NEW u \in Known
  PROVE  /\ Cleared(p, u) \in Phones
         /\ Cleared(p, u).kept \subseteq p.kept /\ Cleared(p, u).pending = p.pending
         /\ \A v \in Users : Cleared(p, u).owners[v] \subseteq p.owners[v]
  BY ClearedIsPhone

LEMMA ApartRefresh ==
  ASSUME AppTypeOK, SessionShape, Apart, ~overtaken',
         \/ TimerRefresh
         \/ \E r \in asked, tables \in {"all", "some", "none"} : RefreshAnswered(r, tables)
         \/ \E r \in asked : RefreshRefused(r)
  PROVE  Apart'
<1> USE AppAssumption
<1> DEFINE Leaves(r, p, a) ==
             /\ "signOut" \in r.callers =>
                  app.active = NoUser \/ (a.active = NoUser /\ saving.kind = "idle")
             /\ \/ a.active = app.active /\ a.user = app.user
                \/ /\ a.active = NoUser /\ a.user = NoUser
                   /\ saving.kind = "idle" /\ boot.at # "get"
             /\ a.rows \subseteq {a.user}
             /\ p.pending = phone.pending /\ p.kept \subseteq phone.kept \cup {app.active}
             /\ \A u \in Users : p.owners[u] \subseteq {u}
<1>0. /\ boot \in BootSteps /\ signOut \in SignOutSteps /\ saving \in SaveSteps /\ app \in Apps
      /\ signIn \in SignInSteps /\ phone \in Phones /\ server \in Servers /\ asked \subseteq Refreshes
      /\ app.user \in Known /\ app.active \in Known /\ server.user \in Known /\ boot.cached \in Known
      /\ gone \subseteq Users /\ app.rows \in SUBSET Users
      /\ ActiveIsUser /\ ActiveStays /\ RowsOfUser /\ SignedOutStays /\ SessionOfUser /\ SnapshotsAreOwn
      /\ NothingLeft /\ GoneSession /\ StartWaits /\ SignInWaits /\ SaveWaits /\ RefreshesOwn
      /\ OneCurrent /\ DrainsSignOut /\ HandlersNamed /\ StartsAlone
  BY DEF AppTypeOK, SessionShape, BootSteps, SignOutSteps, SaveSteps, Apps, Servers, Apart, ScreenApart,
     PhoneApart, WaitsApart
<1>1. CASE TimerRefresh
  <2>1. /\ app.user \in Users /\ CallRefresh(app.user, "timer")
        /\ UNCHANGED <<server, phone, app, boot, signIn, signOut, saving, gone>>
    BY <1>0, <1>1 DEF TimerRefresh, Known
  <2>2. RefreshesOwn'
    BY <1>0, <2>1, CallRefreshShape DEF SessionOfUser
  <2>3. StartWaits'
    BY <1>0, <2>1 DEF StartWaits
  <2>4. GoneSession' /\ SignInWaits' /\ SaveWaits'
    BY <1>0, <2>1 DEF GoneSession, SignInWaits, SaveWaits
  <2>5. ScreenApart' /\ PhoneApart'
    BY <1>0, <2>1 DEF ScreenApart, ActiveIsUser, ActiveStays, RowsOfUser, SignedOutStays, SessionOfUser,
       PhoneApart, SnapshotsAreOwn, NothingLeft
  <2> QED
    BY <2>2, <2>3, <2>4, <2>5 DEF Apart, WaitsApart
\* An answer either comes for the user on the screen, or changes nothing before
\* those who wait for it go on.
<1>2. ASSUME NEW r \in asked, NEW p \in Phones, NEW a \in Apps, EndWaits(r, p, a),
             asked' = asked \ {r}, UNCHANGED <<server, saving, gone>>,
             Leaves(r, p, a)
      PROVE  Apart'
  <2>0. r \in Refreshes /\ a.active \in Known
    BY <1>0 DEF Apps
  <2>1. /\ app'.active = a.active
        /\ "signOut" \notin r.callers => /\ app'.user = a.user /\ app'.rows = a.rows
                                         /\ phone' = p /\ signOut' = signOut
        /\ "signOut" \in r.callers => /\ app'.user = NoUser /\ app'.rows = {}
                                      /\ phone'.kept = p.kept \ {signOut.user}
                                      /\ phone'.pending = p.pending
                                      /\ \A u \in Users : phone'.owners[u] \subseteq p.owners[u]
                                      /\ signOut' = NoSignOut
        /\ signIn' = signIn \/ signIn' = NoSignIn
        /\ boot' = boot \/ boot'.at = "done"
    BY <1>2, EndWaitsApart
  <2>2. "signOut" \in r.callers => /\ signOut.at = "drain" /\ boot.at # "get" /\ saving.kind = "idle"
                                   /\ app'.active = NoUser
    BY <1>0, <1>2, <2>1 DEF DrainsSignOut, StartWaits, SaveWaits
  <2>3. app'.user # NoUser => app'.user = app.user
    BY <1>2, <2>1
  <2>4. ScreenApart'
    BY <1>0, <1>2, <2>1, <2>2, <2>3 DEF ScreenApart, ActiveIsUser, ActiveStays, RowsOfUser, SignedOutStays,
       SessionOfUser
  <2>5. SnapshotsAreOwn'
    BY <1>0, <1>2, <2>1 DEF SnapshotsAreOwn
  <2>6. NothingLeft'
    BY <1>0, <1>2, <2>1 DEF NothingLeft, ActiveStays
  <2>7. GoneSession'
    BY <1>0, <1>2, <2>1, <2>2 DEF GoneSession, NoSignOut
  <2>8. StartWaits'
    BY <1>0, <1>2, <2>1, <2>2, <2>3 DEF StartWaits, NoSignIn, NoSignOut
  <2>9. SignInWaits'
    BY <1>0, <1>2, <2>1, <2>2, <2>3 DEF SignInWaits, NoSignIn
  <2>10. SaveWaits'
    BY <1>0, <1>2, <2>1, <2>2, <2>3 DEF SaveWaits
  <2>11. RefreshesOwn'
    BY <1>0, <1>2 DEF RefreshesOwn
  <2> QED
    BY <2>4, <2>5, <2>6, <2>7, <2>8, <2>9, <2>10, <2>11 DEF Apart, PhoneApart, WaitsApart
<1>3. ASSUME NEW r \in asked, NEW tables \in {"all", "some", "none"}, RefreshAnswered(r, tables)
      PROVE  Apart'
  <2> DEFINE rows == CASE tables = "all" -> {r.owner}
                       [] tables = "some" -> app.rows \cup {r.owner}
                       [] tables = "none" -> app.rows
  <2>1. r \in Refreshes /\ r.for \in Users /\ r.owner \in {NoUser, r.for}
    BY <1>0 DEF RefreshesOwn, Refreshes
  <2>2. /\ tables \in {"all", "some"} => r.owner # NoUser
        /\ asked' = asked \ {r} /\ UNCHANGED <<server, saving, gone>>
        /\ "signOut" \in r.callers => app.active = NoUser
    BY <1>3 DEF RefreshAnswered, EndsAnothers
  <2>3. CASE app.active = r.for
    <3>1. EndWaits(r, Cached(phone, r.for, rows), [app EXCEPT !.rows = rows, !.offline = tables # "all"])
      BY <1>3, <2>3 DEF RefreshAnswered, StillActive
    <3>2. app.user = r.for /\ rows \subseteq {r.for} /\ rows \in SUBSET Users
      BY <1>0, <2>1, <2>2, <2>3 DEF ActiveIsUser, RowsOfUser
    <3> DEFINE a == [app EXCEPT !.rows = rows, !.offline = tables # "all"]
               p == Cached(phone, r.for, rows)
    <3> HIDE DEF rows
    <3>3. a \in Apps /\ a.rows = rows /\ a.user = app.user /\ a.active = app.active
      BY <1>0, <3>2 DEF Apps
    <3>4. /\ p \in Phones /\ p.kept = phone.kept \cup {r.for} /\ p.pending = phone.pending
          /\ \A u \in Users : p.owners[u] \subseteq {u}
      BY <1>0, <2>1, <3>2, CachedIsPhone DEF SnapshotsAreOwn
    <3> HIDE DEF a, p
    <3>5. EndWaits(r, p, a)
      BY <3>1 DEF a, p
    <3>6. Leaves(r, p, a)
      BY <2>2, <2>3, <3>2, <3>3, <3>4
    <3> HIDE DEF Leaves
    <3> QED
      BY <1>2, <2>2, <3>3, <3>4, <3>5, <3>6
  <2>4. CASE app.active # r.for
    <3>1. EndWaits(r, phone, app)
      BY <1>3, <2>4 DEF RefreshAnswered, StillActive
    <3>2. Leaves(r, phone, app)
      BY <1>0, <2>2 DEF RowsOfUser, SnapshotsAreOwn
    <3> HIDE DEF Leaves
    <3> QED
      BY <1>0, <1>2, <2>2, <3>1, <3>2
  <2> QED
    BY <2>3, <2>4
<1>4. ASSUME NEW r \in asked, RefreshRefused(r) PROVE Apart'
  <2> DEFINE timed == IF "timer" \in r.callers THEN Cleared(phone, r.for) ELSE phone
             both == IF "boot" \in r.callers /\ boot.cached # NoUser
                     THEN Cleared(timed, boot.cached) ELSE timed
             a == IF r.callers \cap {"timer", "boot"} # {}
                  THEN [LoggedOut(app) EXCEPT !.active = NoUser] ELSE app
  <2>1. r.for \in Known
    BY <1>0 DEF Refreshes, Known
  <2>2. /\ timed \in Phones /\ timed.kept \subseteq phone.kept /\ timed.pending = phone.pending
        /\ \A u \in Users : timed.owners[u] \subseteq phone.owners[u]
    <3>1. phone \in Phones
      BY <1>0
    <3> QED
      BY <2>1, <3>1, ClearedShrinks
  <2> HIDE DEF timed
  <2>3. /\ both \in Phones /\ both.kept \subseteq phone.kept /\ both.pending = phone.pending
        /\ \A u \in Users : both.owners[u] \subseteq {u}
    <3>1. boot.cached \in Known
      BY <1>0
    <3>2. /\ both \in Phones /\ both.kept \subseteq timed.kept /\ both.pending = timed.pending
          /\ \A u \in Users : both.owners[u] \subseteq timed.owners[u]
      BY <2>2, <3>1, ClearedShrinks
    <3> QED
      BY <1>0, <2>2, <3>2 DEF SnapshotsAreOwn
  <2>4. /\ EndWaits(r, both, a)
        /\ asked' = asked \ {r} /\ UNCHANGED <<server, saving, gone>>
        /\ r.callers \cap {"timer", "boot"} # {} => boot.at # "get" /\ saving.kind = "idle"
        /\ "signOut" \in r.callers => app.active = NoUser \/ r.callers \cap {"timer", "boot"} # {}
    BY <1>4 DEF RefreshRefused, Overtakes, EndsAnothers, timed
  <2>5. /\ a \in Apps
        /\ r.callers \cap {"timer", "boot"} # {} => a.user = NoUser /\ a.active = NoUser /\ a.rows = {}
        /\ r.callers \cap {"timer", "boot"} = {} => a = app
    <3>1. LoggedOut(app) \in Apps /\ LoggedOut(app).user = NoUser /\ LoggedOut(app).rows = {}
      BY <1>0, LoggedOutIsApp
    <3> QED
      BY <1>0, <3>1 DEF Apps, Known
  <2> HIDE DEF timed, both, a
  <2>6. Leaves(r, both, a)
    BY <1>0, <2>3, <2>4, <2>5 DEF RowsOfUser
  <2> HIDE DEF Leaves
  <2> QED
    BY <1>2, <2>3, <2>4, <2>5, <2>6
<1> QED
  BY <1>1, <1>3, <1>4

LEMMA ApartSignIn ==
  ASSUME AppTypeOK, SessionShape, Apart, ~overtaken',
         (\E u \in Users : BeginSignIn(u)) \/ DeletePending \/ CreateSession \/ SignedIn \/ SignInFails
  PROVE  Apart'
<1> USE AppAssumption
<1>0. /\ signIn \in SignInSteps /\ phone \in Phones /\ server \in Servers /\ asked \subseteq Refreshes
      /\ app \in Apps /\ app.user \in Known /\ app.active \in Known /\ server.user \in Known
      /\ gone \subseteq Users /\ app.rows \in SUBSET Users
      /\ ActiveIsUser /\ ActiveStays /\ RowsOfUser /\ SignedOutStays /\ SessionOfUser /\ SnapshotsAreOwn
      /\ NothingLeft /\ GoneSession /\ StartWaits /\ SignInWaits /\ SaveWaits /\ RefreshesOwn
      /\ OneCurrent /\ DrainsSignOut /\ HandlersNamed /\ StartsAlone
  BY DEF AppTypeOK, SessionShape, SignInSteps, Apps, Servers, Apart, ScreenApart, PhoneApart, WaitsApart
<1>1. ASSUME NEW u \in Users, BeginSignIn(u) PROVE Apart'
  <2>1. boot.at # "get"
    BY <1>0, <1>1 DEF BeginSignIn, StartWaits
  <2>2. ScreenApart' /\ PhoneApart'
    BY <1>0, <1>1 DEF BeginSignIn, ScreenApart, ActiveIsUser, ActiveStays, RowsOfUser, SignedOutStays,
       SessionOfUser, PhoneApart, SnapshotsAreOwn, NothingLeft, Apps
  <2>3. WaitsApart'
    BY <1>0, <1>1, <2>1 DEF BeginSignIn, WaitsApart, GoneSession, StartWaits, SignInWaits, SaveWaits,
       RefreshesOwn, Apps
  <2> QED
    BY <2>2, <2>3 DEF Apart
<1>2. CASE DeletePending
  <2>1. ScreenApart' /\ PhoneApart'
    BY <1>0, <1>2 DEF DeletePending, ScreenApart, ActiveIsUser, ActiveStays, RowsOfUser, SignedOutStays,
       SessionOfUser, PhoneApart, SnapshotsAreOwn, NothingLeft, Servers, Phones
  <2>2. WaitsApart'
    BY <1>0, <1>2 DEF DeletePending, WaitsApart, GoneSession, StartWaits, SignInWaits, SaveWaits,
       RefreshesOwn, Servers, SignInSteps
  <2> QED
    BY <2>1, <2>2 DEF Apart
<1>3. CASE CreateSession
  <2>1. app.user = NoUser /\ boot.at # "get" /\ saving.kind = "idle"
    BY <1>0, <1>3 DEF CreateSession, SignInWaits, StartWaits, SaveWaits, HandlersNamed
  <2>2. /\ app'.user = app.user /\ app'.active = app.active /\ app'.rows = app.rows
        /\ signIn'.at \in {"get", "idle"} /\ gone' \subseteq gone
        /\ server'.user \notin gone'
        /\ UNCHANGED <<phone, boot, signOut, saving, asked>>
    BY <1>0, <1>3 DEF CreateSession, NoSignIn, SignInSteps, Apps
  <2>3. ScreenApart' /\ PhoneApart'
    BY <1>0, <2>1, <2>2 DEF ScreenApart, ActiveIsUser, ActiveStays, RowsOfUser, SignedOutStays,
       SessionOfUser, PhoneApart, SnapshotsAreOwn, NothingLeft
  <2>4. WaitsApart'
    BY <1>0, <2>1, <2>2 DEF WaitsApart, GoneSession, StartWaits, SignInWaits, SaveWaits, RefreshesOwn
  <2> QED
    BY <2>3, <2>4 DEF Apart
<1>4. CASE SignedIn
  <2>1. /\ app.user = NoUser /\ app.rows = {} /\ boot.at # "get" /\ saving.kind = "idle"
        /\ server.user \in Users /\ server.user \notin gone
    BY <1>0, <1>4 DEF SignedIn, SignInWaits, StartWaits, SaveWaits, HandlersNamed, RowsOfUser, Known
  <2>2. /\ app'.user = server.user /\ app'.active = server.user /\ app'.rows = app.rows
        /\ signIn'.at = "refresh" /\ CallRefresh(server.user, "signIn")
        /\ UNCHANGED <<server, phone, boot, signOut, saving, gone>>
    BY <1>0, <1>4 DEF SignedIn, SignInSteps, Apps
  <2>3. ScreenApart' /\ PhoneApart'
    BY <1>0, <2>1, <2>2 DEF ScreenApart, ActiveIsUser, ActiveStays, RowsOfUser, SignedOutStays,
       SessionOfUser, PhoneApart, SnapshotsAreOwn, NothingLeft
  <2>4. RefreshesOwn'
    BY <1>0, <2>1, <2>2, CallRefreshShape
  <2>5. GoneSession' /\ StartWaits' /\ SignInWaits' /\ SaveWaits'
    BY <1>0, <2>1, <2>2 DEF GoneSession, StartWaits, SignInWaits, SaveWaits
  <2> QED
    BY <2>3, <2>4, <2>5 DEF Apart, WaitsApart
<1>5. CASE SignInFails
  <2>1. /\ app'.user = app.user /\ app'.active = app.active /\ app'.rows = app.rows
        /\ signIn'.at = "idle" /\ boot.at # "get" /\ server'.user \in {server.user, NoUser}
        /\ server'.user # NoUser => server' = server
        /\ UNCHANGED <<phone, boot, signOut, saving, asked, gone>>
    BY <1>0, <1>5 DEF SignInFails, NoSignIn, StartWaits, Apps, Servers
  <2>2. ScreenApart' /\ PhoneApart'
    BY <1>0, <2>1 DEF ScreenApart, ActiveIsUser, ActiveStays, RowsOfUser, SignedOutStays,
       SessionOfUser, PhoneApart, SnapshotsAreOwn, NothingLeft
  <2>3. WaitsApart'
    BY <1>0, <2>1 DEF WaitsApart, GoneSession, StartWaits, SignInWaits, SaveWaits, RefreshesOwn
  <2> QED
    BY <2>2, <2>3 DEF Apart
<1> QED
  BY <1>1, <1>2, <1>3, <1>4, <1>5

LEMMA ApartSignOut ==
  ASSUME AppTypeOK, SessionShape, Apart, ~overtaken',
         SignOutOffline \/ BeginSignOut \/ SessionDeleted \/ SignOutAnswered
  PROVE  Apart'
<1> USE AppAssumption
<1>0. /\ signOut \in SignOutSteps /\ phone \in Phones /\ server \in Servers /\ asked \subseteq Refreshes
      /\ app \in Apps /\ app.user \in Known /\ app.active \in Known /\ server.user \in Known
      /\ gone \subseteq Users /\ app.rows \in SUBSET Users /\ signOut.user \in Known
      /\ ActiveIsUser /\ ActiveStays /\ RowsOfUser /\ SignedOutStays /\ SessionOfUser /\ SnapshotsAreOwn
      /\ NothingLeft /\ GoneSession /\ StartWaits /\ SignInWaits /\ SaveWaits /\ RefreshesOwn
      /\ OneCurrent /\ DrainsSignOut /\ HandlersNamed /\ StartsAlone
  BY DEF AppTypeOK, SessionShape, SignOutSteps, Apps, Servers, Apart, ScreenApart, PhoneApart, WaitsApart
<1>1. CASE SignOutOffline
  <2>1. /\ boot.at # "get" /\ saving.kind = "idle" /\ signOut.at = "idle" /\ signOut.user = NoUser
        /\ app.user \in Users
    BY <1>0, <1>1 DEF SignOutOffline, Overtakes, HandlersNamed, Known
  <2>2. app'.user = NoUser /\ app'.active = NoUser /\ app'.rows = {}
    BY <1>0, <1>1, LoggedOutIsApp DEF SignOutOffline, Apps
  <2> DEFINE p == [phone EXCEPT !.pending = TRUE]
  <2>3. p \in Phones /\ p.pending /\ p.kept = phone.kept /\ p.owners = phone.owners
    BY <1>0 DEF Phones
  <2> HIDE DEF p
  <2>4. phone' = Cleared(p, app.user)
    BY <1>1 DEF SignOutOffline, p
  <2>5. /\ phone'.pending /\ phone'.kept = phone.kept \ {app.user}
        /\ \A u \in Users : phone'.owners[u] \subseteq phone.owners[u]
    <3>1. app.user \in Known
      BY <1>0
    <3> QED
      BY <2>3, <2>4, <3>1, ClearedIsPhone, ClearedShrinks
  <2>6. gone' = gone \cup {app.user} /\ UNCHANGED <<server, boot, signIn, signOut, saving, asked>>
    BY <1>1 DEF SignOutOffline
  <2>7. ScreenApart' /\ PhoneApart'
    BY <1>0, <2>1, <2>2, <2>5, <2>6 DEF ScreenApart, ActiveIsUser, ActiveStays, RowsOfUser, SignedOutStays,
       SessionOfUser, PhoneApart, SnapshotsAreOwn, NothingLeft
  <2>8. SignInWaits'
    BY <1>0, <2>1, <2>2, <2>6 DEF SignInWaits
  <2>9. GoneSession' /\ StartWaits' /\ SaveWaits' /\ RefreshesOwn'
    BY <1>0, <2>1, <2>2, <2>5, <2>6 DEF GoneSession, StartWaits, SaveWaits, RefreshesOwn
  <2> QED
    BY <2>7, <2>8, <2>9 DEF Apart, WaitsApart
<1>2. CASE BeginSignOut
  <2>1. /\ boot.at # "get" /\ saving.kind = "idle" /\ signOut.at = "idle" /\ signOut.user = NoUser
        /\ app.user \in Users
    BY <1>0, <1>2 DEF BeginSignOut, Overtakes, HandlersNamed, Known
  <2>2. /\ app'.user = app.user /\ app'.active = NoUser /\ app'.rows = app.rows
        /\ signOut' = [at |-> "delete", user |-> app.user, login |-> server.login]
        /\ gone' = gone \cup {app.user} /\ UNCHANGED <<server, phone, boot, signIn, saving, asked>>
    BY <1>0, <1>2 DEF BeginSignOut, Apps
  <2>3. ScreenApart' /\ PhoneApart'
    BY <1>0, <2>1, <2>2 DEF ScreenApart, ActiveIsUser, ActiveStays, RowsOfUser, SignedOutStays,
       SessionOfUser, PhoneApart, SnapshotsAreOwn, NothingLeft
  <2>4. GoneSession'
    BY <1>0, <2>1, <2>2 DEF GoneSession
  <2>5. SignInWaits' /\ StartWaits' /\ SaveWaits' /\ RefreshesOwn'
    BY <1>0, <2>1, <2>2 DEF SignInWaits, StartWaits, SaveWaits, RefreshesOwn
  <2> QED
    BY <2>3, <2>4, <2>5 DEF Apart, WaitsApart
<1>3. CASE SessionDeleted
  <2>1. /\ server'.user = NoUser /\ signOut'.at = "answer" /\ signOut'.user = signOut.user
        /\ signOut.at = "delete" /\ UNCHANGED <<phone, app, boot, signIn, saving, asked, gone>>
    BY <1>0, <1>3 DEF SessionDeleted, Servers, SignOutSteps
  <2>2. ScreenApart' /\ PhoneApart'
    BY <1>0, <2>1 DEF ScreenApart, ActiveIsUser, ActiveStays, RowsOfUser, SignedOutStays,
       SessionOfUser, PhoneApart, SnapshotsAreOwn, NothingLeft
  <2>3. WaitsApart'
    BY <1>0, <2>1 DEF WaitsApart, GoneSession, StartWaits, SignInWaits, SaveWaits, RefreshesOwn
  <2> QED
    BY <2>2, <2>3 DEF Apart
<1>4. CASE SignOutAnswered
  <2>1. PICK p \in Phones : /\ ClearAfter(p) /\ p.kept = phone.kept /\ p.owners = phone.owners
                            /\ p.pending \/ server.user \notin gone
    <3>1. \A pending \in BOOLEAN :
            LET p == [phone EXCEPT !.pending = pending]
            IN p \in Phones /\ p.kept = phone.kept /\ p.owners = phone.owners /\ p.pending = pending
      BY <1>0 DEF Phones
    <3>2. CASE signOut.at = "answer" /\ ClearAfter([phone EXCEPT !.pending = FALSE])
      BY <1>0, <3>1, <3>2 DEF GoneSession
    <3>3. CASE signOut.at = "delete" /\ Refused(signOut) /\ ClearAfter(phone)
      BY <1>0, <3>3 DEF GoneSession, Refused
    <3>4. CASE ClearAfter([phone EXCEPT !.pending = TRUE])
      BY <1>0, <3>1, <3>4
    <3> QED
      BY <1>4, <3>2, <3>3, <3>4 DEF SignOutAnswered
  <2>2. /\ signOut.at \in {"delete", "answer"} /\ boot.at # "get" /\ saving.kind = "idle"
        /\ UNCHANGED <<server, boot, signIn, saving, gone>>
    BY <1>0, <1>4 DEF SignOutAnswered, StartWaits, SaveWaits
  <2>3. CASE \E r \in asked : r.current
    <3> DEFINE waited(r) == IF r.current THEN [r EXCEPT !.callers = @ \cup {"signOut"}] ELSE r
    <3>1. /\ asked' = {waited(r) : r \in asked} /\ signOut'.at = "drain" /\ signOut'.user = signOut.user
          /\ phone' = p /\ app' = app
      BY <1>0, <2>1, <2>3 DEF ClearAfter, SignOutSteps
    <3>2. \A r \in asked : waited(r).owner = r.owner /\ waited(r).for = r.for
      BY <1>0 DEF Refreshes
    <3> HIDE DEF waited
    <3>3. RefreshesOwn'
      BY <1>0, <3>1, <3>2 DEF RefreshesOwn
    <3>4. ScreenApart' /\ PhoneApart'
      BY <1>0, <2>1, <2>2, <3>1 DEF ScreenApart, ActiveIsUser, ActiveStays, RowsOfUser, SignedOutStays,
         SessionOfUser, PhoneApart, SnapshotsAreOwn, NothingLeft
    <3>5. GoneSession' /\ StartWaits' /\ SignInWaits' /\ SaveWaits'
      BY <1>0, <2>1, <2>2, <3>1 DEF GoneSession, StartWaits, SignInWaits, SaveWaits
    <3> QED
      BY <3>3, <3>4, <3>5 DEF Apart, WaitsApart
  <2>4. CASE ~ \E r \in asked : r.current
    <3>1. /\ phone' = Cleared(p, signOut.user) /\ app' = LoggedOut(app) /\ signOut' = NoSignOut
          /\ UNCHANGED asked /\ app.active = NoUser
      BY <2>1, <2>4 DEF ClearAfter, EndsAnothers
    <3>2. app'.user = NoUser /\ app'.rows = {} /\ app'.active = NoUser
      BY <1>0, <3>1, LoggedOutIsApp
    <3>3. /\ phone'.kept = phone.kept \ {signOut.user} /\ phone'.pending = p.pending
          /\ \A u \in Users : phone'.owners[u] \subseteq phone.owners[u]
      <4>1. signOut.user \in Known
        BY <1>0
      <4> QED
        BY <2>1, <3>1, <4>1, ClearedIsPhone, ClearedShrinks
    <3>4. ScreenApart' /\ PhoneApart'
      BY <1>0, <2>2, <3>1, <3>2, <3>3 DEF ScreenApart, ActiveIsUser, ActiveStays, RowsOfUser, SignedOutStays,
         SessionOfUser, PhoneApart, SnapshotsAreOwn, NothingLeft
    <3>5. WaitsApart'
      BY <1>0, <2>1, <2>2, <3>1, <3>2, <3>3 DEF WaitsApart, GoneSession, StartWaits, SignInWaits, SaveWaits,
         RefreshesOwn, NoSignOut
    <3> QED
      BY <3>4, <3>5 DEF Apart
  <2> QED
    BY <2>3, <2>4
<1> QED
  BY <1>1, <1>2, <1>3, <1>4

LEMMA ApartSaves ==
  ASSUME AppTypeOK, SessionShape, Apart, ~overtaken',
         (\E kind \in Saves : BeginSave(kind)) \/ SaveAnswered \/ SaveFails
  PROVE  Apart'
<1> USE AppAssumption
<1>0. /\ saving \in SaveSteps /\ phone \in Phones /\ server \in Servers /\ asked \subseteq Refreshes
      /\ app \in Apps /\ app.user \in Known /\ app.active \in Known /\ server.user \in Known
      /\ gone \subseteq Users /\ app.rows \in SUBSET Users
      /\ ActiveIsUser /\ ActiveStays /\ RowsOfUser /\ SignedOutStays /\ SessionOfUser /\ SnapshotsAreOwn
      /\ NothingLeft /\ GoneSession /\ StartWaits /\ SignInWaits /\ SaveWaits /\ RefreshesOwn
      /\ OneCurrent /\ DrainsSignOut /\ HandlersNamed /\ StartsAlone
  BY DEF AppTypeOK, SessionShape, SaveSteps, Apps, Servers, Apart, ScreenApart, PhoneApart, WaitsApart
<1>1. ASSUME NEW kind \in Saves, BeginSave(kind) PROVE Apart'
  <2>1. /\ app'.user = app.user /\ app'.active = app.active /\ app'.rows = app.rows /\ app.user # NoUser
        /\ saving'.user = app.user /\ saving'.owner = server.user /\ signOut.at = "idle"
        /\ UNCHANGED <<server, phone, boot, signIn, signOut, asked, gone>>
    BY <1>0, <1>1 DEF BeginSave, Apps
  <2>2. ScreenApart' /\ PhoneApart'
    BY <1>0, <2>1 DEF ScreenApart, ActiveIsUser, ActiveStays, RowsOfUser, SignedOutStays,
       SessionOfUser, PhoneApart, SnapshotsAreOwn, NothingLeft
  <2>3. WaitsApart'
    BY <1>0, <2>1 DEF WaitsApart, GoneSession, StartWaits, SignInWaits, SaveWaits, RefreshesOwn, SessionOfUser
  <2> QED
    BY <2>2, <2>3 DEF Apart
<1>2. CASE SaveAnswered
  <2> DEFINE rows == IF saving.kind = "farm" THEN app.rows \cup {saving.owner} ELSE app.rows
             user == IF saving.kind \in {"select", "profile"} THEN saving.owner ELSE app.user
  <2>1. /\ saving.kind # "idle" /\ saving.owner # NoUser
        /\ app' = [app EXCEPT !.rows = rows, !.user = user, !.busy = saving.kind = "farm"]
        /\ phone' \in {phone, Cached(phone, saving.owner, rows), Cached(phone, saving.user, rows)}
        /\ UNCHANGED <<server, boot, signIn, signOut, asked, gone>>
    BY <1>2 DEF SaveAnswered
  <2>2. /\ saving.owner = app.user /\ saving.user = app.user /\ app.user \in Users
        /\ signOut.at = "idle" /\ app.user \notin gone
    BY <1>0, <2>1 DEF SaveWaits, HandlersNamed, SignedOutStays
  <2>3. user = app.user /\ rows \subseteq {app.user} /\ rows \in SUBSET Users
    BY <1>0, <2>2 DEF RowsOfUser
  <2> HIDE DEF rows, user
  <2>4. app'.user = app.user /\ app'.active = app.active /\ app'.rows = rows
    BY <1>0, <2>1, <2>3 DEF Apps
  <2>5. /\ phone'.kept \subseteq phone.kept \cup {app.user} /\ phone'.pending = phone.pending
        /\ \A u \in Users : phone'.owners[u] \subseteq {u}
    <3>1. phone \in Phones
      BY <1>0
    <3>2. CASE phone' = phone
      BY <1>0, <3>2 DEF SnapshotsAreOwn
    <3>3. CASE phone' = Cached(phone, app.user, rows)
      BY <1>0, <2>2, <2>3, <3>1, <3>3, CachedIsPhone DEF SnapshotsAreOwn
    <3> QED
      BY <2>1, <2>2, <3>2, <3>3
  <2>6. saving'.kind # "idle" => saving'.user = app.user /\ saving'.owner = server.user
    BY <1>0, <1>2, <2>2 DEF SaveAnswered, NoSave, SaveSteps
  <2>7. ScreenApart'
    BY <1>0, <2>1, <2>3, <2>4 DEF ScreenApart, ActiveIsUser, ActiveStays, RowsOfUser, SignedOutStays, SessionOfUser
  <2>8. PhoneApart'
    BY <1>0, <2>1, <2>2, <2>5 DEF PhoneApart, SnapshotsAreOwn, NothingLeft
  <2>9. GoneSession' /\ StartWaits' /\ SignInWaits' /\ RefreshesOwn'
    BY <1>0, <2>1, <2>2, <2>4, <2>5 DEF GoneSession, StartWaits, SignInWaits, RefreshesOwn
  <2>10. SaveWaits'
    BY <1>0, <2>1, <2>2, <2>4, <2>6 DEF SaveWaits, SessionOfUser
  <2> QED
    BY <2>7, <2>8, <2>9, <2>10 DEF Apart, WaitsApart
<1>3. CASE SaveFails
  <2>1. /\ app'.user = app.user /\ app'.active = app.active /\ app'.rows = app.rows
        /\ saving.kind # "idle" /\ saving'.kind = "idle"
        /\ UNCHANGED <<server, phone, boot, signIn, signOut, asked, gone>>
    BY <1>0, <1>3 DEF SaveFails, NoSave, Apps
  <2>2. ScreenApart' /\ PhoneApart'
    BY <1>0, <2>1 DEF ScreenApart, ActiveIsUser, ActiveStays, RowsOfUser, SignedOutStays,
       SessionOfUser, PhoneApart, SnapshotsAreOwn, NothingLeft
  <2>3. WaitsApart'
    BY <1>0, <2>1 DEF WaitsApart, GoneSession, StartWaits, SignInWaits, SaveWaits, RefreshesOwn
  <2> QED
    BY <2>2, <2>3 DEF Apart
<1> QED
  BY <1>1, <1>2, <1>3

LEMMA ApartEnvironment ==
  ASSUME AppTypeOK, SessionShape, Apart, SessionEnds \/ AppRestarts
  PROVE  Apart'
<1> USE AppAssumption
<1>0. /\ server \in Servers /\ app \in Apps /\ app.user \in Known /\ server.user \in Known /\ gone \subseteq Users
      /\ ActiveIsUser /\ ActiveStays /\ RowsOfUser /\ SignedOutStays /\ SessionOfUser /\ SnapshotsAreOwn
      /\ NothingLeft /\ GoneSession /\ StartWaits /\ SignInWaits /\ SaveWaits /\ RefreshesOwn /\ HandlersNamed
  BY DEF AppTypeOK, SessionShape, Apps, Servers, Apart, ScreenApart, PhoneApart, WaitsApart
<1>1. CASE SessionEnds
  <2>1. /\ server'.user = NoUser
        /\ UNCHANGED <<phone, app, boot, signIn, signOut, saving, asked, gone>>
    BY <1>0, <1>1 DEF SessionEnds, Servers
  <2>2. ScreenApart' /\ PhoneApart'
    BY <1>0, <2>1 DEF ScreenApart, ActiveIsUser, ActiveStays, RowsOfUser, SignedOutStays,
       SessionOfUser, PhoneApart, SnapshotsAreOwn, NothingLeft
  <2>3. WaitsApart'
    BY <1>0, <2>1 DEF WaitsApart, GoneSession, StartWaits, SignInWaits, SaveWaits, RefreshesOwn
  <2> QED
    BY <2>2, <2>3 DEF Apart
<1>2. CASE AppRestarts
  <2>1. /\ app' = Launched /\ boot'.at = "flag" /\ signIn'.at = "idle" /\ signOut' = NoSignOut
        /\ saving'.kind = "idle" /\ asked' = {} /\ gone' = gone \ {signOut.user} /\ phone' = phone
        /\ server'.user \in {server.user, NoUser}
    BY <1>0, <1>2 DEF AppRestarts, Servers, Starting, NoSignIn, NoSave
  <2>2. ScreenApart' /\ PhoneApart'
    BY <1>0, <2>1 DEF ScreenApart, ActiveIsUser, ActiveStays, RowsOfUser, SignedOutStays,
       SessionOfUser, PhoneApart, SnapshotsAreOwn, NothingLeft, Launched
  <2>3. WaitsApart'
    BY <1>0, <2>1 DEF WaitsApart, GoneSession, StartWaits, SignInWaits, SaveWaits, RefreshesOwn, NoSignOut
  <2> QED
    BY <2>2, <2>3 DEF Apart
<1> QED
  BY <1>1, <1>2

LEMMA OvertakenStays ==
  ASSUME AppTypeOK, [AppNext]_appVars, overtaken
  PROVE  overtaken'
  BY DEF AppNext, appVars, StartSignedOut, StartFromCache, StartIdentified, StartRefused, StartOffline,
     TimerRefresh, RefreshAnswered, RefreshRefused, BeginSignIn, DeletePending, CreateSession, SignedIn,
     SignInFails, SignOutOffline, BeginSignOut, SessionDeleted, SignOutAnswered, ClearAfter, BeginSave,
     SaveAnswered, SaveFails, SessionEnds, AppRestarts, Overtakes, EndsAnothers

LEMMA ApartStep ==
  ASSUME AppTypeOK, SessionShape, Apart, [AppNext]_appVars, ~overtaken'
  PROVE  Apart'
<1>1. CASE UNCHANGED appVars
  BY <1>1 DEF appVars, Apart, ScreenApart, PhoneApart, WaitsApart, ActiveIsUser, ActiveStays,
     RowsOfUser, SignedOutStays, SessionOfUser, SnapshotsAreOwn, NothingLeft, GoneSession, StartWaits,
     SignInWaits, SaveWaits, RefreshesOwn
<1> QED
  BY <1>1, ApartStart, ApartRefresh, ApartSignIn, ApartSignOut, ApartSaves, ApartEnvironment DEF AppNext

LEMMA AppInvariantHolds == AppSpec => []AppInvariant
<1>1. AppInit => AppInvariant
  BY AppTypeInit, ShapeInit, ApartInit DEF AppInvariant
<1>2. AppInvariant /\ [AppNext]_appVars => AppInvariant'
  <2> SUFFICES ASSUME AppInvariant, [AppNext]_appVars PROVE AppInvariant'
    OBVIOUS
  <2>1. AppTypeOK /\ SessionShape /\ (overtaken \/ Apart)
    BY DEF AppInvariant
  <2>2. AppTypeOK'
    BY <2>1, AppTypeStep DEF SessionShape, HandlersNamed
  <2>3. SessionShape'
    BY <2>1, ShapeStep
  <2>4. overtaken' \/ Apart'
    BY <2>1, OvertakenStays, ApartStep
  <2> QED
    BY <2>2, <2>3, <2>4 DEF AppInvariant
<1> QED
  BY <1>1, <1>2, PTL DEF AppSpec

\* Every variable of the session keeps its type, for any users and any number of
\* sign-ins, refreshes, saves and faults.
THEOREM AppTypesHold == AppSpec => []AppTypeOK
<1>1. AppInvariant => AppTypeOK
  BY DEF AppInvariant
<1> QED
  BY <1>1, AppInvariantHolds, PTL

\* What one user signed out of is never shown to, or kept for, the next one,
\* through starts, refreshes, sign-outs, crashes and expired sessions in any
\* order, unless a sign-out overtook a start, a sign-in or a save.
THEOREM UsersStayApart == AppSpec => []UsersApart
<1>1. AppInvariant => UsersApart
  BY DEF AppInvariant, UsersApart, Apart, ScreenApart, PhoneApart, RowsOfUser, RowsAreUsers
<1> QED
  BY <1>1, AppInvariantHolds, PTL

\* ------------------------------------------------------------------- Portal

\* A visit of the page belongs to nobody, and then nothing of an operator is
\* there or on its way, or to the operator whose session the browser has, and
\* then all that was listed, or will be, is his: unless an operator signed out
\* with a refresh under way.
VisitOfNobody ==
  /\ page.user = NoOperator
  /\ loads = {} /\ removal.at \notin {"sent", "served"} /\ page.owner = NoOperator
VisitOfUser ==
  /\ page.user # NoOperator
  /\ account \in {NoOperator, page.user} /\ page.owner \in {NoOperator, page.user}
  /\ \A l \in loads : l.owner \in {NoOperator, page.user}
OneVisitor ==
  /\ page.user # NoOperator => signing.at \in {"idle", "load"}
  /\ leaving => page.user # NoOperator
  /\ late \/ VisitOfNobody \/ VisitOfUser

PortalInvariant ==
  PortalTypeOK /\ HistoryIsSelecteds /\ SelectedIsOfFarm /\ DialogIsFor /\ OneVisitor

\* The effects settle the farm and the selected device and nothing else.
LEMMA AfterEffectsSettle ==
  ASSUME NEW p \in Pages, NEW q \in AfterEffects(p)
  PROVE  /\ q \in Pages
         /\ q.user = p.user /\ q.owner = p.owner /\ q.confirm = p.confirm
         /\ q.loading = p.loading /\ q.shown = p.shown /\ q.range = p.range
         /\ q.selected = NoDevice \/ q.selected \in FarmDevices(q)
<1>1. PICK f \in FarmsFor(p) : q \in {[[p EXCEPT !.farm = f] EXCEPT !.selected = d] :
                                        d \in Selections([p EXCEPT !.farm = f])}
  BY DEF AfterEffects
<1> DEFINE moved == [p EXCEPT !.farm = f]
<1>2. f \in Farms \cup {NoFarm}
  BY DEF FarmsFor, Pages
<1>3. /\ moved \in Pages /\ moved.farm = f /\ moved.user = p.user /\ moved.owner = p.owner
      /\ moved.confirm = p.confirm /\ moved.loading = p.loading /\ moved.shown = p.shown
      /\ moved.range = p.range /\ moved.devices = p.devices
  BY <1>2 DEF Pages
<1>4. PICK d \in Selections(moved) : q = [moved EXCEPT !.selected = d]
  BY <1>1
<1> HIDE DEF moved
<1>5. d \in Selectable /\ (d = NoDevice \/ d \in FarmDevices(moved))
  BY <1>3, <1>4 DEF Selections, FarmDevices, Pages, Selectable
<1>6. /\ q \in Pages /\ q.selected = d /\ q.devices = moved.devices /\ q.farm = moved.farm
      /\ q.user = moved.user /\ q.owner = moved.owner /\ q.confirm = moved.confirm
      /\ q.loading = moved.loading /\ q.shown = moved.shown /\ q.range = moved.range
  BY <1>3, <1>4, <1>5 DEF Pages
<1> QED
  BY <1>3, <1>5, <1>6 DEF FarmDevices

\* What is rendered keeps the history in step with the device and the range.
LEMMA RenderShows ==
  ASSUME PortalTypeOK, HistoryIsSelecteds, NEW p \in Pages, p.loading = page.loading,
         p.shown = page.shown, Render(p)
  PROVE  /\ page' \in Pages /\ histories' \subseteq HistoryRequests /\ HistoryIsSelecteds'
         /\ page'.user = p.user /\ page'.owner = p.owner /\ page'.devices = p.devices
         /\ page'.farm = p.farm /\ page'.selected = p.selected /\ page'.confirm = p.confirm
<1>1. page \in Pages /\ histories \subseteq HistoryRequests
  BY DEF PortalTypeOK
<1>2. CASE p.selected = page.selected /\ p.range = page.range
  <2>1. page' = p /\ histories' = histories
    BY <1>2 DEF Render
  <2> QED
    BY <1>1, <1>2, <2>1 DEF HistoryIsSelecteds, Current, Counting
<1>3. CASE ~(p.selected = page.selected /\ p.range = page.range)
  <2> DEFINE asking == [device |-> p.selected, range |-> p.range, active |-> TRUE]
             busy == p.loading \/ p.selected # NoDevice
  <2>1. /\ page' = [p EXCEPT !.shown = {}, !.loading = busy]
        /\ histories' = Abandoned \cup IF p.selected = NoDevice THEN {} ELSE {asking}
    BY <1>3 DEF Render, Pages
  <2>2. /\ page' \in Pages /\ page'.shown = {} /\ page'.loading = busy /\ page'.range = p.range
        /\ page'.user = p.user /\ page'.owner = p.owner /\ page'.devices = p.devices
        /\ page'.farm = p.farm /\ page'.selected = p.selected /\ page'.confirm = p.confirm
    BY <2>1 DEF Pages
  <2>3. p.selected # NoDevice => asking \in HistoryRequests /\ asking.active
    BY DEF Pages, Selectable, HistoryRequests
  <2>4. \A h \in Abandoned : h \in HistoryRequests /\ ~h.active
    BY <1>1 DEF Abandoned, HistoryRequests
  <2>5. asking.device = p.selected /\ asking.range = p.range
    OBVIOUS
  <2> HIDE DEF asking
  <2>6. Counting' = IF p.selected = NoDevice THEN {} ELSE {asking}
    BY <2>1, <2>3, <2>4 DEF Counting
  <2>7. HistoryIsSelecteds'
    BY <2>2, <2>5, <2>6 DEF HistoryIsSelecteds, Current
  <2> QED
    BY <2>1, <2>2, <2>3, <2>4, <2>7
<1> QED
  BY <1>2, <1>3

LEMMA PortalInitHolds == PortalInit => PortalInvariant
<1> SUFFICES ASSUME PortalInit PROVE PortalInvariant
  OBVIOUS
<1> USE PortalAssumption
<1>1. /\ Opened \in Pages /\ NoRemoval \in RemovalSteps
      /\ [NoSigning EXCEPT !.at = "start"] \in SigningSteps
  BY DEF Opened, Pages, NoRemoval, RemovalSteps, NoSigning, SigningSteps, Sessions, Selectable, NoFarm
<1>2. PortalTypeOK
  <2>1. portalEvents \in 0..MaxPortalEvents
    BY DEF PortalInit
  <2> QED
    BY <1>1, <2>1 DEF PortalInit, PortalTypeOK, Sessions, Selectable
<1>3. HistoryIsSelecteds /\ SelectedIsOfFarm /\ DialogIsFor
  BY DEF PortalInit, HistoryIsSelecteds, SelectedIsOfFarm, DialogIsFor, Opened, Counting
<1>4. OneVisitor
  BY DEF PortalInit, OneVisitor, VisitOfNobody, Opened, NoRemoval
<1> QED
  BY <1>2, <1>3, <1>4 DEF PortalInvariant

\* The page renders what an answer or a click makes of it; the visit, and what
\* else the step does, decide the rest.
LEMMA RenderKeeps ==
  ASSUME PortalInvariant, NEW p \in Pages, p.loading = page.loading, p.shown = page.shown,
         Render(p), p.selected = NoDevice \/ p.selected \in FarmDevices(p),
         DialogDrifts \/ (DialogStays /\ (p.confirm = FALSE \/ p.selected = page.selected))
  PROVE  /\ page' \in Pages /\ histories' \subseteq HistoryRequests /\ askedFor' \in Selectable
         /\ HistoryIsSelecteds' /\ SelectedIsOfFarm' /\ DialogIsFor'
         /\ page'.user = p.user /\ page'.owner = p.owner
<1>1. PortalTypeOK /\ HistoryIsSelecteds /\ DialogIsFor
  BY DEF PortalInvariant
<1>2. /\ page' \in Pages /\ histories' \subseteq HistoryRequests /\ HistoryIsSelecteds'
      /\ page'.user = p.user /\ page'.owner = p.owner /\ page'.devices = p.devices
      /\ page'.farm = p.farm /\ page'.selected = p.selected /\ page'.confirm = p.confirm
  BY <1>1, RenderShows
<1>3. SelectedIsOfFarm'
  BY <1>2 DEF SelectedIsOfFarm, FarmDevices
<1>4. askedFor' \in Selectable
  BY <1>1 DEF PortalTypeOK, Selectable, DialogStays, DialogDrifts
<1>5. DialogIsFor'
  BY <1>1, <1>2 DEF DialogIsFor, DialogStays, DialogDrifts
<1> QED
  BY <1>2, <1>3, <1>4, <1>5

LEMMA PortalStep == PortalInvariant /\ [PortalNext]_portalVars => PortalInvariant'
<1> SUFFICES ASSUME PortalInvariant, [PortalNext]_portalVars PROVE PortalInvariant'
  OBVIOUS
<1> USE PortalAssumption
<1>0. /\ page \in Pages /\ signing \in SigningSteps /\ loads \subseteq Loadings
      /\ removal \in RemovalSteps /\ histories \subseteq HistoryRequests
      /\ account \in Sessions /\ listed \subseteq Devices /\ late \in BOOLEAN /\ leaving \in BOOLEAN
      /\ askedFor \in Selectable /\ portalEvents \in 0..MaxPortalEvents
      /\ PortalTypeOK /\ HistoryIsSelecteds /\ SelectedIsOfFarm /\ DialogIsFor /\ OneVisitor
      /\ page.user \in Sessions /\ page.selected \in Selectable /\ signing.user \in Sessions
  BY DEF PortalInvariant, PortalTypeOK, Pages, SigningSteps
<1>1. /\ Opened \in Pages /\ NoRemoval \in RemovalSteps /\ NoSigning \in SigningSteps
      /\ \A step \in {"idle", "start", "session", "get", "load"} :
           [NoSigning EXCEPT !.at = step] \in SigningSteps
      /\ [NoRemoval EXCEPT !.at = "load"] \in RemovalSteps
      /\ NoOperator \in Sessions /\ NoDevice \in Selectable
  BY DEF Opened, Pages, NoRemoval, RemovalSteps, NoSigning, SigningSteps, Sessions, Selectable, NoFarm
<1>2. PortalEvent \/ NoPortalFault \/ PortalFault => portalEvents' \in 0..MaxPortalEvents
  BY <1>0 DEF PortalEvent, NoPortalFault, PortalFault
<1>3. \A caller \in {"timer", "sign", "removal"} :
        Load(caller) \in Loadings /\ Load(caller).owner = NoOperator
  BY DEF Load, Loadings, Sessions
\* Steps that leave the page and its histories alone.
<1>4. ASSUME UNCHANGED <<page, histories, askedFor>>
      PROVE  /\ page' \in Pages /\ histories' \subseteq HistoryRequests /\ askedFor' \in Selectable
             /\ HistoryIsSelecteds' /\ SelectedIsOfFarm' /\ DialogIsFor'
  BY <1>0, <1>4 DEF HistoryIsSelecteds, Current, Counting, SelectedIsOfFarm, FarmDevices, DialogIsFor
<1>5. CASE Tick
  <2>1. OneVisitor'
    BY <1>0, <1>3, <1>5 DEF Tick, OneVisitor, VisitOfNobody, VisitOfUser
  <2> QED
    BY <1>0, <1>2, <1>3, <1>4, <1>5, <2>1 DEF Tick, PortalInvariant, PortalTypeOK
<1>6. ASSUME NEW l \in loads, LoadServed(l) PROVE PortalInvariant'
  <2> DEFINE answer == [l EXCEPT !.served = TRUE, !.owner = account, !.devices = listed]
  <2>1. answer \in Loadings /\ answer.owner = account
    BY <1>0 DEF Loadings
  <2> HIDE DEF answer
  <2>2. loads' = (loads \ {l}) \cup {answer}
    BY <1>6 DEF LoadServed, answer
  <2>3. OneVisitor'
    BY <1>0, <1>6, <2>1, <2>2 DEF LoadServed, OneVisitor, VisitOfNobody, VisitOfUser
  <2> QED
    BY <1>0, <1>4, <1>6, <2>1, <2>2, <2>3 DEF LoadServed, PortalInvariant, PortalTypeOK
<1>7. ASSUME NEW l \in loads, LoadAnswered(l) PROVE PortalInvariant'
  <2> DEFINE taken == [page EXCEPT !.devices = l.devices, !.owner = l.owner]
  <2>1. /\ taken \in Pages /\ taken.owner = l.owner /\ taken.user = page.user
        /\ taken.loading = page.loading /\ taken.shown = page.shown
    BY <1>0 DEF Pages, Loadings
  <2> HIDE DEF taken
  <2>2. PICK p \in AfterEffects(taken) : Render(p)
    BY <1>7 DEF LoadAnswered, taken
  <2>3. /\ p \in Pages /\ p.user = page.user /\ p.owner = l.owner /\ p.loading = page.loading
        /\ p.shown = page.shown /\ (p.selected = NoDevice \/ p.selected \in FarmDevices(p))
    BY <2>1, AfterEffectsSettle
  <2>4. DialogDrifts /\ LoadEnds(l) /\ UNCHANGED <<account, listed, leaving, late, portalEvents>>
    BY <1>7 DEF LoadAnswered
  <2>5. /\ page' \in Pages /\ histories' \subseteq HistoryRequests /\ askedFor' \in Selectable
        /\ HistoryIsSelecteds' /\ SelectedIsOfFarm' /\ DialogIsFor'
        /\ page'.user = page.user /\ page'.owner = l.owner
    BY <2>2, <2>3, <2>4, RenderKeeps
  <2>6. /\ loads' \subseteq loads /\ signing' \in {signing, NoSigning}
        /\ removal' \in {removal, NoRemoval}
    BY <2>4 DEF LoadEnds
  <2>7. OneVisitor'
    BY <1>0, <2>4, <2>5, <2>6 DEF OneVisitor, VisitOfNobody, VisitOfUser, NoSigning, NoRemoval
  <2> QED
    BY <1>0, <1>1, <2>4, <2>5, <2>6, <2>7 DEF PortalInvariant, PortalTypeOK
<1>8. ASSUME NEW l \in loads, LoadFails(l) PROVE PortalInvariant'
  <2>1. /\ loads' \subseteq loads /\ signing' \in {signing, NoSigning}
        /\ removal' \in {removal, NoRemoval} /\ portalEvents' \in 0..MaxPortalEvents
        /\ UNCHANGED <<account, listed, page, leaving, histories, askedFor, late>>
    BY <1>2, <1>8 DEF LoadFails, LoadEnds
  <2>2. OneVisitor'
    BY <1>0, <2>1 DEF OneVisitor, VisitOfNobody, VisitOfUser, NoSigning, NoRemoval
  <2> QED
    BY <1>0, <1>1, <1>4, <2>1, <2>2 DEF PortalInvariant, PortalTypeOK
<1>9. ASSUME NEW u \in Operators, SignIn(u) PROVE PortalInvariant'
  <2>1. [at |-> "session", user |-> u] \in SigningSteps
    BY DEF SigningSteps, Sessions
  <2>2. OneVisitor'
    BY <1>0, <1>9 DEF SignIn, OneVisitor, VisitOfNobody, VisitOfUser
  <2> QED
    BY <1>0, <1>4, <1>9, <2>1, <2>2 DEF SignIn, PortalInvariant, PortalTypeOK
<1>10. CASE SessionMade
  <2>1. OneVisitor'
    BY <1>0, <1>10 DEF SessionMade, OneVisitor, VisitOfNobody, VisitOfUser
  <2> QED
    BY <1>0, <1>1, <1>2, <1>4, <1>10, <2>1 DEF SessionMade, PortalInvariant, PortalTypeOK
\* The visit begins: nothing was listed, and nothing is on its way.
<1>11. CASE Identified
  <2> DEFINE named == [page EXCEPT !.user = account]
  <2>1. /\ named \in Pages /\ named.owner = page.owner /\ named.user = account
        /\ named.loading = page.loading /\ named.shown = page.shown
    BY <1>0 DEF Pages
  <2> HIDE DEF named
  <2>2. PICK p \in AfterEffects(named) : Render(p)
    BY <1>11 DEF Identified, named
  <2>3. /\ p \in Pages /\ p.user = account /\ p.owner = page.owner /\ p.loading = page.loading
        /\ p.shown = page.shown /\ (p.selected = NoDevice \/ p.selected \in FarmDevices(p))
    BY <2>1, AfterEffectsSettle
  <2>4. /\ DialogDrifts /\ account # NoOperator /\ signing.at \in {"start", "get"}
        /\ signing' = [NoSigning EXCEPT !.at = "load"] /\ loads' = loads \cup {Load("sign")}
        /\ UNCHANGED <<account, listed, leaving, removal, late, portalEvents>>
    BY <1>11 DEF Identified
  <2>5. /\ page' \in Pages /\ histories' \subseteq HistoryRequests /\ askedFor' \in Selectable
        /\ HistoryIsSelecteds' /\ SelectedIsOfFarm' /\ DialogIsFor'
        /\ page'.user = account /\ page'.owner = page.owner
    BY <2>2, <2>3, <2>4, RenderKeeps
  <2>6. signing'.at = "load"
    BY <2>4 DEF NoSigning
  <2>7. OneVisitor'
    BY <1>0, <1>3, <2>4, <2>5, <2>6 DEF OneVisitor, VisitOfNobody, VisitOfUser
  <2> QED
    BY <1>0, <1>1, <1>3, <2>4, <2>5, <2>7 DEF PortalInvariant, PortalTypeOK
<1>12. CASE NotIdentified
  <2>1. /\ signing.at \in {"start", "session", "get"} /\ signing' = NoSigning
        /\ portalEvents' \in 0..MaxPortalEvents /\ account' \in {account, signing.user}
        /\ UNCHANGED <<listed, page, leaving, loads, histories, removal, askedFor, late>>
    BY <1>2, <1>12 DEF NotIdentified
  <2>2. OneVisitor'
    BY <1>0, <2>1 DEF OneVisitor, VisitOfNobody, VisitOfUser, NoSigning
  <2> QED
    BY <1>0, <1>1, <1>4, <2>1, <2>2 DEF PortalInvariant, PortalTypeOK
<1>13. CASE SignOut
  <2>1. OneVisitor'
    BY <1>0, <1>13 DEF SignOut, OneVisitor, VisitOfNobody, VisitOfUser
  <2> QED
    BY <1>0, <1>4, <1>13, <2>1 DEF SignOut, PortalInvariant, PortalTypeOK
\* The visit ends, with nothing on its way or late.
<1>14. CASE SignedOut
  <2> DEFINE p == [Opened EXCEPT !.range = page.range, !.loading = page.loading,
                                 !.shown = page.shown]
  <2>1. /\ p \in Pages /\ p.loading = page.loading /\ p.shown = page.shown
        /\ p.selected = NoDevice /\ p.confirm = FALSE /\ p.user = NoOperator /\ p.owner = NoOperator
    <3>1. /\ Opened.selected = NoDevice /\ Opened.confirm = FALSE
          /\ Opened.user = NoOperator /\ Opened.owner = NoOperator
      BY DEF Opened
    <3>2. Opened \in Pages
      BY <1>1
    <3> QED
      BY <1>0, <3>1, <3>2 DEF Pages
  <2> HIDE DEF p
  <2>2. /\ Render(p) /\ DialogStays /\ leaving' = FALSE /\ account' = NoOperator
        /\ late' = (late \/ loads # {} \/ removal.at # "idle")
        /\ UNCHANGED <<listed, signing, loads, removal, portalEvents>>
    BY <1>14 DEF SignedOut, p
  <2>3. /\ page' \in Pages /\ histories' \subseteq HistoryRequests /\ askedFor' \in Selectable
        /\ HistoryIsSelecteds' /\ SelectedIsOfFarm' /\ DialogIsFor'
        /\ page'.user = NoOperator /\ page'.owner = NoOperator
    BY <2>1, <2>2, RenderKeeps
  <2>4. OneVisitor'
    BY <1>0, <2>2, <2>3 DEF OneVisitor, VisitOfNobody, VisitOfUser
  <2> QED
    BY <1>0, <1>1, <2>2, <2>3, <2>4 DEF PortalInvariant, PortalTypeOK
<1>15. CASE SignOutFails
  <2>1. OneVisitor'
    BY <1>0, <1>15 DEF SignOutFails, OneVisitor, VisitOfNobody, VisitOfUser
  <2> QED
    BY <1>0, <1>2, <1>4, <1>15, <2>1 DEF SignOutFails, PortalInvariant, PortalTypeOK
\* Clicks of the operator render another choice and leave the visit alone.
<1>16. ASSUME NEW p \in Pages, p.loading = page.loading, p.shown = page.shown, Render(p),
              p.user = page.user, p.owner = page.owner,
              p.selected = NoDevice \/ p.selected \in FarmDevices(p),
              DialogDrifts \/ (DialogStays /\ (p.confirm = FALSE \/ p.selected = page.selected)),
              UNCHANGED <<account, listed, signing, leaving, loads, removal, late, portalEvents>>
       PROVE  PortalInvariant'
  <2>1. /\ page' \in Pages /\ histories' \subseteq HistoryRequests /\ askedFor' \in Selectable
        /\ HistoryIsSelecteds' /\ SelectedIsOfFarm' /\ DialogIsFor'
        /\ page'.user = page.user /\ page'.owner = page.owner
    BY <1>16, RenderKeeps
  <2>2. OneVisitor'
    BY <1>0, <1>16, <2>1 DEF OneVisitor, VisitOfNobody, VisitOfUser
  <2> QED
    BY <1>0, <1>16, <2>1, <2>2 DEF PortalInvariant, PortalTypeOK
<1>17. ASSUME NEW f \in Farms, SelectFarm(f) PROVE PortalInvariant'
  <2> DEFINE moved == [page EXCEPT !.farm = f]
  <2>1. /\ moved \in Pages /\ moved.owner = page.owner /\ moved.user = page.user
        /\ moved.loading = page.loading /\ moved.shown = page.shown
    BY <1>0 DEF Pages
  <2> HIDE DEF moved
  <2>2. PICK p \in AfterEffects(moved) : Render(p)
    BY <1>17 DEF SelectFarm, moved
  <2>3. /\ p \in Pages /\ p.user = page.user /\ p.owner = page.owner /\ p.loading = page.loading
        /\ p.shown = page.shown /\ (p.selected = NoDevice \/ p.selected \in FarmDevices(p))
    BY <2>1, AfterEffectsSettle
  <2> QED
    BY <1>16, <1>17, <2>2, <2>3 DEF SelectFarm
<1>18. ASSUME NEW d \in Devices, SelectDevice(d) PROVE PortalInvariant'
  <2> DEFINE p == [page EXCEPT !.selected = d, !.range = "1h", !.confirm = FALSE]
  <2>1. /\ p \in Pages /\ p.owner = page.owner /\ p.user = page.user /\ p.loading = page.loading
        /\ p.shown = page.shown /\ p.selected = d /\ p.confirm = FALSE
        /\ p.devices = page.devices /\ p.farm = page.farm
    BY <1>0 DEF Pages, Selectable
  <2> HIDE DEF p
  <2>2. p.selected \in FarmDevices(p)
    BY <1>18, <2>1 DEF SelectDevice, FarmDevices
  <2>3. Render(p)
    BY <1>18 DEF SelectDevice, p
  <2> QED
    BY <1>16, <1>18, <2>1, <2>2, <2>3 DEF SelectDevice
<1>19. ASSUME NEW r \in Ranges, SelectRange(r) PROVE PortalInvariant'
  <2> DEFINE p == [page EXCEPT !.range = r]
  <2>1. /\ p \in Pages /\ p.owner = page.owner /\ p.user = page.user /\ p.loading = page.loading
        /\ p.shown = page.shown /\ p.selected = page.selected
        /\ p.devices = page.devices /\ p.farm = page.farm
    BY <1>0 DEF Pages
  <2> HIDE DEF p
  <2>2. p.selected = NoDevice \/ p.selected \in FarmDevices(p)
    BY <1>0, <2>1 DEF SelectedIsOfFarm, FarmDevices
  <2>3. Render(p)
    BY <1>19 DEF SelectRange, p
  <2> QED
    BY <1>16, <1>19, <2>1, <2>2, <2>3 DEF SelectRange
<1>20. CASE CloseDialog
  <2> DEFINE p == [page EXCEPT !.confirm = FALSE]
  <2>1. /\ p \in Pages /\ p.owner = page.owner /\ p.user = page.user /\ p.loading = page.loading
        /\ p.shown = page.shown /\ p.selected = page.selected /\ p.confirm = FALSE
        /\ p.devices = page.devices /\ p.farm = page.farm
    BY <1>0 DEF Pages
  <2> HIDE DEF p
  <2>2. p.selected = NoDevice \/ p.selected \in FarmDevices(p)
    BY <1>0, <2>1 DEF SelectedIsOfFarm, FarmDevices
  <2>3. Render(p)
    BY <1>20 DEF CloseDialog, p
  <2> QED
    BY <1>16, <1>20, <2>1, <2>2, <2>3 DEF CloseDialog
\* Requests that count are for what is selected, so one that ends is the only one.
<1>21. ASSUME NEW h \in histories, NEW rows \in SUBSET [device : Devices, range : Ranges],
              HistoryEnds(h, rows), portalEvents' \in 0..MaxPortalEvents,
              rows = page.shown \/ rows = {[device |-> h.device, range |-> h.range]}
       PROVE  PortalInvariant'
  <2>1. /\ histories' = histories \ {h}
        /\ page' = IF h.active THEN [page EXCEPT !.loading = FALSE, !.shown = rows] ELSE page
        /\ UNCHANGED <<account, listed, signing, leaving, loads, removal, askedFor, late>>
    BY <1>21 DEF HistoryEnds
  <2>2. /\ page' \in Pages /\ page'.user = page.user /\ page'.owner = page.owner
        /\ page'.selected = page.selected /\ page'.range = page.range
        /\ page'.devices = page.devices /\ page'.farm = page.farm
        /\ h.active => page'.loading = FALSE /\ page'.shown = rows
        /\ ~h.active => page'.loading = page.loading /\ page'.shown = page.shown
    BY <1>0, <2>1 DEF Pages
  <2>3. h.active => Counting' = {}
    <3>1. \A g \in Counting : g.device = page.selected /\ g.range = page.range /\ g.active
          /\ g \in HistoryRequests
      BY <1>0 DEF HistoryIsSelecteds, Current, Counting
    <3> QED
      BY <2>1, <3>1 DEF Counting, HistoryRequests
  <2>4. ~h.active => Counting' = Counting
    BY <2>1 DEF Counting
  <2>5. HistoryIsSelecteds'
    <3>1. Current' = Current
      BY <2>2 DEF Current
    <3>2. CASE h.active
      <4>1. rows \subseteq {Current}
        BY <1>0, <1>21, <3>2 DEF HistoryIsSelecteds, Counting
      <4> QED
        BY <2>2, <2>3, <3>1, <3>2, <4>1 DEF HistoryIsSelecteds
    <3>3. CASE ~h.active
      BY <1>0, <2>2, <2>4, <3>1, <3>3 DEF HistoryIsSelecteds
    <3> QED
      BY <3>2, <3>3
  <2>6. SelectedIsOfFarm' /\ DialogIsFor'
    BY <1>0, <2>1, <2>2 DEF SelectedIsOfFarm, FarmDevices, DialogIsFor
  <2>7. OneVisitor'
    BY <1>0, <2>1, <2>2 DEF OneVisitor, VisitOfNobody, VisitOfUser
  <2> QED
    BY <1>0, <1>21, <2>1, <2>2, <2>5, <2>6, <2>7 DEF PortalInvariant, PortalTypeOK
<1>22. ASSUME NEW h \in histories, HistoryAnswered(h) \/ HistoryFails(h) PROVE PortalInvariant'
  <2>1. portalEvents' \in 0..MaxPortalEvents
    BY <1>2, <1>22 DEF HistoryAnswered, HistoryFails
  <2>2. /\ page.shown \in SUBSET [device : Devices, range : Ranges]
        /\ {[device |-> h.device, range |-> h.range]} \in SUBSET [device : Devices, range : Ranges]
    BY <1>0 DEF Pages, HistoryRequests
  <2> QED
    BY <1>21, <1>22, <2>1, <2>2 DEF HistoryAnswered, HistoryFails
<1>23. CASE AskDelete
  <2>1. /\ page' \in Pages /\ page'.user = page.user /\ page'.owner = page.owner
        /\ page'.selected = page.selected /\ page'.range = page.range
        /\ page'.devices = page.devices /\ page'.farm = page.farm
        /\ page'.loading = page.loading /\ page'.shown = page.shown
    BY <1>0, <1>23 DEF AskDelete, Pages
  <2>2. askedFor' = page.selected
        /\ UNCHANGED <<account, listed, signing, leaving, loads, histories, removal, late, portalEvents>>
    BY <1>23 DEF AskDelete
  <2>3. HistoryIsSelecteds' /\ SelectedIsOfFarm' /\ DialogIsFor'
    BY <1>0, <2>1, <2>2 DEF HistoryIsSelecteds, Current, Counting, SelectedIsOfFarm, FarmDevices, DialogIsFor
  <2>4. OneVisitor'
    BY <1>0, <2>1, <2>2 DEF OneVisitor, VisitOfNobody, VisitOfUser
  <2> QED
    BY <1>0, <2>1, <2>2, <2>3, <2>4 DEF PortalInvariant, PortalTypeOK
<1>24. CASE RemoveDevice
  <2>1. removal' \in RemovalSteps
    BY <1>0, <1>24 DEF RemoveDevice, RemovalSteps
  <2>2. OneVisitor'
    BY <1>0, <1>24 DEF RemoveDevice, OneVisitor, VisitOfNobody, VisitOfUser
  <2> QED
    BY <1>0, <1>2, <1>4, <1>24, <2>1, <2>2 DEF RemoveDevice, PortalInvariant, PortalTypeOK
<1>25. CASE RemovalServed
  <2>1. removal' \in RemovalSteps
    BY <1>0, <1>25 DEF RemovalServed, RemovalSteps
  <2>2. OneVisitor'
    BY <1>0, <1>25 DEF RemovalServed, OneVisitor, VisitOfNobody, VisitOfUser
  <2> QED
    BY <1>0, <1>4, <1>25, <2>1, <2>2 DEF RemovalServed, PortalInvariant, PortalTypeOK
<1>26. CASE RemovalAnswered
  <2> DEFINE p == [page EXCEPT !.selected = NoDevice, !.confirm = FALSE]
  <2>1. /\ p \in Pages /\ p.owner = page.owner /\ p.user = page.user /\ p.loading = page.loading
        /\ p.shown = page.shown /\ p.selected = NoDevice /\ p.confirm = FALSE
    BY <1>0, <1>1 DEF Pages
  <2> HIDE DEF p
  <2>2. /\ Render(p) /\ DialogStays /\ removal.at = "served"
        /\ removal' = [NoRemoval EXCEPT !.at = "load"] /\ loads' = loads \cup {Load("removal")}
        /\ UNCHANGED <<account, listed, signing, leaving, late, portalEvents>>
    BY <1>26 DEF RemovalAnswered, p
  <2>3. /\ page' \in Pages /\ histories' \subseteq HistoryRequests /\ askedFor' \in Selectable
        /\ HistoryIsSelecteds' /\ SelectedIsOfFarm' /\ DialogIsFor'
        /\ page'.user = page.user /\ page'.owner = page.owner
    BY <2>1, <2>2, RenderKeeps
  <2>4. OneVisitor'
    BY <1>0, <1>3, <2>2, <2>3 DEF OneVisitor, VisitOfNobody, VisitOfUser
  <2> QED
    BY <1>0, <1>1, <1>3, <2>2, <2>3, <2>4 DEF PortalInvariant, PortalTypeOK
<1>27. CASE RemovalFails
  <2>1. portalEvents' \in 0..MaxPortalEvents
    BY <1>2, <1>27 DEF RemovalFails
  <2>2. OneVisitor'
    BY <1>0, <1>27 DEF RemovalFails, OneVisitor, VisitOfNobody, VisitOfUser, NoRemoval
  <2> QED
    BY <1>0, <1>1, <1>4, <1>27, <2>1, <2>2 DEF RemovalFails, PortalInvariant, PortalTypeOK
<1>28. ASSUME NEW d \in Devices, OthersChange(d) PROVE PortalInvariant'
  <2>1. OneVisitor'
    BY <1>0, <1>28 DEF OthersChange, OneVisitor, VisitOfNobody, VisitOfUser
  <2> QED
    BY <1>0, <1>2, <1>4, <1>28, <2>1 DEF OthersChange, PortalInvariant, PortalTypeOK
<1>29. CASE SessionExpires
  <2>1. OneVisitor'
    BY <1>0, <1>29 DEF SessionExpires, OneVisitor, VisitOfNobody, VisitOfUser
  <2> QED
    BY <1>0, <1>1, <1>2, <1>4, <1>29, <2>1 DEF SessionExpires, PortalInvariant, PortalTypeOK
<1>30. CASE Reload
  <2>1. /\ account' \in Sessions /\ listed' \subseteq Devices /\ portalEvents' \in 0..MaxPortalEvents
        /\ page' = Opened /\ signing' = [NoSigning EXCEPT !.at = "start"] /\ leaving' = FALSE
        /\ loads' = {} /\ histories' = {} /\ removal' = NoRemoval
        /\ askedFor' = NoDevice /\ late' = FALSE
    BY <1>0, <1>1, <1>2, <1>30 DEF Reload
  <2>2. HistoryIsSelecteds' /\ SelectedIsOfFarm' /\ DialogIsFor' /\ OneVisitor'
    BY <2>1 DEF HistoryIsSelecteds, Counting, SelectedIsOfFarm, DialogIsFor, OneVisitor, VisitOfNobody,
       Opened, NoRemoval
  <2> QED
    BY <1>1, <2>1, <2>2 DEF PortalInvariant, PortalTypeOK
<1>31. CASE UNCHANGED portalVars
  <2>1. OneVisitor'
    BY <1>0, <1>31 DEF portalVars, OneVisitor, VisitOfNobody, VisitOfUser
  <2> QED
    BY <1>0, <1>4, <1>31, <2>1 DEF portalVars, PortalInvariant, PortalTypeOK
<1> QED
  BY <1>5, <1>6, <1>7, <1>8, <1>9, <1>10, <1>11, <1>12, <1>13, <1>14, <1>15, <1>17, <1>18, <1>19,
     <1>20, <1>22, <1>23, <1>24, <1>25, <1>26, <1>27, <1>28, <1>29, <1>30, <1>31 DEF PortalNext

LEMMA PortalInvariantHolds == PortalSpec => []PortalInvariant
  BY PortalInitHolds, PortalStep, PTL DEF PortalSpec

\* Every variable of the page keeps its type, for any operators, devices and
\* ranges.
THEOREM PortalTypesHold == PortalSpec => []PortalTypeOK
<1>1. PortalInvariant => PortalTypeOK
  BY DEF PortalInvariant
<1> QED
  BY <1>1, PortalInvariantHolds, PTL

\* The page shows the history of the device and the range that are selected, a
\* device of the farm that is, a deletion is asked for the device it names, and an
\* operator sees nothing of the one before him, unless that one signed out with a
\* refresh or a deletion under way.
THEOREM PortalAlwaysShowsSelected == PortalSpec => []PortalShowsSelected
<1>1. PortalInvariant => PortalShowsSelected
  BY DEF PortalInvariant, PortalShowsSelected, OneVisitor, VisitOfNobody, VisitOfUser, RowsAreOperators
<1> QED
  BY <1>1, PortalInvariantHolds, PTL

\* ------------------------------------------------------------- AppProvision

\* The handler that is busy, the dialog it was begun from, and the link.
RequestShape ==
  /\ request.at = "idle" <=> request.kind \in {"idle", "scan"}
  /\ request.at \in {"patch", "configure", "refresh"} => request.kind = "provision"
  /\ request.kind = "scan" => joined = NoTarget
  /\ request.at \notin {"idle", "refresh"} => dialog.open /\ Selected \in Targets
  /\ request.kind = "connect" => dialog.step = 2 /\ Selected \in Boards \cup Gateways
  /\ request.kind = "provision" /\ request.at # "refresh" => dialog.step = 4
  /\ joined \in {NoTarget, Selected} \/ request.at = "refresh"
StepShape ==
  /\ dialog.step = 3 => Selected \in Boards \cup Gateways
  /\ dialog.step = 4 => /\ Selected \in Targets /\ dialog.upstream # "unset"
                        /\ dialog.upstream = "ethernet" => Selected \in Gateways
                        /\ dialog.upstream = "wifi" => Selected \notin Trackers
\* What the app knows of a record is so, if it knows anything: a record keeps
\* its farm.
KnownIsSo == \A d \in Targets : known[d] \in {NoPasture, records[d]}
\* A credential in hand is the last one of its device.
LastIssued(c) == c.device \in Targets /\ c.number = issued[c.device]
Issuing ==
  /\ \A d \in Targets : issued[d] <= attempts
  /\ request.at \in {"create", "issue"} =>
       dialog.prepared = NoCredential /\ issued[Selected] < attempts
PreparedInHand ==
  dialog.prepared # NoCredential =>
    /\ LastIssued(dialog.prepared)
    /\ drifted \/ (signedIn /\ pasture # NoPasture /\ records[dialog.prepared.device] = pasture)
RequestInHand ==
  /\ request.at \in {"create", "issue"} =>
       /\ request.farm # NoPasture
       /\ request.kind = "connect" => drifted \/ (signedIn /\ pasture = request.farm)
  /\ request.at = "issue" => records[Selected] = request.farm
  /\ request.kind = "provision" /\ request.at \in {"patch", "link", "configure"} =>
       /\ LastIssued(request.credential) /\ request.farm # NoPasture
       /\ drifted \/ records[request.credential.device] = request.farm
  /\ request.kind = "provision" /\ request.at \in {"link", "configure"} =>
       request.credential.device = Selected
SentStays ==
  sent.drifted \/ sent.device = NoTarget
    \/ (sent.mesh # NoPasture /\ sent.mesh = records[sent.device])

DialogInvariant ==
  /\ DialogTypeOK /\ RequestShape /\ StepShape /\ KnownIsSo /\ Issuing /\ PreparedInHand /\ RequestInHand
  /\ OwnCredential /\ SentStays /\ OwnUpstream /\ LinkClosed /\ ScanEnds

LEMMA DialogInitHolds == DialogInit => DialogInvariant
<1> SUFFICES ASSUME DialogInit PROVE DialogInvariant
  OBVIOUS
<1> USE ProvisionAssumption
<1>1. /\ NoCredential \in Credentials /\ NoPasture \in Farmlands /\ NoTarget \in Targets \cup {NoTarget}
      /\ [d \in Targets |-> NoPasture] \in [Targets -> Farmlands]
      /\ [d \in Targets |-> 0] \in [Targets -> 0..MaxAttempts]
      /\ 0 \in 0..MaxAttempts /\ 0 \in 0..MaxDialogEvents
  BY DEF Credentials, Farmlands
<1>2. Closed \in Dialogs /\ NoRequest \in DialogRequests /\ NothingSent \in Configurations
  BY <1>1 DEF Closed, Dialogs, NoRequest, DialogRequests, NothingSent, Configurations, Upstreams
<1>3. DialogTypeOK
  BY <1>1, <1>2 DEF DialogInit, DialogTypeOK, Farmlands
<1>4. RequestShape /\ StepShape /\ LinkClosed /\ ScanEnds
  BY DEF DialogInit, RequestShape, StepShape, LinkClosed, ScanEnds, Closed, NoRequest
<1>5. OwnUpstream /\ OwnCredential /\ SentStays
  BY DEF DialogInit, OwnUpstream, OwnCredential, SentStays, NothingSent, NoCredential
<1>6. KnownIsSo /\ Issuing /\ PreparedInHand /\ RequestInHand
  BY DEF DialogInit, KnownIsSo, Issuing, PreparedInHand, RequestInHand, Closed, NoRequest
<1> QED
  BY <1>3, <1>4, <1>5, <1>6 DEF DialogInvariant

LEMMA DialogStep == DialogInvariant /\ [DialogNext]_dialogVars => DialogInvariant'
<1> SUFFICES ASSUME DialogInvariant, [DialogNext]_dialogVars PROVE DialogInvariant'
  OBVIOUS
<1> USE ProvisionAssumption
<1>0. /\ dialog \in Dialogs /\ request \in DialogRequests /\ sent \in Configurations
      /\ joined \in Targets \cup {NoTarget} /\ pasture \in Farmlands
      /\ known \in [Targets -> Farmlands] /\ records \in [Targets -> Farmlands]
      /\ issued \in [Targets -> 0..MaxAttempts] /\ attempts \in 0..MaxAttempts
      /\ drifted \in BOOLEAN /\ DialogTypeOK
      /\ RequestShape /\ StepShape /\ KnownIsSo /\ Issuing /\ PreparedInHand /\ RequestInHand
      /\ OwnCredential /\ SentStays /\ OwnUpstream /\ LinkClosed /\ ScanEnds
  BY DEF DialogInvariant, DialogTypeOK
<1>1. /\ Closed \in Dialogs /\ NoRequest \in DialogRequests
      /\ NoCredential \in Credentials /\ NoPasture \in Farmlands /\ NoTarget \in Targets \cup {NoTarget}
      /\ [d \in Targets |-> NoPasture] \in [Targets -> Farmlands]
  BY DEF Credentials, Farmlands, Closed, Dialogs, NoRequest, DialogRequests, Upstreams
<1>2. DialogEvent \/ NoDialogEvent => dialogEvents' \in 0..MaxDialogEvents
  BY <1>0 DEF DialogEvent, NoDialogEvent, DialogTypeOK

\* A step of the dialog that leaves the service, the records and the farm alone,
\* with no handler begun.
<1>3. ASSUME UNCHANGED <<issued, records, attempts, known, sent, pasture, drifted, signedIn>>,
             \/ /\ request'.at = "idle" /\ request'.kind \in {"idle", "scan"}
                /\ dialog'.prepared \in {dialog.prepared, NoCredential}
             \/ request' = request /\ dialog'.prepared = dialog.prepared /\ Selected' = Selected
      PROVE  KnownIsSo' /\ Issuing' /\ PreparedInHand' /\ RequestInHand' /\ OwnCredential' /\ SentStays'
             /\ OwnUpstream'
  <2>1. KnownIsSo' /\ Issuing'
    BY <1>0, <1>3 DEF KnownIsSo, Issuing
  <2>2. PreparedInHand'
    BY <1>0, <1>3 DEF PreparedInHand, LastIssued
  <2>3. RequestInHand'
    BY <1>0, <1>3 DEF RequestInHand, LastIssued
  <2>4. OwnCredential' /\ SentStays' /\ OwnUpstream'
    BY <1>0, <1>3 DEF OwnCredential, SentStays, OwnUpstream
  <2> QED
    BY <2>1, <2>2, <2>3, <2>4
\* The fields that the handlers write.
<1>4. /\ Closed.open = FALSE /\ Closed.step = 1 /\ Closed.selected = NoTarget
      /\ Closed.prepared = NoCredential /\ Closed.scanning = FALSE
      /\ NoRequest.kind = "idle" /\ NoRequest.at = "idle"
      /\ dialog.selected = Selected /\ Selected \in Targets \cup {NoTarget}
      /\ dialog.prepared \in Credentials
  BY <1>0 DEF Closed, NoRequest, Selected, Dialogs
<1>s. 1 \in 1..4 /\ 2 \in 1..4 /\ 3 \in 1..4 /\ 4 \in 1..4 /\ dialog \in Dialogs
  BY <1>0
\* A handler that fails leaves its device and its step.
<1>5. ASSUME RequestFails, request.at \notin {"idle", "refresh"}
      PROVE  /\ dialog' \in Dialogs /\ request' = NoRequest /\ joined' = NoTarget
             /\ dialog'.prepared = dialog.prepared /\ Selected' = Selected
             /\ UNCHANGED wifiScans => RequestShape' /\ StepShape' /\ LinkClosed' /\ ScanEnds'
  <2>1. /\ dialog' \in Dialogs /\ dialog'.prepared = dialog.prepared /\ dialog'.selected = dialog.selected
        /\ dialog'.step = dialog.step /\ dialog'.scanning = dialog.scanning /\ dialog'.open = dialog.open
        /\ dialog'.upstream = dialog.upstream
    BY <1>0, <1>5 DEF RequestFails, Dialogs
  <2>2. request' = NoRequest /\ joined' = NoTarget
    BY <1>0, <1>4, <1>5 DEF RequestFails, Ends, Unlinked, RequestShape
  <2>3. RequestShape' /\ LinkClosed'
    BY <1>4, <2>2 DEF RequestShape, LinkClosed
  <2>4. StepShape' /\ (UNCHANGED wifiScans => ScanEnds')
    BY <1>0, <2>1 DEF StepShape, ScanEnds, Selected
  <2> QED
    BY <2>1, <2>2, <2>3, <2>4 DEF Selected
<1>6. CASE OpenDialog \/ CancelDialog
  <2>1. /\ dialog' \in Dialogs /\ dialog'.step = 1 /\ dialog'.selected = NoTarget
        /\ dialog'.prepared = NoCredential /\ dialog'.scanning = FALSE
    BY <1>1, <1>4, <1>6 DEF OpenDialog, CancelDialog, Dialogs
  <2>2. joined' = NoTarget /\ request' = NoRequest /\ request = NoRequest
        /\ wifiScans' \subseteq {"current", "outdated"}
    BY <1>0, <1>4, <1>6 DEF OpenDialog, CancelDialog, Unlinked, Outdated, RequestShape
  <2>3. UNCHANGED <<issued, records, attempts, known, sent, pasture, drifted, signedIn, reachable, dialogEvents>>
    BY <1>6 DEF OpenDialog, CancelDialog, handset, cloud
  <2>4. RequestShape' /\ StepShape' /\ LinkClosed' /\ ScanEnds'
    BY <1>4, <2>1, <2>2 DEF RequestShape, StepShape, LinkClosed, ScanEnds
  <2>5. DialogTypeOK'
    BY <1>0, <1>1, <2>1, <2>2, <2>3 DEF DialogTypeOK
  <2> QED
    BY <1>3, <1>4, <2>1, <2>2, <2>3, <2>4, <2>5 DEF DialogInvariant
<1>7. CASE ScanDevices
  <2>1. /\ dialog' \in Dialogs /\ dialog'.step = dialog.step /\ dialog'.selected = NoTarget
        /\ dialog'.prepared = NoCredential /\ dialog'.scanning = dialog.scanning
        /\ dialog.step = 1
    BY <1>0, <1>1, <1>7 DEF ScanDevices, AtStep, Dialogs
  <2>2. /\ joined' = NoTarget /\ request' \in DialogRequests /\ request'.kind = "scan"
        /\ request'.at = "idle"
    BY <1>0, <1>1, <1>4, <1>7 DEF ScanDevices, AtStep, Unlinked, RequestShape, DialogRequests
  <2>3. UNCHANGED <<issued, records, attempts, known, sent, pasture, drifted, signedIn, reachable, wifiScans,
                    dialogEvents>>
    BY <1>7 DEF ScanDevices, handset, cloud
  <2>4. RequestShape' /\ StepShape' /\ LinkClosed' /\ ScanEnds'
    BY <1>0, <1>4, <2>1, <2>2, <2>3 DEF RequestShape, StepShape, LinkClosed, ScanEnds
  <2>5. DialogTypeOK'
    BY <1>0, <1>1, <2>1, <2>2, <2>3 DEF DialogTypeOK
  <2> QED
    BY <1>3, <2>1, <2>2, <2>3, <2>4, <2>5 DEF DialogInvariant
<1>8. CASE DevicesScanned
  <2>1. /\ dialog' \in Dialogs /\ dialog'.step = dialog.step /\ dialog'.selected = dialog.selected
        /\ dialog'.prepared = dialog.prepared /\ dialog'.scanning = dialog.scanning
        /\ dialog'.upstream = dialog.upstream
    BY <1>0, <1>8 DEF DevicesScanned, Dialogs
  <2>2. /\ request' = NoRequest /\ joined' = NoTarget
        /\ UNCHANGED <<issued, records, attempts, known, sent, pasture, drifted, signedIn, reachable,
                       wifiScans, dialogEvents>>
    BY <1>0, <1>8 DEF DevicesScanned, handset, cloud, RequestShape
  <2>3. RequestShape' /\ StepShape' /\ LinkClosed' /\ ScanEnds'
    BY <1>0, <1>4, <2>1, <2>2 DEF RequestShape, StepShape, LinkClosed, ScanEnds, Selected
  <2>4. DialogTypeOK'
    BY <1>0, <1>1, <2>1, <2>2 DEF DialogTypeOK
  <2> QED
    BY <1>3, <1>4, <2>1, <2>2, <2>3, <2>4 DEF DialogInvariant
<1>9. CASE PreviousStep
  <2>1. /\ request = NoRequest /\ request' = NoRequest
        /\ UNCHANGED <<issued, records, attempts, known, sent, pasture, drifted, signedIn, reachable,
                       wifiScans, dialogEvents>>
    BY <1>9 DEF PreviousStep, AtStep, handset, cloud
  <2>2. /\ dialog' \in Dialogs /\ dialog'.prepared = dialog.prepared
        /\ dialog'.scanning = dialog.scanning /\ dialog'.upstream = dialog.upstream
        /\ \/ dialog'.step = 2 /\ dialog'.selected = Selected /\ joined' = Unlinked(Selected)
           \/ /\ dialog'.step = 3 /\ dialog'.selected = Selected /\ joined' = joined
              /\ Selected \notin Trackers /\ dialog.step = 4
           \/ /\ dialog'.step = 1 /\ dialog'.selected = NoTarget /\ joined' = joined
              /\ dialog.step = 2
    <3>1. CASE AtStep(4) /\ Selected \in Trackers /\ BackUnlinked(2)
      BY <1>s, <3>1 DEF BackUnlinked, Dialogs, Selected
    <3>2. CASE AtStep(4) /\ Selected \notin Trackers /\ dialog' = [dialog EXCEPT !.step = 3] /\ UNCHANGED joined
      BY <1>0, <1>4, <3>2 DEF AtStep, Dialogs
    <3>3. CASE AtStep(3) /\ BackUnlinked(2)
      BY <1>s, <3>3 DEF BackUnlinked, Dialogs, Selected
    <3>4. CASE AtStep(2) /\ dialog' = [dialog EXCEPT !.selected = NoTarget, !.step = 1] /\ UNCHANGED joined
      BY <1>s, <3>4 DEF AtStep, Dialogs
    <3> QED
      BY <1>9, <3>1, <3>2, <3>3, <3>4 DEF PreviousStep
  <2>3. RequestShape' /\ LinkClosed'
    <3>1. joined \in {NoTarget, Selected} /\ (dialog.step <= 2 => joined = NoTarget)
      BY <1>4, <1>0, <2>1 DEF RequestShape, LinkClosed
    <3>2. /\ joined' \in {NoTarget, dialog'.selected}
          /\ dialog'.step <= 2 => joined' = NoTarget
          /\ dialog'.step \in 1..3
      BY <2>2, <3>1, <1>4 DEF Unlinked
    <3>3. RequestShape'
      BY <1>4, <2>1, <3>2 DEF RequestShape, Selected
    <3>4. LinkClosed'
      <4>1. dialog'.open = dialog.open
        BY <1>9, <1>0 DEF PreviousStep, BackUnlinked, Dialogs
      <4>2. dialog.open
        BY <1>9 DEF PreviousStep, AtStep
      <4> QED
        BY <3>2, <4>1, <4>2 DEF LinkClosed
    <3> QED
      BY <3>3, <3>4
  <2>4. StepShape' /\ ScanEnds'
    BY <1>0, <1>4, <2>1, <2>2 DEF StepShape, ScanEnds, Selected, Targets
  <2>5. DialogTypeOK'
    BY <1>0, <1>1, <1>4, <2>1, <2>2 DEF DialogTypeOK, Unlinked
  <2> QED
    BY <1>3, <1>4, <2>1, <2>2, <2>3, <2>4, <2>5 DEF DialogInvariant
<1>10. ASSUME NEW d \in Targets, ChooseDevice(d) PROVE DialogInvariant'
  <2>1. /\ dialog' \in Dialogs /\ dialog'.step = 2 /\ dialog'.selected = d
        /\ dialog'.prepared = NoCredential /\ dialog'.scanning = dialog.scanning
    BY <1>s, <1>1, <1>10 DEF ChooseDevice, Dialogs
  <2>2. /\ request = NoRequest /\ request' = NoRequest /\ joined' = NoTarget
        /\ UNCHANGED <<issued, records, attempts, known, sent, pasture, drifted, signedIn, reachable,
                       wifiScans, dialogEvents>>
    BY <1>0, <1>4, <1>10 DEF ChooseDevice, AtStep, handset, cloud, Unlinked, RequestShape
  <2>3. RequestShape' /\ StepShape' /\ LinkClosed' /\ ScanEnds'
    BY <1>0, <1>4, <2>1, <2>2 DEF RequestShape, StepShape, LinkClosed, ScanEnds
  <2>4. DialogTypeOK'
    BY <1>0, <1>1, <2>1, <2>2 DEF DialogTypeOK
  <2> QED
    BY <1>3, <1>4, <2>1, <2>2, <2>3, <2>4 DEF DialogInvariant
\* A record of another phone's is one that nobody here counts on.
<1>11. ASSUME NEW d \in Targets, OtherPhone(d) PROVE DialogInvariant'
  <2>1. PICK farm \in Pastures : records' = [records EXCEPT ![d] = farm]
    BY <1>11 DEF OtherPhone
  <2>2. /\ records[d] = NoPasture
        /\ UNCHANGED <<dialog, request, issued, attempts, known, sent, pasture, drifted, signedIn, reachable,
                       wifiScans, joined>>
        /\ dialogEvents' \in 0..MaxDialogEvents
    BY <1>2, <1>11 DEF OtherPhone, handset
  <2>3. /\ records' \in [Targets -> Farmlands]
        /\ \A e \in Targets : records[e] # NoPasture => records'[e] = records[e]
    BY <1>0, <2>1, <2>2 DEF Farmlands
  <2>4. sent.device \in Targets \cup {NoTarget}
    BY <1>0 DEF Configurations
  <2>5. KnownIsSo' /\ SentStays'
    BY <1>0, <2>2, <2>3, <2>4 DEF KnownIsSo, SentStays
  <2>6. PreparedInHand'
    BY <1>0, <2>2, <2>3 DEF PreparedInHand, LastIssued
  <2>7. RequestInHand'
    BY <1>0, <2>2, <2>3 DEF RequestInHand, LastIssued, RequestShape, Selected
  <2>8. RequestShape' /\ StepShape' /\ LinkClosed' /\ ScanEnds' /\ Issuing' /\ OwnCredential' /\ OwnUpstream'
    BY <1>0, <2>2 DEF RequestShape, StepShape, LinkClosed, ScanEnds, Issuing, OwnCredential, OwnUpstream, Selected
  <2>9. DialogTypeOK'
    BY <1>0, <2>2, <2>3 DEF DialogTypeOK
  <2> QED
    BY <2>5, <2>6, <2>7, <2>8, <2>9 DEF DialogInvariant
<1>12. CASE CreateRecord
  <2>0. /\ Selected \in Targets /\ request.at = "create" /\ request.kind \in {"connect", "provision"}
        /\ request.farm \in Farmlands /\ request.farm # NoPasture
    BY <1>0, <1>12 DEF CreateRecord, RequestShape, RequestInHand, DialogRequests
  <2>1. /\ UNCHANGED <<wifiScans, signedIn, reachable, pasture, known, drifted, issued, sent, attempts>>
        /\ dialogEvents' \in 0..MaxDialogEvents
    BY <1>2, <1>12 DEF CreateRecord, handset
  <2>2. \/ records' = records
        \/ records[Selected] = NoPasture /\ records' = [records EXCEPT ![Selected] = request.farm]
    BY <1>12 DEF CreateRecord
  <2>3. /\ records' \in [Targets -> Farmlands]
        /\ \A e \in Targets : records[e] # NoPasture => records'[e] = records[e]
    BY <1>0, <2>0, <2>2
  <2>4. sent.device \in Targets \cup {NoTarget}
    BY <1>0 DEF Configurations
  <2>5. KnownIsSo' /\ SentStays' /\ OwnCredential' /\ OwnUpstream'
    BY <1>0, <2>1, <2>3, <2>4 DEF KnownIsSo, SentStays, OwnCredential, OwnUpstream
  <2>6. CASE RequestFails
    <3>1. /\ dialog' \in Dialogs /\ request' = NoRequest /\ joined' = NoTarget
          /\ dialog'.prepared = dialog.prepared /\ Selected' = Selected
          /\ RequestShape' /\ StepShape' /\ LinkClosed' /\ ScanEnds'
      BY <1>5, <2>0, <2>1, <2>6
    <3>2. Issuing' /\ PreparedInHand' /\ RequestInHand'
      BY <1>0, <1>4, <2>0, <2>1, <3>1 DEF Issuing, PreparedInHand, RequestInHand
    <3>3. DialogTypeOK'
      BY <1>0, <1>1, <2>1, <2>3, <3>1 DEF DialogTypeOK
    <3> QED
      BY <2>5, <3>1, <3>2, <3>3 DEF DialogInvariant
  <2>7. CASE ~RequestFails
    <3>1. /\ records' = [records EXCEPT ![Selected] = request.farm]
          /\ request' = [request EXCEPT !.at = "issue"] /\ UNCHANGED <<dialog, joined>>
      BY <1>12, <2>7 DEF CreateRecord
    <3>2. /\ request' \in DialogRequests /\ request'.at = "issue" /\ request'.kind = request.kind
          /\ request'.farm = request.farm
      BY <1>0, <3>1 DEF DialogRequests
    <3>3. records'[Selected] = request.farm
      BY <1>0, <2>0, <3>1
    <3>4. RequestShape' /\ StepShape' /\ LinkClosed' /\ ScanEnds'
      BY <1>0, <1>4, <2>0, <2>1, <3>1, <3>2 DEF RequestShape, StepShape, LinkClosed, ScanEnds, Selected
    <3>5. Issuing' /\ PreparedInHand' /\ RequestInHand'
      BY <1>0, <2>0, <2>1, <3>1, <3>2, <3>3 DEF Issuing, PreparedInHand, RequestInHand, Selected
    <3>6. DialogTypeOK'
      BY <1>0, <2>1, <2>3, <3>1, <3>2 DEF DialogTypeOK
    <3> QED
      BY <2>5, <3>4, <3>5, <3>6 DEF DialogInvariant
  <2> QED
    BY <2>6, <2>7
<1>13. CASE IssueCredential
  <2>0. /\ Selected \in Targets /\ request.at = "issue" /\ request.kind \in {"connect", "provision"}
        /\ request.farm \in Farmlands /\ request.farm # NoPasture /\ dialog.prepared = NoCredential
        /\ records[Selected] = request.farm /\ issued[Selected] < attempts
    BY <1>0, <1>13 DEF IssueCredential, RequestShape, RequestInHand, DialogRequests, Issuing
  <2>1. /\ UNCHANGED <<wifiScans, signedIn, reachable, pasture, known, drifted, records, sent, attempts>>
        /\ dialogEvents' \in 0..MaxDialogEvents
    BY <1>2, <1>13 DEF IssueCredential, handset
  <2>2. issued' = issued \/ issued' = [issued EXCEPT ![Selected] = @ + 1]
    BY <1>13 DEF IssueCredential
  <2>3. /\ issued' \in [Targets -> 0..MaxAttempts]
        /\ \A e \in Targets : issued'[e] <= attempts
    BY <1>0, <2>0, <2>2 DEF Issuing
  <2>4. KnownIsSo' /\ SentStays' /\ OwnCredential' /\ OwnUpstream'
    BY <1>0, <2>1 DEF KnownIsSo, SentStays, OwnCredential, OwnUpstream
  <2>5. CASE RequestFails
    <3>1. /\ dialog' \in Dialogs /\ request' = NoRequest /\ joined' = NoTarget
          /\ dialog'.prepared = dialog.prepared /\ Selected' = Selected
          /\ RequestShape' /\ StepShape' /\ LinkClosed' /\ ScanEnds'
      BY <1>5, <2>0, <2>1, <2>5
    <3>2. Issuing' /\ PreparedInHand' /\ RequestInHand'
      BY <1>0, <1>4, <2>0, <2>1, <2>3, <3>1 DEF Issuing, PreparedInHand, RequestInHand
    <3>3. DialogTypeOK'
      BY <1>0, <1>1, <2>1, <2>3, <3>1 DEF DialogTypeOK
    <3> QED
      BY <2>4, <3>1, <3>2, <3>3 DEF DialogInvariant
  <2>6. CASE ~RequestFails
    <3> DEFINE credential == [device |-> Selected, number |-> issued'[Selected]]
    <3>1. issued' = [issued EXCEPT ![Selected] = @ + 1] /\ signedIn /\ UNCHANGED joined
      BY <1>13, <2>6 DEF IssueCredential
    <3>2. issued'[Selected] = issued[Selected] + 1
      BY <1>0, <2>0, <3>1
    <3>3. /\ credential \in Credentials /\ credential.device = Selected
          /\ credential.number = issued'[Selected] /\ credential # NoCredential
      BY <1>0, <2>0, <3>2 DEF Credentials, NoCredential
    <3> HIDE DEF credential
    <3>4. CASE /\ request.kind = "connect" /\ dialog' = [dialog EXCEPT !.prepared = credential]
               /\ request' = [request EXCEPT !.at = "link"]
      <4>1. /\ dialog' \in Dialogs /\ dialog'.prepared = credential /\ dialog'.selected = dialog.selected
            /\ dialog'.step = dialog.step /\ dialog'.scanning = dialog.scanning /\ dialog'.open = dialog.open
            /\ dialog'.upstream = dialog.upstream
        BY <1>0, <3>3, <3>4 DEF Dialogs
      <4>2. request' \in DialogRequests /\ request'.at = "link" /\ request'.kind = "connect"
        BY <1>0, <3>4 DEF DialogRequests
      <4>a. StepShape' /\ ScanEnds'
        BY <1>0, <2>1, <4>1 DEF StepShape, ScanEnds, Selected
      <4>b. LinkClosed'
        BY <1>4, <4>2 DEF LinkClosed
      <4>c. RequestShape'
        <5>1. dialog.open /\ dialog.step = 2 /\ joined \in {NoTarget, Selected}
              /\ Selected \in Boards \cup Gateways
          BY <1>0, <2>0, <3>4 DEF RequestShape
        <5> QED
          BY <2>0, <3>1, <4>1, <4>2, <5>1 DEF RequestShape, Selected
      <4>3. RequestShape' /\ StepShape' /\ LinkClosed' /\ ScanEnds'
        BY <4>a, <4>b, <4>c
      <4>4. PreparedInHand'
        BY <1>0, <2>0, <2>1, <3>1, <3>3, <3>4, <4>1 DEF PreparedInHand, RequestInHand, LastIssued
      <4>5. Issuing' /\ RequestInHand'
        BY <2>1, <2>3, <4>2 DEF Issuing, RequestInHand
      <4>6. DialogTypeOK'
        BY <1>0, <2>1, <2>3, <3>1, <4>1, <4>2 DEF DialogTypeOK
      <4> QED
        BY <2>4, <4>3, <4>4, <4>5, <4>6 DEF DialogInvariant
    <3>5. CASE /\ request.kind = "provision" /\ dialog' = dialog
               /\ request' = [request EXCEPT !.at = "patch", !.credential = credential]
      <4>1. /\ request' \in DialogRequests /\ request'.at = "patch" /\ request'.kind = "provision"
            /\ request'.credential = credential /\ request'.farm = request.farm
        BY <1>0, <3>3, <3>5 DEF DialogRequests
      <4>2. RequestShape' /\ StepShape' /\ LinkClosed' /\ ScanEnds'
        BY <1>0, <1>4, <2>0, <2>1, <3>1, <3>5, <4>1 DEF RequestShape, StepShape, LinkClosed, ScanEnds, Selected
      <4>3. PreparedInHand' /\ Issuing'
        BY <2>0, <2>1, <2>3, <3>5, <4>1 DEF PreparedInHand, Issuing
      <4>4. RequestInHand'
        BY <2>0, <2>1, <3>3, <4>1 DEF RequestInHand, LastIssued
      <4>5. DialogTypeOK'
        BY <1>0, <2>1, <2>3, <3>1, <3>5, <4>1 DEF DialogTypeOK
      <4> QED
        BY <2>4, <4>2, <4>3, <4>4, <4>5 DEF DialogInvariant
    <3> QED
      BY <1>13, <2>6, <3>4, <3>5 DEF IssueCredential, credential
  <2> QED
    BY <2>5, <2>6
\* Where a handler begins: with the credential prepared before, or with what the
\* app knows of the record.
<1>14. ASSUME NEW kind \in {"connect", "provision"}, NEW at, NEW c \in Credentials, Begin(kind, at, c),
              request = NoRequest, UNCHANGED <<dialog, wifiScans, joined, handset, cloud, sent, dialogEvents>>,
              dialog.open, Selected \in Targets, signedIn,
              kind = "connect" => dialog.step = 2 /\ Selected \in Boards \cup Gateways,
              kind = "provision" => dialog.step = 4,
              \/ at = "link" /\ kind = "connect"
              \/ /\ at = "patch" /\ kind = "provision" /\ c = dialog.prepared
                 /\ c # NoCredential /\ pasture # NoPasture
              \/ /\ at = FirstStep(Selected) /\ dialog.prepared = NoCredential
                 /\ pasture # NoPasture /\ ~OtherFarm(Selected)
       PROVE  DialogInvariant'
  <2>1. /\ attempts' = attempts + 1 /\ attempts' \in 0..MaxAttempts
        /\ request' = [kind |-> kind, at |-> at, farm |-> pasture, credential |-> c]
        /\ UNCHANGED <<dialog, wifiScans, joined, signedIn, reachable, pasture, known, drifted, records, issued,
                       sent, dialogEvents>>
    BY <1>0, <1>14 DEF Begin, handset, cloud
  <2>2. /\ request'.kind = kind /\ request'.at = at /\ request'.farm = pasture /\ request'.credential = c
        /\ at \in {"link", "patch", "create", "issue"}
    BY <1>14, <2>1 DEF FirstStep
  <2>3. request' \in DialogRequests
    BY <1>0, <2>1, <2>2 DEF DialogRequests
  <2>a. StepShape' /\ ScanEnds'
    BY <1>0, <2>1 DEF StepShape, ScanEnds, Selected
  <2>b. LinkClosed'
    BY <1>4, <1>14, <2>2 DEF LinkClosed
  <2>c. joined \in {NoTarget, Selected} /\ UNCHANGED <<dialog, joined>>
    BY <1>0, <1>4, <1>14, <2>1 DEF RequestShape
  <2>d. kind # "idle" /\ kind # "scan" /\ (at = "patch" => kind = "provision") /\ Selected \in Targets
        /\ (kind = "connect" => dialog.step = 2 /\ Selected \in Boards \cup Gateways)
        /\ (kind = "provision" => dialog.step = 4) /\ dialog.open
    <3>1. at = FirstStep(Selected) => at # "patch"
      BY DEF FirstStep
    <3> QED
      BY <1>14, <3>1
  <2>e. RequestShape'
    BY <2>2, <2>c, <2>d DEF RequestShape, Selected
  <2>4. RequestShape' /\ StepShape' /\ LinkClosed' /\ ScanEnds'
    BY <2>a, <2>b, <2>e
  <2>5. \A d \in Targets : issued[d] <= attempts /\ issued[d] \in Nat
    BY <1>0 DEF Issuing
  <2>6. Issuing'
    BY <1>0, <1>14, <2>1, <2>2, <2>5 DEF Issuing, Selected, FirstStep
  <2>7. KnownIsSo' /\ PreparedInHand' /\ SentStays' /\ OwnCredential' /\ OwnUpstream'
    BY <1>0, <2>1 DEF KnownIsSo, PreparedInHand, LastIssued, SentStays, OwnCredential, OwnUpstream
  <2>8. at = "issue" => records[Selected] = pasture
    BY <1>0, <1>14 DEF FirstStep, OtherFarm, KnownIsSo
  <2>9. RequestInHand'
    BY <1>0, <1>14, <2>1, <2>2, <2>8 DEF RequestInHand, PreparedInHand, LastIssued, Selected, FirstStep
  <2>10. DialogTypeOK'
    BY <1>0, <2>1, <2>3 DEF DialogTypeOK
  <2> QED
    BY <2>4, <2>6, <2>7, <2>9, <2>10 DEF DialogInvariant
<1>15. CASE PressConnect
  <2>1. /\ request = NoRequest /\ dialog.open /\ dialog.step = 2 /\ signedIn
        /\ UNCHANGED <<wifiScans, joined, handset, cloud, sent, dialogEvents>>
    BY <1>15 DEF PressConnect, AtStep
  <2>2. CASE /\ Selected \in Trackers /\ UNCHANGED <<request, attempts>>
             /\ dialog' = [dialog EXCEPT !.step = 4, !.upstream = "none", !.linked = FALSE]
    <3>1. /\ dialog' \in Dialogs /\ dialog'.step = 4 /\ dialog'.upstream = "none"
          /\ dialog'.prepared = dialog.prepared /\ dialog'.selected = dialog.selected
          /\ dialog'.scanning = dialog.scanning
      BY <1>s, <2>2 DEF Dialogs, Upstreams
    <3>2. UNCHANGED <<issued, records, attempts, known, sent, pasture, drifted, signedIn, reachable, wifiScans,
                      joined, dialogEvents, request>>
      BY <2>1, <2>2 DEF handset, cloud
    <3>3. RequestShape' /\ LinkClosed'
      BY <1>0, <1>4, <2>1, <3>1, <3>2 DEF RequestShape, LinkClosed, Selected
    <3>4. StepShape' /\ ScanEnds'
      BY <1>0, <2>2, <3>1, <3>2 DEF StepShape, ScanEnds, Selected, Targets
    <3>5. DialogTypeOK'
      BY <1>0, <3>1, <3>2 DEF DialogTypeOK
    <3> QED
      BY <1>3, <1>4, <2>1, <3>1, <3>2, <3>3, <3>4, <3>5 DEF DialogInvariant
  <2>3. CASE Selected \in Boards /\ Begin("connect", "link", NoCredential) /\ UNCHANGED dialog
    BY <1>1, <1>14, <2>1, <2>3 DEF Targets
  <2>4. CASE /\ Selected \in Gateways /\ pasture # NoPasture /\ UNCHANGED dialog
             /\ IF dialog.prepared # NoCredential THEN Begin("connect", "link", NoCredential)
                ELSE ~OtherFarm(Selected) /\ Begin("connect", FirstStep(Selected), NoCredential)
    BY <1>1, <1>14, <2>1, <2>4 DEF Targets
  <2> QED
    BY <1>15, <2>2, <2>3, <2>4 DEF PressConnect
<1>16. CASE PressProvision
  <2>1. /\ request = NoRequest /\ dialog.open /\ dialog.step = 4 /\ signedIn /\ pasture # NoPasture
        /\ UNCHANGED <<dialog, wifiScans, joined, handset, cloud, sent, dialogEvents>>
    BY <1>16 DEF PressProvision, AtStep
  <2>2. Selected \in Targets
    BY <1>0, <2>1 DEF StepShape
  <2>3. CASE dialog.prepared # NoCredential /\ Begin("provision", "patch", dialog.prepared)
    BY <1>4, <1>14, <2>1, <2>2, <2>3
  <2>4. CASE /\ dialog.prepared = NoCredential /\ ~OtherFarm(Selected)
             /\ Begin("provision", FirstStep(Selected), NoCredential)
    BY <1>1, <1>14, <2>1, <2>2, <2>4
  <2> QED
    BY <1>16, <2>3, <2>4 DEF PressProvision
<1>17. CASE DeviceConnects
  <2>1. /\ request.at = "link" /\ Selected \in Targets /\ dialog.open
        /\ UNCHANGED <<issued, records, attempts, known, sent, pasture, drifted, signedIn, reachable, wifiScans>>
        /\ dialogEvents' \in 0..MaxDialogEvents
    BY <1>0, <1>2, <1>17 DEF DeviceConnects, RequestShape, handset, cloud
  <2>2. CASE RequestFails
    <3>1. /\ dialog' \in Dialogs /\ request' = NoRequest /\ joined' = NoTarget
          /\ dialog'.prepared = dialog.prepared
          /\ RequestShape' /\ StepShape' /\ LinkClosed' /\ ScanEnds'
      BY <1>5, <2>1, <2>2
    <3>2. DialogTypeOK'
      BY <1>0, <1>1, <2>1, <3>1 DEF DialogTypeOK
    <3> QED
      BY <1>3, <1>4, <2>1, <3>1, <3>2 DEF DialogInvariant
  <2>3. CASE /\ request.kind = "connect" /\ joined' = Selected /\ request' = NoRequest
             /\ dialog' = [dialog EXCEPT !.linked = TRUE, !.step = 3]
    <3>1. /\ dialog' \in Dialogs /\ dialog'.step = 3 /\ dialog'.selected = dialog.selected /\ dialog'.open
          /\ dialog'.prepared = dialog.prepared /\ dialog'.scanning = dialog.scanning
      BY <1>s, <2>1, <2>3 DEF Dialogs
    <3>2. RequestShape' /\ StepShape' /\ LinkClosed' /\ ScanEnds'
      BY <1>0, <1>4, <2>1, <2>3, <3>1 DEF RequestShape, StepShape, LinkClosed, ScanEnds, Selected
    <3>3. DialogTypeOK'
      BY <1>0, <1>1, <2>1, <2>3, <3>1 DEF DialogTypeOK
    <3> QED
      BY <1>3, <1>4, <2>1, <2>3, <3>1, <3>2, <3>3 DEF DialogInvariant
  <2>4. CASE /\ request.kind # "connect" /\ joined' = Selected
             /\ dialog' = [dialog EXCEPT !.linked = TRUE] /\ request' = [request EXCEPT !.at = "configure"]
    <3>1. /\ dialog' \in Dialogs /\ dialog'.step = dialog.step /\ dialog'.selected = dialog.selected
          /\ dialog'.open = dialog.open /\ dialog'.upstream = dialog.upstream
          /\ dialog'.prepared = dialog.prepared /\ dialog'.scanning = dialog.scanning
      BY <1>0, <2>4 DEF Dialogs
    <3>2. /\ request' \in DialogRequests /\ request'.at = "configure" /\ request'.kind = request.kind
          /\ request'.credential = request.credential /\ request'.farm = request.farm
      BY <1>0, <2>4 DEF DialogRequests
    <3>3. request.kind = "provision"
      BY <1>0, <2>1, <2>4 DEF RequestShape, DialogRequests
    <3>4. RequestShape' /\ LinkClosed'
      BY <1>0, <1>4, <2>1, <2>4, <3>1, <3>2, <3>3 DEF RequestShape, LinkClosed, Selected
    <3>5. StepShape' /\ ScanEnds' /\ KnownIsSo' /\ OwnCredential' /\ SentStays' /\ OwnUpstream'
      BY <1>0, <2>1, <3>1 DEF StepShape, ScanEnds, KnownIsSo, OwnCredential, SentStays, OwnUpstream, Selected
    <3>6. Issuing' /\ PreparedInHand' /\ RequestInHand'
      BY <1>0, <2>1, <3>1, <3>2, <3>3 DEF Issuing, PreparedInHand, RequestInHand, LastIssued, Selected
    <3>7. DialogTypeOK'
      BY <1>0, <2>1, <2>4, <3>1, <3>2 DEF DialogTypeOK
    <3> QED
      BY <3>4, <3>5, <3>6, <3>7 DEF DialogInvariant
  <2> QED
    BY <1>17, <2>2, <2>3, <2>4 DEF DeviceConnects
<1>18. CASE ChooseWifi
  <2>1. /\ dialog' \in Dialogs /\ dialog'.step = 3 /\ dialog.step = 3 /\ dialog'.selected = dialog.selected
        /\ dialog'.open = dialog.open /\ dialog'.prepared = dialog.prepared
    BY <1>0, <1>18 DEF ChooseWifi, AtStep, Dialogs, Upstreams
  <2>2. /\ "current" \in wifiScans' /\ wifiScans' \subseteq {"current", "outdated"}
        /\ UNCHANGED <<issued, records, attempts, known, sent, pasture, drifted, signedIn, reachable, joined,
                       request, dialogEvents>>
    BY <1>18 DEF ChooseWifi, Outdated, handset, cloud
  <2>3. RequestShape' /\ StepShape' /\ LinkClosed' /\ ScanEnds'
    BY <1>0, <1>4, <2>1, <2>2 DEF RequestShape, StepShape, LinkClosed, ScanEnds, Selected
  <2>4. DialogTypeOK'
    BY <1>0, <2>1, <2>2 DEF DialogTypeOK
  <2> QED
    BY <1>3, <2>1, <2>2, <2>3, <2>4 DEF DialogInvariant, Selected
<1>19. ASSUME NEW s \in wifiScans, WifiScanned(s) PROVE DialogInvariant'
  <2>1. /\ dialog' \in Dialogs /\ dialog'.step = dialog.step /\ dialog'.selected = dialog.selected
        /\ dialog'.open = dialog.open /\ dialog'.prepared = dialog.prepared /\ dialog'.upstream = dialog.upstream
        /\ dialog'.scanning => s # "current" /\ dialog.scanning
    BY <1>0, <1>19 DEF WifiScanned, Dialogs
  <2>2. /\ wifiScans' = wifiScans \ {s}
        /\ UNCHANGED <<issued, records, attempts, known, sent, pasture, drifted, signedIn, reachable, joined,
                       request, dialogEvents>>
    BY <1>19 DEF WifiScanned, handset, cloud
  <2>3. RequestShape' /\ StepShape' /\ LinkClosed' /\ ScanEnds'
    BY <1>0, <1>4, <2>1, <2>2 DEF RequestShape, StepShape, LinkClosed, ScanEnds, Selected
  <2>4. DialogTypeOK'
    BY <1>0, <2>1, <2>2 DEF DialogTypeOK
  <2> QED
    BY <1>3, <2>1, <2>2, <2>3, <2>4 DEF DialogInvariant, Selected
<1>20. CASE ContinueWithWifi
  <2>1. /\ dialog' \in Dialogs /\ dialog'.step = 4 /\ dialog.step = 3 /\ dialog'.selected = dialog.selected
        /\ dialog'.open = dialog.open /\ dialog'.prepared = dialog.prepared /\ dialog'.upstream = "wifi"
        /\ dialog'.scanning = dialog.scanning
    BY <1>s, <1>20 DEF ContinueWithWifi, AtStep, Dialogs
  <2>2. UNCHANGED <<issued, records, attempts, known, sent, pasture, drifted, signedIn, reachable, joined,
                    wifiScans, request, dialogEvents>>
    BY <1>20 DEF ContinueWithWifi, handset, cloud
  <2>3. RequestShape' /\ LinkClosed'
    BY <1>0, <1>4, <2>1, <2>2 DEF RequestShape, LinkClosed, Selected
  <2>4. StepShape' /\ ScanEnds'
    BY <1>0, <2>1, <2>2 DEF StepShape, ScanEnds, Selected, Targets
  <2>5. DialogTypeOK'
    BY <1>0, <2>1, <2>2 DEF DialogTypeOK
  <2> QED
    BY <1>3, <2>1, <2>2, <2>3, <2>4, <2>5 DEF DialogInvariant, Selected
<1>21. ASSUME NEW upstream \in {"ethernet", "none"}, ChooseOther(upstream) PROVE DialogInvariant'
  <2>1. /\ dialog' \in Dialogs /\ dialog'.step = 4 /\ dialog.step = 3 /\ dialog'.selected = dialog.selected
        /\ dialog'.open = dialog.open /\ dialog'.prepared = dialog.prepared /\ dialog'.upstream = upstream
        /\ dialog'.scanning = FALSE /\ (upstream = "ethernet" => Selected \in Gateways)
    BY <1>s, <1>21 DEF ChooseOther, AtStep, Dialogs, Upstreams
  <2>2. /\ wifiScans' \subseteq {"current", "outdated"}
        /\ UNCHANGED <<issued, records, attempts, known, sent, pasture, drifted, signedIn, reachable, joined,
                       request, dialogEvents>>
    BY <1>21 DEF ChooseOther, Outdated, handset, cloud
  <2>3. RequestShape' /\ LinkClosed'
    BY <1>0, <1>4, <2>1, <2>2 DEF RequestShape, LinkClosed, Selected
  <2>4. StepShape' /\ ScanEnds'
    BY <1>0, <1>4, <2>1, <2>2 DEF StepShape, ScanEnds, Selected, Targets
  <2>5. DialogTypeOK'
    BY <1>0, <2>1, <2>2 DEF DialogTypeOK
  <2> QED
    BY <1>3, <2>1, <2>2, <2>3, <2>4, <2>5 DEF DialogInvariant, Selected
<1>22. CASE PatchRecord
  <2>1. /\ request.at = "patch" /\ request.kind = "provision" /\ Selected \in Targets
        /\ UNCHANGED <<issued, records, attempts, known, sent, pasture, drifted, signedIn, reachable, wifiScans>>
        /\ dialogEvents' \in 0..MaxDialogEvents
    BY <1>0, <1>2, <1>22 DEF PatchRecord, RequestShape, handset, cloud
  <2>2. CASE RequestFails
    <3>1. /\ dialog' \in Dialogs /\ request' = NoRequest /\ joined' = NoTarget
          /\ dialog'.prepared = dialog.prepared
          /\ RequestShape' /\ StepShape' /\ LinkClosed' /\ ScanEnds'
      BY <1>5, <2>1, <2>2
    <3>2. DialogTypeOK'
      BY <1>0, <1>1, <2>1, <3>1 DEF DialogTypeOK
    <3> QED
      BY <1>3, <1>4, <2>1, <3>1, <3>2 DEF DialogInvariant
  <2>3. CASE ~RequestFails
    <3>1. /\ request.credential.device = Selected /\ UNCHANGED <<dialog, joined>>
          /\ request' = [request EXCEPT !.at = IF Selected \in Trackers THEN "link" ELSE "configure"]
      BY <1>22, <2>3 DEF PatchRecord
    <3>2. /\ request' \in DialogRequests /\ request'.at \in {"link", "configure"}
          /\ request'.kind = "provision" /\ request'.credential = request.credential
          /\ request'.farm = request.farm
      BY <1>0, <2>1, <3>1 DEF DialogRequests
    <3>3. RequestShape' /\ LinkClosed' /\ StepShape' /\ ScanEnds'
      BY <1>0, <1>4, <2>1, <3>1, <3>2 DEF RequestShape, LinkClosed, StepShape, ScanEnds, Selected
    <3>4. KnownIsSo' /\ OwnCredential' /\ SentStays' /\ OwnUpstream'
      BY <1>0, <2>1 DEF KnownIsSo, OwnCredential, SentStays, OwnUpstream
    <3>5. Issuing' /\ PreparedInHand' /\ RequestInHand'
      BY <1>0, <2>1, <3>1, <3>2 DEF Issuing, PreparedInHand, RequestInHand, LastIssued, Selected
    <3>6. DialogTypeOK'
      BY <1>0, <2>1, <3>1, <3>2 DEF DialogTypeOK
    <3> QED
      BY <3>3, <3>4, <3>5, <3>6 DEF DialogInvariant
  <2> QED
    BY <2>2, <2>3
\* What a device is configured with is right at that moment.
<1>23. CASE Configure
  <2>1. /\ request.at = "configure" /\ request.kind = "provision" /\ Selected \in Targets /\ dialog.step = 4
        /\ UNCHANGED <<issued, records, attempts, known, pasture, drifted, signedIn, reachable, wifiScans>>
        /\ dialogEvents' \in 0..MaxDialogEvents
    BY <1>0, <1>2, <1>23 DEF Configure, RequestShape, handset, cloud
  <2>2. sent' = sent \/ sent' = Configuration
    BY <1>23 DEF Configure
  <2>3. /\ Configuration \in Configurations /\ Configuration.device = Selected
        /\ Configuration.credential = request.credential /\ Configuration.mesh = request.farm
        /\ Configuration.valid = (request.credential.number = issued[request.credential.device])
        /\ Configuration.upstream = dialog.upstream /\ Configuration.drifted = drifted
    BY <1>0, <2>1 DEF Configuration, Configurations, Dialogs, DialogRequests
  <2>4. LastIssued(request.credential) /\ request.credential.device = Selected /\ request.farm # NoPasture
        /\ (drifted \/ records[Selected] = request.farm)
    BY <1>0, <2>1 DEF RequestInHand
  <2>5. OwnCredential' /\ SentStays' /\ OwnUpstream'
    <3>1. CASE sent' = sent
      BY <1>0, <2>1, <3>1 DEF OwnCredential, SentStays, OwnUpstream
    <3>2. CASE sent' = Configuration
      <4>1. OwnCredential' /\ SentStays'
        BY <2>1, <2>3, <2>4, <3>2 DEF OwnCredential, SentStays, LastIssued
      <4>2. OwnUpstream'
        BY <1>0, <2>1, <2>3, <3>2 DEF OwnUpstream, StepShape
      <4> QED
        BY <4>1, <4>2
    <3> QED
      BY <2>2, <3>1, <3>2
  <2>6. KnownIsSo'
    BY <1>0, <2>1 DEF KnownIsSo
  <2>7. sent' \in Configurations
    BY <1>0, <2>2, <2>3
  <2>8. CASE RequestFails
    <3>1. /\ dialog' \in Dialogs /\ request' = NoRequest /\ joined' = NoTarget
          /\ dialog'.prepared = dialog.prepared
          /\ RequestShape' /\ StepShape' /\ LinkClosed' /\ ScanEnds'
      BY <1>5, <2>1, <2>8
    <3>2. Issuing' /\ PreparedInHand' /\ RequestInHand'
      BY <1>0, <1>4, <2>1, <3>1 DEF Issuing, PreparedInHand, RequestInHand, LastIssued
    <3>3. DialogTypeOK'
      BY <1>0, <1>1, <2>1, <2>7, <3>1 DEF DialogTypeOK
    <3> QED
      BY <2>5, <2>6, <3>1, <3>2, <3>3 DEF DialogInvariant
  <2>9. CASE ~RequestFails
    <3>1. /\ dialog' = [Closed EXCEPT !.upstream = dialog.upstream, !.scanning = dialog.scanning]
          /\ request' = [request EXCEPT !.at = "refresh"] /\ UNCHANGED joined
      BY <1>23, <2>9 DEF Configure
    <3>2. /\ dialog' \in Dialogs /\ dialog'.step = 1 /\ dialog'.prepared = NoCredential
          /\ dialog'.scanning = dialog.scanning
      <4>1. dialog.upstream \in Upstreams /\ dialog.scanning \in BOOLEAN
        BY <1>0 DEF Dialogs
      <4> QED
        BY <1>1, <1>4, <3>1, <4>1 DEF Dialogs
    <3>3. request' \in DialogRequests /\ request'.at = "refresh" /\ request'.kind = "provision"
      BY <1>0, <2>1, <3>1 DEF DialogRequests
    <3>a. StepShape' /\ ScanEnds'
      BY <1>0, <2>1, <3>2 DEF StepShape, ScanEnds
    <3>b. LinkClosed' /\ RequestShape'
      BY <1>4, <3>3 DEF LinkClosed, RequestShape
    <3>4. RequestShape' /\ StepShape' /\ LinkClosed' /\ ScanEnds'
      BY <3>a, <3>b
    <3>5. Issuing' /\ PreparedInHand' /\ RequestInHand'
      BY <1>0, <2>1, <3>2, <3>3 DEF Issuing, PreparedInHand, RequestInHand
    <3>6. DialogTypeOK'
      BY <1>0, <2>1, <2>7, <3>1, <3>2, <3>3 DEF DialogTypeOK
    <3> QED
      BY <2>5, <2>6, <3>4, <3>5, <3>6 DEF DialogInvariant
  <2> QED
    BY <2>8, <2>9
<1>24. CASE ProvisioningEnds
  <2>1. /\ request' = NoRequest /\ joined' = NoTarget /\ dialog' = dialog
        /\ UNCHANGED <<wifiScans, signedIn, pasture, drifted, records, issued, sent, attempts>>
        /\ known' \in {known, records} /\ reachable' \in BOOLEAN /\ dialogEvents' \in 0..MaxDialogEvents
    BY <1>0, <1>2, <1>24 DEF ProvisioningEnds, RefreshFails, cloud, DialogTypeOK
  <2>2. KnownIsSo' /\ OwnCredential' /\ SentStays' /\ OwnUpstream'
    BY <1>0, <2>1 DEF KnownIsSo, OwnCredential, SentStays, OwnUpstream
  <2>3. RequestShape' /\ StepShape' /\ LinkClosed' /\ ScanEnds'
    BY <1>0, <1>4, <2>1 DEF RequestShape, StepShape, LinkClosed, ScanEnds, Selected
  <2>4. Issuing' /\ PreparedInHand' /\ RequestInHand'
    BY <1>0, <1>4, <2>1 DEF Issuing, PreparedInHand, RequestInHand, LastIssued
  <2>5. DialogTypeOK'
    BY <1>0, <1>1, <2>1 DEF DialogTypeOK
  <2> QED
    BY <2>2, <2>3, <2>4, <2>5 DEF DialogInvariant
\* The farm goes, or the session: a credential in hand has drifted then.
<1>25. ASSUME UNCHANGED <<dialog, request, wifiScans, joined, records, issued, sent, attempts>>,
              pasture' \in Farmlands, signedIn' \in BOOLEAN, reachable' \in BOOLEAN, drifted' \in BOOLEAN,
              known' \in [Targets -> Farmlands], \A d \in Targets : known'[d] \in {NoPasture, records[d]},
              dialogEvents' \in 0..MaxDialogEvents, drifted => drifted',
              (signedIn' /\ pasture' = pasture) \/ drifted' \/ ~(signedIn /\ Preparing)
       PROVE  DialogInvariant'
  <2>1. RequestShape' /\ StepShape' /\ LinkClosed' /\ ScanEnds' /\ OwnCredential' /\ SentStays' /\ OwnUpstream'
    BY <1>0, <1>25 DEF RequestShape, StepShape, LinkClosed, ScanEnds, OwnCredential, SentStays, OwnUpstream, Selected
  <2>2. KnownIsSo' /\ Issuing'
    BY <1>0, <1>25 DEF KnownIsSo, Issuing, Selected
  <2>3. PreparedInHand'
    BY <1>0, <1>25 DEF PreparedInHand, LastIssued, Preparing
  <2>4. RequestInHand'
    BY <1>0, <1>25 DEF RequestInHand, LastIssued, Preparing, Selected
  <2>5. DialogTypeOK'
    BY <1>0, <1>25 DEF DialogTypeOK
  <2> QED
    BY <2>1, <2>2, <2>3, <2>4, <2>5 DEF DialogInvariant
<1>26. CASE Refreshed
  <2>1. /\ UNCHANGED <<dialog, request, wifiScans, joined, records, issued, sent, attempts>>
        /\ signedIn' \in BOOLEAN /\ known' \in {known, records} /\ reachable' \in BOOLEAN
        /\ drifted' \in BOOLEAN /\ (drifted => drifted') /\ dialogEvents' \in 0..MaxDialogEvents
        /\ pasture' \in Farmlands
        /\ (signedIn' /\ pasture' = pasture) \/ drifted' \/ ~(signedIn /\ Preparing)
    <3>1. /\ UNCHANGED <<dialog, request, wifiScans, joined, records, issued, sent, attempts>>
          /\ signedIn /\ signedIn' = signedIn
      BY <1>26 DEF Refreshed, cloud
    <3>2. known' \in {known, records} /\ reachable' \in BOOLEAN
      BY <1>26 DEF Refreshed, RefreshFails
    <3>3. dialogEvents' \in 0..MaxDialogEvents
      BY <1>2, <1>26 DEF Refreshed, RefreshFails
    <3>4. \/ UNCHANGED <<pasture, drifted>>
          \/ pasture' \in Pastures \cup {NoPasture} /\ drifted' = (drifted \/ Preparing)
      BY <1>26 DEF Refreshed
    <3>5. Preparing \in BOOLEAN /\ drifted \in BOOLEAN /\ pasture \in Farmlands
      BY <1>0 DEF Preparing
    <3> QED
      BY <3>1, <3>2, <3>3, <3>4, <3>5 DEF Farmlands
  <2>2. known' \in [Targets -> Farmlands] /\ \A d \in Targets : known'[d] \in {NoPasture, records[d]}
    BY <1>0, <2>1 DEF KnownIsSo
  <2> QED
    BY <1>25, <2>1, <2>2
<1>27. CASE SessionGone
  <2>1. /\ UNCHANGED <<dialog, request, wifiScans, joined, records, issued, sent, attempts>>
        /\ signedIn' \in BOOLEAN /\ known' = [d \in Targets |-> NoPasture] /\ reachable' \in BOOLEAN
        /\ drifted' \in BOOLEAN /\ (drifted => drifted') /\ dialogEvents' \in 0..MaxDialogEvents
        /\ pasture' \in Farmlands /\ (drifted' \/ ~(signedIn /\ Preparing))
    BY <1>0, <1>1, <1>2, <1>27 DEF SessionGone, cloud, DialogTypeOK
  <2>2. known' \in [Targets -> Farmlands] /\ \A d \in Targets : known'[d] \in {NoPasture, records[d]}
    BY <1>1, <2>1
  <2> QED
    BY <1>25, <2>1, <2>2
<1>28. CASE SignInAgain
  <2>1. /\ UNCHANGED <<dialog, request, wifiScans, joined, records, issued, sent, attempts, drifted, dialogEvents>>
        /\ signedIn' \in BOOLEAN /\ known' = records /\ reachable' \in BOOLEAN
        /\ pasture' \in Farmlands /\ ~signedIn
    BY <1>28 DEF SignInAgain, cloud, Farmlands
  <2>2. known' \in [Targets -> Farmlands] /\ \A d \in Targets : known'[d] \in {NoPasture, records[d]}
    BY <1>0, <2>1
  <2> QED
    BY <1>0, <1>25, <2>1, <2>2 DEF DialogTypeOK
<1>29. CASE LinkLost
  <2>1. /\ joined' = NoTarget /\ dialogEvents' \in 0..MaxDialogEvents
        /\ UNCHANGED <<dialog, request, issued, records, attempts, known, sent, pasture, drifted, signedIn,
                       reachable, wifiScans>>
    BY <1>2, <1>29 DEF LinkLost, handset, cloud
  <2>2. RequestShape' /\ StepShape' /\ LinkClosed' /\ ScanEnds'
    BY <1>0, <2>1 DEF RequestShape, StepShape, LinkClosed, ScanEnds, Selected
  <2>3. DialogTypeOK'
    BY <1>0, <2>1 DEF DialogTypeOK
  <2> QED
    BY <1>3, <2>1, <2>2, <2>3 DEF DialogInvariant, Selected
<1>30. CASE UNCHANGED dialogVars
  BY <1>0, <1>30 DEF dialogVars, DialogInvariant, DialogTypeOK, RequestShape, StepShape, KnownIsSo, Issuing,
     PreparedInHand, RequestInHand, OwnCredential, SentStays, OwnUpstream, LinkClosed, ScanEnds, LastIssued,
     Selected
<1> QED
  BY <1>6, <1>7, <1>8, <1>9, <1>10, <1>11, <1>12, <1>13, <1>15, <1>16, <1>17, <1>18, <1>19, <1>20, <1>21,
     <1>22, <1>23, <1>24, <1>26, <1>27, <1>28, <1>29, <1>30 DEF DialogNext

LEMMA DialogInvariantHolds == DialogSpec => []DialogInvariant
  BY DialogInitHolds, DialogStep, PTL DEF DialogSpec

\* Every variable of the dialog and of the service keeps its type, for any
\* devices, farms, attempts and faults.
THEOREM DialogTypesHold == DialogSpec => []DialogTypeOK
<1>1. DialogInvariant => DialogTypeOK
  BY DEF DialogInvariant
<1> QED
  BY <1>1, DialogInvariantHolds, PTL

\* Through retries, other phones, lost answers and sessions that end, a device is
\* configured with its own last credential, its farm's mesh and an upstream that it
\* has, is disconnected whichever way the dialog leaves it, and a Wi-Fi scan that
\* the dialog waits for will be answered.
THEOREM SetupStaysRight == DialogSpec => []SetupIsRight
<1>1. DialogInvariant => SetupIsRight
  BY DEF DialogInvariant, SetupIsRight, SentStays, OwnFarm
<1> QED
  BY <1>1, DialogInvariantHolds, PTL

\* ---------------------------------------------------------------- Installer

Kinds == {"store", "set", "ensure", "upsert", "variable", "deploy", "domain"}
PlanIsP ==
  /\ Len(Plan) = 17
  /\ Plan[1] = Step("store", "store") /\ Plan[2] = Step("set", "methods")
  /\ Plan[3] = Step("ensure", "platform") /\ Plan[4] = Step("ensure", "database")
  /\ Plan[5] = Step("ensure", "table") /\ Plan[6] = Step("set", "table")
  /\ Plan[7] = Step("ensure", "column") /\ Plan[8] = Step("ensure", "channel")
  /\ Plan[9] = Step("set", "channel") /\ Plan[10] = Step("ensure", "index")
  /\ Plan[11] = Step("upsert", "function") /\ Plan[12] = Step("variable", "functionVariable")
  /\ Plan[13] = Step("deploy", "functionCode") /\ Plan[14] = Step("upsert", "site")
  /\ Plan[15] = Step("variable", "siteVariable") /\ Plan[16] = Step("deploy", "siteCode")
  /\ Plan[17] = Step("domain", "domain")
IsJoined(R, s, t, m, n) ==
  /\ s \o t \in Seq(R) /\ Len(s \o t) = m + n
  /\ \A i \in 1 .. m : (s \o t)[i] = s[i]
  /\ \A i \in 1 .. n : (s \o t)[m + i] = t[i]
LEMMA Joined ==
  ASSUME NEW R, NEW s \in Seq(R), NEW t \in Seq(R), NEW m \in Nat, NEW n \in Nat,
         Len(s) = m, Len(t) = n
  PROVE  IsJoined(R, s, t, m, n)
<1>1. \A i \in 1 .. m + n : (s \o t)[i] = IF i <= m THEN s[i] ELSE t[i - m]
  BY ConcatProperties
<1>2. s \o t \in Seq(R) /\ Len(s \o t) = m + n
  BY ConcatProperties
<1>3. \A i \in 1 .. n : m + i \in 1 .. m + n /\ ~(m + i <= m) /\ m + i - m = i
  OBVIOUS
<1>4. \A i \in 1 .. m : i \in 1 .. m + n /\ i <= m
  OBVIOUS
<1> QED
  BY <1>1, <1>2, <1>3, <1>4 DEF IsJoined
LEMMA PlanIs == PlanIsP
<1> DEFINE R == {Step(kind, of) : kind \in Kinds, of \in Things}
           one == <<Step("store", "store")>>
<1>0. \A kind \in Kinds, of \in Things : Step(kind, of) \in R
  OBVIOUS
<1>t. /\ Things = {"store", "methods", "platform", "database", "table", "column", "channel", "index",
            "function", "functionVariable", "functionCode", "site", "siteVariable", "siteCode", "domain"}
      /\ Kinds = {"store", "set", "ensure", "upsert", "variable", "deploy", "domain"}
  BY DEF Things, Parent, Kinds
<1> HIDE DEF R
<1>1. one \in Seq(R) /\ AuthSteps \in Seq(R) /\ DatabaseSteps \in Seq(R) /\ FunctionSteps \in Seq(R) /\ SiteSteps \in Seq(R)
  <2>1. one \in Seq(R) /\ AuthSteps \in Seq(R)
    BY <1>0, <1>t DEF one, AuthSteps
  <2>2. DatabaseSteps \in Seq(R)
    <3>1. /\ Step("ensure", "database") \in R /\ Step("ensure", "table") \in R
          /\ Step("set", "table") \in R /\ Step("ensure", "column") \in R
          /\ Step("ensure", "channel") \in R /\ Step("set", "channel") \in R
          /\ Step("ensure", "index") \in R
      BY <1>0, <1>t
    <3> QED
      BY <3>1 DEF DatabaseSteps
  <2>3. FunctionSteps \in Seq(R) 
    BY <1>0, <1>t DEF FunctionSteps
  <2>4. SiteSteps \in Seq(R)
    BY <1>0, <1>t DEF SiteSteps
  <2> QED
    BY <2>1, <2>2, <2>3, <2>4
<1> HIDE DEF one
<1>2. Len(one) = 1 /\ Len(AuthSteps) = 2 /\ Len(DatabaseSteps) = 7 /\ Len(FunctionSteps) = 3 /\ Len(SiteSteps) = 4
  BY DEF one, AuthSteps, DatabaseSteps, FunctionSteps, SiteSteps
<1>3. /\ one[1] = Step("store", "store")
      /\ AuthSteps[1] = Step("set", "methods") /\ AuthSteps[2] = Step("ensure", "platform")
  BY DEF one, AuthSteps
<1>h. /\ DatabaseSteps[1] = Step("ensure", "database") /\ DatabaseSteps[2] = Step("ensure", "table")
      /\ DatabaseSteps[3] = Step("set", "table") /\ DatabaseSteps[4] = Step("ensure", "column")
      /\ DatabaseSteps[5] = Step("ensure", "channel") /\ DatabaseSteps[6] = Step("set", "channel")
      /\ DatabaseSteps[7] = Step("ensure", "index")
  BY DEF DatabaseSteps
<1>4. /\ FunctionSteps[1] = Step("upsert", "function") /\ FunctionSteps[2] = Step("variable", "functionVariable")
      /\ FunctionSteps[3] = Step("deploy", "functionCode")
  BY DEF FunctionSteps
<1>5. /\ SiteSteps[1] = Step("upsert", "site") /\ SiteSteps[2] = Step("variable", "siteVariable")
      /\ SiteSteps[3] = Step("deploy", "siteCode") /\ SiteSteps[4] = Step("domain", "domain")
  BY DEF SiteSteps
<1> DEFINE two == one \o AuthSteps
           three == two \o DatabaseSteps
           four == three \o FunctionSteps
           five == four \o SiteSteps
<1> HIDE DEF one
<1> HIDE DEF two
<1>6. /\ two \in Seq(R) /\ Len(two) = 3
      /\ \A i \in 1..1 : two[i] = one[i]
      /\ \A i \in 1..2 : two[1 + i] = AuthSteps[i]
  <2>1. one \in Seq(R) /\ AuthSteps \in Seq(R) /\ Len(one) = 1 /\ Len(AuthSteps) = 2 /\ 1 \in Nat /\ 2 \in Nat
    BY <1>1, <1>2
  <2>2. IsJoined(R, one, AuthSteps, 1, 2)
    BY <2>1, Joined
  <2> QED
    BY <2>2 DEF IsJoined, two
<1> HIDE DEF three
<1>7. /\ three \in Seq(R) /\ Len(three) = 10
      /\ \A i \in 1..3 : three[i] = two[i]
      /\ \A i \in 1..7 : three[3 + i] = DatabaseSteps[i]
  <2>1. two \in Seq(R) /\ DatabaseSteps \in Seq(R) /\ Len(two) = 3 /\ Len(DatabaseSteps) = 7 /\ 3 \in Nat /\ 7 \in Nat
    BY <1>1, <1>2, <1>6
  <2>2. IsJoined(R, two, DatabaseSteps, 3, 7)
    BY <2>1, Joined
  <2> QED
    BY <2>2, 3 + 7 = 10 DEF IsJoined, three
<1> HIDE DEF four
<1>8. /\ four \in Seq(R) /\ Len(four) = 13
      /\ \A i \in 1..10 : four[i] = three[i]
      /\ \A i \in 1..3 : four[10 + i] = FunctionSteps[i]
  <2>1. three \in Seq(R) /\ FunctionSteps \in Seq(R) /\ Len(three) = 10 /\ Len(FunctionSteps) = 3 /\ 10 \in Nat /\ 3 \in Nat
    BY <1>1, <1>2, <1>7
  <2>2. IsJoined(R, three, FunctionSteps, 10, 3)
    BY <2>1, Joined
  <2> QED
    BY <2>2, 10 + 3 = 13 DEF IsJoined, four
<1> HIDE DEF five
<1>9. /\ Len(five) = 17
      /\ \A i \in 1..13 : five[i] = four[i]
      /\ \A i \in 1..4 : five[13 + i] = SiteSteps[i]
  <2>1. four \in Seq(R) /\ SiteSteps \in Seq(R) /\ Len(four) = 13 /\ Len(SiteSteps) = 4 /\ 13 \in Nat /\ 4 \in Nat
    BY <1>1, <1>2, <1>8
  <2>2. IsJoined(R, four, SiteSteps, 13, 4)
    BY <2>1, Joined
  <2> QED
    BY <2>2, 13 + 4 = 17 DEF IsJoined, five
<1>10. Plan = five
  BY DEF Plan, one, two, three, four, five
<1>11. /\ two[1] = one[1] /\ two[2] = AuthSteps[1] /\ two[3] = AuthSteps[2]
  BY <1>6
<1>12. /\ three[1] = two[1] /\ three[2] = two[2] /\ three[3] = two[3]
       /\ three[4] = DatabaseSteps[1] /\ three[5] = DatabaseSteps[2] /\ three[6] = DatabaseSteps[3]
       /\ three[7] = DatabaseSteps[4] /\ three[8] = DatabaseSteps[5] /\ three[9] = DatabaseSteps[6]
       /\ three[10] = DatabaseSteps[7]
  BY <1>7
<1>13. four[11] = FunctionSteps[1] /\ four[12] = FunctionSteps[2] /\ four[13] = FunctionSteps[3]
  BY <1>8
<1>14. five[14] = SiteSteps[1] /\ five[15] = SiteSteps[2] /\ five[16] = SiteSteps[3] /\ five[17] = SiteSteps[4]
  BY <1>9
<1>15. \A i \in 1..10 : five[i] = three[i]
  BY <1>8, <1>9
<1>16. /\ Plan[1] = Step("store", "store") /\ Plan[2] = Step("set", "methods")
       /\ Plan[3] = Step("ensure", "platform")
  BY <1>3, <1>10, <1>11, <1>12, <1>15
<1>17. /\ Plan[4] = Step("ensure", "database") /\ Plan[5] = Step("ensure", "table")
       /\ Plan[6] = Step("set", "table") /\ Plan[7] = Step("ensure", "column")
       /\ Plan[8] = Step("ensure", "channel") /\ Plan[9] = Step("set", "channel")
       /\ Plan[10] = Step("ensure", "index")
  BY <1>h, <1>10, <1>12, <1>15
<1>18. /\ Plan[11] = Step("upsert", "function") /\ Plan[12] = Step("variable", "functionVariable")
       /\ Plan[13] = Step("deploy", "functionCode")
  BY <1>4, <1>9, <1>10, <1>13
<1> QED
  BY <1>5, <1>9, <1>10, <1>14, <1>16, <1>17, <1>18 DEF PlanIsP
InstallStates == [step : 1 .. Len(Plan), phase : {"ask", "create", "write"},
                  status : {"idle", "running", "done", "failed"},
                  excused : BOOLEAN, cleaned : BOOLEAN]
CleanStates == [step : 1 .. Len(Removals), status : {"idle", "running", "done", "failed"},
                excused : BOOLEAN]
InstallShape == installer \in InstallStates /\ cleaner \in CleanStates
  /\ project \in [Things -> {"absent", "wanted", "other"}] /\ readScope \in BOOLEAN
Reconciles == {"set", "upsert", "variable", "deploy"}
StepsDone == {i \in 1 .. Len(Plan) : i < installer.step \/ installer.status = "done"}
AchievedIn(i, p) ==
  /\ p[Plan[i].of] # "absent"
  /\ Plan[i].kind \in Reconciles => p[Plan[i].of] = "wanted"
Achieved(i) == AchievedIn(i, project)
Progress == installer.cleaned \/ \A i \in StepsDone : Achieved(i)
PhaseShape ==
  /\ StepNow.kind \in {"set", "deploy"} => installer.phase = "write"
  /\ StepNow.kind \in {"store", "ensure", "domain"} => installer.phase # "write"
LookHolds ==
  /\ Running /\ installer.phase = "create" /\ StepNow.kind \in {"upsert", "variable", "domain"} =>
        installer.excused \/ ~readScope \/ ~Present(StepNow.of)
  /\ Running /\ installer.phase = "write" /\ StepNow.kind \in {"upsert", "variable"} =>
        installer.cleaned \/ Present(StepNow.of)
MethodsStay == Present("methods")
CleanedExcuses == installer.cleaned => installer.excused
GoesWith(t) == {u \in Things : u = t \/ Parent[u] = t} \cup (IF t = "database" THEN {"column", "channel", "index"} ELSE {})
Removed == {j \in 1 .. Len(Removals) : j < cleaner.step \/ cleaner.status = "done"}
Cleaning ==
  cleaner.status \in {"running", "done"} /\ ~cleaner.excused =>
    ~Running /\ \A j \in Removed : \A u \in GoesWith(Removals[j]) : ~Present(u)
InstallInvariant == InstallShape /\ Progress /\ PhaseShape /\ LookHolds /\ MethodsStay /\ CleanedExcuses
   /\ Cleaning /\ FailsForCause

PlanOrdered ==
  /\ Len(Plan) = 17 /\ Len(Removals) = 6
  /\ \A i \in 1 .. 17 : Plan[i].kind \in Kinds /\ Plan[i].of \in Things
  /\ \A i \in 1 .. 17 :
        Parent[Plan[i].of] = "none" \/ \E j \in 1 .. i - 1 : Plan[j].of = Parent[Plan[i].of]
  /\ \A i \in 1 .. 17 : Plan[i].kind = "set" =>
        Plan[i].of = "methods" \/ \E j \in 1 .. i - 1 : Plan[j].of = Plan[i].of
  /\ \A i \in 1 .. 17 : Plan[i].kind = "domain" => Plan[i].of = "domain"
  /\ \A t \in Things : \E i \in 1 .. 17 : Plan[i].of = t
  /\ Plan[1] = Step("store", "store")
  /\ "methods" \in Things /\ Parent["methods"] = "none" /\ "domain" \in Things

LEMMA PlanIsOrdered == PlanOrdered
<1>t. /\ Things = {"store", "methods", "platform", "database", "table", "column", "channel", "index",
            "function", "functionVariable", "functionCode", "site", "siteVariable", "siteCode", "domain"}
      /\ Kinds = {"store", "set", "ensure", "upsert", "variable", "deploy", "domain"}
  BY DEF Things, Parent, Kinds
<1>r. Len(Removals) = 6
  BY DEF Removals
<1>1. \A i \in 1 .. 17 : i \in {1, 2, 3, 4, 5, 6, 7, 8, 9, 10, 11, 12, 13, 14, 15, 16, 17}
  OBVIOUS
<1>2. \A i \in 1 .. 17 : Plan[i].kind \in Kinds /\ Plan[i].of \in Things
  BY <1>1, <1>t, PlanIs DEF PlanIsP, Step
<1>3. \A i \in 1 .. 17 :
        Parent[Plan[i].of] = "none" \/ \E j \in 1 .. i - 1 : Plan[j].of = Parent[Plan[i].of]
  BY <1>1, PlanIs DEF PlanIsP, Step, Parent
<1>4. \A i \in 1 .. 17 : Plan[i].kind = "set" =>
        Plan[i].of = "methods" \/ \E j \in 1 .. i - 1 : Plan[j].of = Plan[i].of
  BY <1>1, PlanIs DEF PlanIsP, Step
<1>5. \A i \in 1 .. 17 : Plan[i].kind = "domain" => Plan[i].of = "domain"
  BY <1>1, PlanIs DEF PlanIsP, Step
<1>6. \A t \in Things : \E i \in 1 .. 17 : Plan[i].of = t
  BY <1>t, PlanIs DEF PlanIsP, Step
<1>7. Parent["methods"] = "none"
  BY DEF Parent
<1> QED
  BY <1>r, <1>t, <1>2, <1>3, <1>4, <1>5, <1>6, <1>7, PlanIs DEF PlanOrdered, PlanIsP

LEMMA InstallInitHolds == InstallInit => InstallInvariant
<1> SUFFICES ASSUME InstallInit PROVE InstallInvariant
  OBVIOUS
<1> USE InstallerAssumption, PlanIsOrdered DEF PlanOrdered
<1>1. InstallShape
  BY DEF InstallInit, InstallShape, InstallStates, CleanStates, NotStarted, NotCleaning
<1>2. Progress /\ LookHolds /\ CleanedExcuses /\ FailsForCause /\ Cleaning
  BY DEF InstallInit, Progress, StepsDone, LookHolds, CleanedExcuses, FailsForCause, Cleaning, NotStarted, NotCleaning,
     Running
<1>3. PhaseShape
  BY DEF InstallInit, PhaseShape, NotStarted, StepNow, Step
<1>4. MethodsStay
  BY DEF InstallInit, MethodsStay, Present
<1> QED
  BY <1>1, <1>2, <1>3, <1>4 DEF InstallInvariant

\* What is there stays, and what is as wanted stays so.
Keeps == \A t \in Things : Present(t) => project'[t] \in {project[t], "wanted"}
States == {"absent", "wanted", "other"}

LEMMA KeptIsAchieved ==
  ASSUME project \in [Things -> States], Keeps, NEW i \in 1 .. 17, Achieved(i)
  PROVE  Achieved(i)'
<1>1. Plan[i].of \in Things /\ project[Plan[i].of] # "absent"
  BY PlanIsOrdered DEF PlanOrdered, Achieved, AchievedIn, Present
<1>2. project'[Plan[i].of] \in {project[Plan[i].of], "wanted"}
  BY <1>1 DEF Keeps, Present
<1> QED
  BY <1>1, <1>2 DEF Achieved, AchievedIn, Present

LEMMA CreatingKeeps ==
  ASSUME project \in [Things -> States], NEW t \in Things, Creates(t) \/ project' = project
  PROVE  Keeps /\ project' \in [Things -> States]
  BY DEF Keeps, Creates, States

\* What the installer counts on at a step: the ones before it are done.
LEMMA DoneBefore ==
  ASSUME InstallInvariant, ~installer.cleaned
  PROVE  /\ installer.step \in 1 .. 17
         /\ \A j \in 1 .. installer.step - 1 : Achieved(j)
         /\ Belongs(StepNow.of)
         /\ StepNow.kind = "set" => Present(StepNow.of)
<1> USE PlanIsOrdered DEF PlanOrdered
<1>1. installer.step \in 1 .. 17
  BY DEF InstallInvariant, InstallShape, InstallStates
<1>2. \A j \in 1 .. installer.step - 1 : j \in StepsDone
  BY <1>1 DEF StepsDone
<1>3. \A j \in 1 .. installer.step - 1 : Achieved(j)
  BY <1>2 DEF InstallInvariant, Progress
<1>4. \A j \in 1 .. installer.step - 1 : Present(Plan[j].of) /\ Plan[j].of \in Things
  BY <1>1, <1>3 DEF Achieved, AchievedIn, Present
<1>5. Belongs(StepNow.of)
  BY <1>1, <1>4 DEF Belongs, StepNow
<1>6. StepNow.kind = "set" => Present(StepNow.of)
  BY <1>1, <1>4 DEF StepNow, InstallInvariant, MethodsStay
<1> QED
  BY <1>1, <1>3, <1>5, <1>6

\* What is left to show of a step of the running installer.
Onward ==
  /\ installer' \in InstallStates /\ Progress' /\ PhaseShape' /\ LookHolds' /\ CleanedExcuses' /\ FailsForCause'

LEMMA OnwardIsEnough ==
  ASSUME InstallInvariant, Running, UNCHANGED <<readScope, cleaner>>, Keeps, project' \in [Things -> States], Onward
  PROVE  InstallInvariant'
<1>1. InstallShape'
  BY DEF InstallInvariant, InstallShape, Onward, States
<1>2. MethodsStay'
  BY PlanIsOrdered DEF PlanOrdered, InstallInvariant, MethodsStay, Keeps, Present
<1>3. Cleaning'
  BY DEF InstallInvariant, Cleaning
<1> QED
  BY <1>1, <1>2, <1>3 DEF Onward, InstallInvariant

LEMMA NextStepIsOnward ==
  ASSUME InstallInvariant, Running, UNCHANGED readScope, Keeps, NextStep,
         ~installer.cleaned => AchievedIn(installer.step, project')
  PROVE  Onward
<1> USE PlanIsOrdered DEF PlanOrdered
<1>1. /\ installer \in InstallStates /\ installer.step \in 1 .. 17 /\ installer.status = "running"
      /\ project \in [Things -> States]
  BY DEF InstallInvariant, InstallShape, InstallStates, Running, States
<1>2. CASE installer.step = 17
  <2>1. /\ installer' \in InstallStates /\ installer'.step = 17 /\ installer'.status = "done"
        /\ installer'.phase = installer.phase /\ installer'.cleaned = installer.cleaned
        /\ installer'.excused = installer.excused
    BY <1>1, <1>2 DEF NextStep, InstallStates
  <2>2. Progress'
    <3>1. ASSUME ~installer.cleaned, NEW i \in 1 .. 17 PROVE Achieved(i)'
      <4>1. CASE i = 17
        BY <1>2, <3>1, <4>1 DEF Achieved
      <4>2. CASE i < 17
        BY <1>1, <1>2, <3>1, <4>2, DoneBefore, KeptIsAchieved
      <4> QED
        BY <4>1, <4>2
    <3> QED
      BY <2>1, <3>1 DEF Progress, StepsDone
  <2>3. PhaseShape'
    BY <1>1, <1>2, <2>1 DEF InstallInvariant, PhaseShape, StepNow
  <2>4. LookHolds' /\ CleanedExcuses' /\ FailsForCause'
    BY <2>1 DEF LookHolds, CleanedExcuses, FailsForCause, Running, InstallInvariant
  <2> QED
    BY <2>1, <2>2, <2>3, <2>4 DEF Onward
<1>3. CASE installer.step # 17
  <2>0. installer.step + 1 \in 1 .. 17 /\ FirstPhase(installer.step + 1) \in {"ask", "write"}
    BY <1>1, <1>3 DEF FirstPhase
  <2>1. /\ installer' \in InstallStates /\ installer'.step = installer.step + 1
        /\ installer'.status = "running"
        /\ installer'.phase = FirstPhase(installer.step + 1) /\ installer'.cleaned = installer.cleaned
        /\ installer'.excused = installer.excused
    BY <1>1, <1>3, <2>0 DEF NextStep, InstallStates
  <2>2. Progress'
    <3>1. ASSUME ~installer.cleaned, NEW i \in 1 .. installer.step PROVE Achieved(i)'
      <4>1. CASE i = installer.step
        BY <3>1, <4>1 DEF Achieved
      <4>2. CASE i < installer.step
        BY <1>1, <3>1, <4>2, DoneBefore, KeptIsAchieved
      <4> QED
        BY <1>1, <4>1, <4>2
    <3>2. StepsDone' = 1 .. installer.step
      BY <1>1, <2>0, <2>1 DEF StepsDone
    <3> QED
      BY <2>1, <3>1, <3>2 DEF Progress
  <2>3. PhaseShape'
    BY <2>0, <2>1 DEF PhaseShape, StepNow, FirstPhase
  <2>4. LookHolds'
    BY <2>0, <2>1 DEF LookHolds, StepNow, FirstPhase
  <2>5. CleanedExcuses' /\ FailsForCause'
    BY <2>1 DEF CleanedExcuses, FailsForCause, InstallInvariant
  <2> QED
    BY <2>1, <2>2, <2>3, <2>4, <2>5 DEF Onward
<1> QED
  BY <1>2, <1>3

\* A step that stays where it is: another phase, a failure, a lost request.
LEMMA StayingIsOnward ==
  ASSUME InstallInvariant, Running, UNCHANGED readScope, Keeps, installer' \in InstallStates,
         installer'.step = installer.step, installer'.cleaned = installer.cleaned,
         installer.excused => installer'.excused,
         \/ /\ installer'.status = "failed" /\ installer'.phase = installer.phase
            /\ installer'.excused \/ ~readScope
         \/ /\ installer'.status = "running"
            /\ \/ /\ installer'.phase = "create" /\ StepNow.kind \notin {"set", "deploy"}
                  /\ installer'.excused \/ ~readScope \/ ~Present(StepNow.of)' \/ StepNow.kind \in {"store", "ensure"}
               \/ /\ installer'.phase = "write" /\ StepNow.kind \in {"upsert", "variable"}
                  /\ Present(StepNow.of)'
  PROVE  Onward
<1> USE PlanIsOrdered DEF PlanOrdered
<1>1. /\ installer.step \in 1 .. 17 /\ installer.status = "running" /\ project \in [Things -> States]
  BY DEF InstallInvariant, InstallShape, InstallStates, Running, States
<1>2. Progress'
  <2>1. ASSUME ~installer.cleaned, NEW i \in 1 .. installer.step - 1 PROVE Achieved(i)'
    BY <1>1, <2>1, DoneBefore, KeptIsAchieved
  <2>2. StepsDone' = 1 .. installer.step - 1
    BY <1>1 DEF StepsDone
  <2> QED
    BY <2>1, <2>2 DEF Progress
<1>3. StepNow' = StepNow
  BY DEF StepNow
<1>4. PhaseShape'
  BY <1>3 DEF PhaseShape, InstallInvariant
<1>5. LookHolds'
  BY <1>3 DEF LookHolds, Running
<1>6. CleanedExcuses' /\ FailsForCause'
  BY DEF CleanedExcuses, FailsForCause, InstallInvariant
<1> QED
  BY <1>2, <1>4, <1>5, <1>6 DEF Onward

LEMMA InstallStep == InstallInvariant /\ [InstallNext]_installVars => InstallInvariant'
<1> SUFFICES ASSUME InstallInvariant, [InstallNext]_installVars PROVE InstallInvariant'
  OBVIOUS
<1> USE InstallerAssumption
<1>0. /\ installer \in InstallStates /\ cleaner \in CleanStates /\ project \in [Things -> States]
      /\ readScope \in BOOLEAN /\ installer.step \in 1 .. 17 /\ cleaner.step \in 1 .. 6
      /\ StepNow.kind \in Kinds /\ StepNow.of \in Things
  BY PlanIsOrdered DEF PlanOrdered, InstallInvariant, InstallShape, InstallStates, CleanStates, States, StepNow
<1>1. CASE RunInstaller
  <2>1. /\ installer' \in InstallStates /\ installer'.step = 1 /\ installer'.status = "running"
        /\ installer'.phase = "ask" /\ installer'.cleaned = FALSE
        /\ cleaner' \in CleanStates /\ cleaner'.excused = TRUE
        /\ UNCHANGED <<readScope, project>>
    <3>1. 1 \in 1 .. Len(Plan)
      BY PlanIsOrdered DEF PlanOrdered
    <3>2. /\ installer' = [NotStarted EXCEPT !.status = "running"] /\ UNCHANGED <<readScope, project>>
          /\ cleaner' = [cleaner EXCEPT !.excused = TRUE]
      BY <1>1 DEF RunInstaller
    <3>3. cleaner' \in CleanStates /\ cleaner'.excused = TRUE
      BY <1>0, <3>2 DEF CleanStates
    <3> QED
      BY <3>1, <3>2, <3>3 DEF NotStarted, InstallStates
  <2>2. InstallShape' /\ MethodsStay' /\ Cleaning' /\ CleanedExcuses' /\ FailsForCause'
    BY <2>1 DEF InstallInvariant, InstallShape, MethodsStay, Cleaning, CleanedExcuses, FailsForCause, Present
  <2>3. Progress' /\ LookHolds'
    BY <2>1 DEF Progress, StepsDone, LookHolds
  <2>4. PhaseShape'
    BY <2>1, PlanIsOrdered DEF PlanOrdered, PhaseShape, StepNow, Step
  <2> QED
    BY <2>2, <2>3, <2>4 DEF InstallInvariant
<1>2. ASSUME Running, UNCHANGED <<readScope, cleaner>>, Keeps, project' \in [Things -> States], Onward
      PROVE  InstallInvariant'
  BY <1>2, OnwardIsEnough
<1>k. ASSUME UNCHANGED project PROVE Keeps /\ project' \in [Things -> States] /\ Present(StepNow.of)' = Present(StepNow.of)'
  BY <1>0, <1>k DEF Keeps
<1>p. ASSUME Running, NEW p \in {"create", "write"}, Phase(p)
      PROVE  /\ installer' \in InstallStates /\ installer'.step = installer.step
             /\ installer'.cleaned = installer.cleaned /\ installer'.excused = installer.excused
             /\ installer'.status = "running" /\ installer'.phase = p
  BY <1>0, <1>p DEF Phase, InstallStates, Running
<1>f. ASSUME Running, Fails
      PROVE  /\ installer' \in InstallStates /\ installer'.step = installer.step
             /\ installer'.cleaned = installer.cleaned /\ installer'.excused = installer.excused
             /\ installer'.status = "failed" /\ installer'.phase = installer.phase
  BY <1>0, <1>f DEF Fails, InstallStates, Running
\* A look that finds its thing, of a kind that keeps what is there.
<1>a. ASSUME Present(StepNow.of), StepNow.kind \in {"store", "ensure", "domain"}, UNCHANGED project
      PROVE  AchievedIn(installer.step, project')
  BY <1>a DEF AchievedIn, StepNow, Present, Reconciles
<1>c. ASSUME Creates(StepNow.of) PROVE AchievedIn(installer.step, project')
  BY <1>0, <1>c DEF AchievedIn, StepNow, Creates
<1>3. CASE AskFirst
  <2>1. /\ Running /\ installer.phase = "ask" /\ UNCHANGED <<readScope, project, cleaner>>
    BY <1>3 DEF AskFirst
  <2>2. Present(StepNow.of)' = Present(StepNow.of) \/ installer'.step # installer.step
    BY <2>1 DEF Present, StepNow
  <2>3. CASE NextStep /\ Present(StepNow.of) /\ StepNow.kind \in {"store", "ensure", "domain"}
    BY <1>2, <1>a, <1>k, <2>1, <2>3, NextStepIsOnward
  <2>4. CASE Phase("create") /\ (~readScope \/ ~Present(StepNow.of)) /\ StepNow.kind \notin {"set", "deploy"}
    <3>1. Onward
      <4>1. Keeps
        BY <1>k, <2>1
      <4> QED
        BY <1>p, <2>1, <2>2, <2>4, <4>1, StayingIsOnward
    <3> QED
      BY <1>2, <1>k, <2>1, <3>1
  <2>5. CASE Phase("write") /\ Present(StepNow.of) /\ StepNow.kind \in {"upsert", "variable"}
    <3>1. Onward
      <4>1. Keeps
        BY <1>k, <2>1
      <4> QED
        BY <1>p, <2>1, <2>2, <2>5, <4>1, StayingIsOnward
    <3> QED
      BY <1>2, <1>k, <2>1, <3>1
  <2>6. CASE Fails /\ (~readScope \/ ~Belongs(StepNow.of))
    <3>1. installer.excused \/ ~readScope
      BY <2>6, DoneBefore DEF InstallInvariant, CleanedExcuses
    <3>2. Onward
      <4>1. Keeps
        BY <1>k, <2>1
      <4> QED
        BY <1>f, <2>1, <2>6, <3>1, <4>1, StayingIsOnward
    <3> QED
      BY <1>2, <1>k, <2>1, <3>2
  <2> QED
    BY <1>3, <2>3, <2>4, <2>5, <2>6 DEF AskFirst
<1>4. CASE AskLost
  <2>1. /\ Running /\ installer.phase = "ask" /\ UNCHANGED <<readScope, project, cleaner>>
    BY <1>4 DEF AskLost
  <2>2. /\ installer' \in InstallStates /\ installer'.step = installer.step
        /\ installer'.cleaned = installer.cleaned /\ installer'.excused = TRUE
        /\ \/ /\ installer'.status = "failed" /\ installer'.phase = installer.phase
           \/ /\ installer'.status = "running" /\ installer'.phase = "create"
              /\ StepNow.kind \in {"ensure", "upsert"}
    BY <1>0, <1>4 DEF AskLost, InstallStates, Running
  <2>3. Keeps
    BY <1>k, <2>1
  <2>4. Onward
    BY <2>1, <2>2, <2>3, StayingIsOnward
  <2> QED
    BY <1>2, <1>k, <2>1, <2>4
<1>5. CASE CreateIt
  <2>1. /\ Running /\ installer.phase = "create" /\ UNCHANGED <<readScope, cleaner>>
        /\ project' = project \/ Creates(StepNow.of)
    BY <1>5 DEF CreateIt
  <2>2. Keeps /\ project' \in [Things -> States]
    BY <1>0, <2>1, CreatingKeeps
  <2>3. CASE NextStep /\ Present(StepNow.of) /\ DuplicateAccepted(StepNow.kind) /\ UNCHANGED project
    <3>1. StepNow.kind \in {"store", "ensure", "domain"}
      BY <2>3 DEF DuplicateAccepted
    <3> QED
      BY <1>2, <1>a, <2>1, <2>2, <2>3, <3>1, NextStepIsOnward
  <2>4. CASE NextStep /\ Creates(StepNow.of)
    BY <1>2, <1>c, <2>1, <2>2, <2>4, NextStepIsOnward
  <2>5. CASE /\ Fails
             /\ \/ Present(StepNow.of) /\ ~DuplicateAccepted(StepNow.kind)
                \/ ~Present(StepNow.of) /\ ~Belongs(StepNow.of)
    <3>1. installer.excused \/ ~readScope
      <4>1. CASE Present(StepNow.of) /\ ~DuplicateAccepted(StepNow.kind)
        <5>1. StepNow.kind \in {"upsert", "variable", "domain"}
          BY <1>0, <2>1, <4>1 DEF Kinds, DuplicateAccepted, InstallInvariant, PhaseShape
        <5> QED
          BY <2>1, <4>1, <5>1 DEF InstallInvariant, LookHolds
      <4>2. CASE ~Belongs(StepNow.of)
        BY <4>2, DoneBefore DEF InstallInvariant, CleanedExcuses
      <4> QED
        BY <2>5, <4>1, <4>2
    <3>2. Onward
      BY <1>f, <2>1, <2>2, <2>5, <3>1, StayingIsOnward
    <3> QED
      BY <1>2, <2>1, <2>2, <3>2
  <2> QED
    BY <1>5, <2>3, <2>4, <2>5 DEF CreateIt
<1>6. CASE WriteIt
  <2>1. /\ Running /\ installer.phase = "write" /\ UNCHANGED <<readScope, cleaner>>
        /\ project' = project \/ Creates(StepNow.of)
    BY <1>6 DEF WriteIt
  <2>2. Keeps /\ project' \in [Things -> States]
    BY <1>0, <2>1, CreatingKeeps
  <2>3. CASE NextStep /\ Creates(StepNow.of)
    BY <1>2, <1>c, <2>1, <2>2, <2>3, NextStepIsOnward
  <2>4. CASE Fails /\ ~Writable
    <3>1. installer.excused
      <4>1. StepNow.kind \in {"set", "upsert", "variable", "deploy"}
        BY <1>0, <2>1 DEF Kinds, InstallInvariant, PhaseShape
      <4>2. CASE installer.cleaned
        BY <4>2 DEF InstallInvariant, CleanedExcuses
      <4>3. CASE ~installer.cleaned
        <5>1. Belongs(StepNow.of) /\ (StepNow.kind = "set" => Present(StepNow.of))
          BY <4>3, DoneBefore
        <5>2. StepNow.kind \in {"upsert", "variable"} => Present(StepNow.of)
          BY <2>1, <4>3 DEF InstallInvariant, LookHolds
        <5> QED
          BY <2>4, <4>1, <5>1, <5>2 DEF Writable
      <4> QED
        BY <4>2, <4>3
    <3>2. Onward
      BY <1>f, <2>1, <2>2, <2>4, <3>1, StayingIsOnward
    <3> QED
      BY <1>2, <2>1, <2>2, <3>2
  <2> QED
    BY <1>6, <2>3, <2>4 DEF WriteIt
<1>7. CASE WriteLost
  <2>1. /\ Running /\ UNCHANGED <<readScope, cleaner>>
        /\ project' = project \/ Creates(StepNow.of)
    BY <1>7 DEF WriteLost
  <2>2. Keeps /\ project' \in [Things -> States]
    BY <1>0, <2>1, CreatingKeeps
  <2>3. /\ installer' \in InstallStates /\ installer'.step = installer.step
        /\ installer'.cleaned = installer.cleaned /\ installer'.excused = TRUE
        /\ installer'.status = "failed" /\ installer'.phase = installer.phase
    BY <1>0, <1>7 DEF WriteLost, InstallStates
  <2>4. Onward
    BY <2>1, <2>2, <2>3, StayingIsOnward
  <2> QED
    BY <1>2, <2>1, <2>2, <2>4
<1>8. CASE Release
  <2>1. /\ ~Running /\ installer' = NotStarted /\ UNCHANGED <<readScope, cleaner>>
        /\ project' = [t \in Things |-> IF Present(t) THEN "other" ELSE "absent"]
    BY <1>8 DEF Release
  <2>2. /\ installer' \in InstallStates /\ installer'.step = 1 /\ installer'.status = "idle"
        /\ installer'.phase = "ask" /\ installer'.cleaned = FALSE /\ project' \in [Things -> States]
        /\ \A t \in Things : Present(t)' <=> Present(t)
    BY <2>1, PlanIsOrdered DEF PlanOrdered, NotStarted, InstallStates, States, Present
  <2>3. InstallShape' /\ CleanedExcuses' /\ FailsForCause'
    BY <2>1, <2>2 DEF InstallInvariant, InstallShape, CleanedExcuses, FailsForCause, States
  <2>4. Progress' /\ LookHolds'
    BY <2>2 DEF Progress, StepsDone, LookHolds, Running
  <2>5. PhaseShape'
    BY <2>2, PlanIsOrdered DEF PlanOrdered, PhaseShape, StepNow, Step
  <2>6. MethodsStay'
    BY <2>2, PlanIsOrdered DEF PlanOrdered, InstallInvariant, MethodsStay
  <2>7. Cleaning'
    <3>1. \A j \in Removed : GoesWith(Removals[j]) \subseteq Things
      BY DEF GoesWith, Things, Parent
    <3>2. Removed' = Removed /\ ~Running'
      BY <2>1, <2>2 DEF Removed, Running
    <3>3. \A j \in Removed : \A u \in GoesWith(Removals[j]) : ~Present(u) => ~Present(u)'
      BY <2>2, <3>1
    <3> QED
      BY <2>1, <3>2, <3>3 DEF InstallInvariant, Cleaning
  <2> QED
    BY <2>3, <2>4, <2>5, <2>6, <2>7 DEF InstallInvariant
<1>9. ASSUME NEW t \in SolutionThings, SolutionCreates(t) PROVE InstallInvariant'
  <2>1. /\ t \in Things /\ t # "domain" /\ t # "methods"
    BY DEF SolutionThings, Things, Parent
  <2>2. /\ ~Present(t) /\ UNCHANGED readScope /\ project' = [project EXCEPT ![t] = "other"]
        /\ cleaner' \in CleanStates /\ cleaner'.excused = TRUE
    BY <1>0, <1>9 DEF SolutionCreates, CleanStates
  <2>3. MeetsConflict(t) \in BOOLEAN /\ installer.excused \in BOOLEAN
    BY <1>0 DEF MeetsConflict, InstallStates, Running
  <2>4. /\ installer' \in InstallStates /\ installer'.step = installer.step /\ installer'.status = installer.status
        /\ installer'.phase = installer.phase /\ installer'.cleaned = installer.cleaned
        /\ installer'.excused = (installer.excused \/ MeetsConflict(t))
    BY <1>0, <1>9, <2>3 DEF SolutionCreates, InstallStates
  <2>5. Keeps /\ project' \in [Things -> States]
    BY <1>0, <2>1, <2>2 DEF Keeps, Present, States
  <2>6. InstallShape' /\ Cleaning' /\ CleanedExcuses' /\ FailsForCause' /\ PhaseShape'
    BY <2>2, <2>4, <2>5 DEF InstallInvariant, InstallShape, Cleaning, CleanedExcuses, FailsForCause, PhaseShape,
       StepNow, States
  <2>7. Progress'
    <3>1. \A i \in StepsDone : i \in 1 .. 17
      BY PlanIsOrdered DEF PlanOrdered, StepsDone
    <3>2. StepsDone' = StepsDone
      BY <2>4 DEF StepsDone
    <3> QED
      BY <1>0, <2>4, <2>5, <3>1, <3>2, KeptIsAchieved DEF InstallInvariant, Progress
  <2>8. MethodsStay'
    BY <1>0, <2>1, <2>2 DEF InstallInvariant, MethodsStay, Present
  <2>9. LookHolds'
    <3>1. StepNow' = StepNow /\ Running' = Running
      BY <2>4 DEF StepNow, Running
    <3>2. /\ StepNow.of # t => (Present(StepNow.of)' <=> Present(StepNow.of))
          /\ Present(StepNow.of) => Present(StepNow.of)'
      BY <1>0, <2>1, <2>2, <3>1 DEF Present
    <3>3. StepNow.of = t /\ Running /\ installer.phase = "create" /\ StepNow.kind \in {"upsert", "variable"}
            => MeetsConflict(t)
      BY DEF MeetsConflict
    <3>4. StepNow.kind = "domain" => StepNow.of # t
      BY <1>0, <2>1, PlanIsOrdered DEF PlanOrdered, StepNow
    <3> QED
      BY <2>2, <2>4, <3>1, <3>2, <3>3, <3>4 DEF InstallInvariant, LookHolds
  <2> QED
    BY <2>6, <2>7, <2>8, <2>9 DEF InstallInvariant
<1>10. CASE RunCleaner
  <2>1. /\ UNCHANGED <<readScope, project, installer>> /\ cleaner' \in CleanStates
        /\ cleaner'.step = 1 /\ cleaner'.status = "running" /\ cleaner'.excused = Running
    <3>1. Running \in BOOLEAN
      BY DEF Running
    <3> QED
      <4>1. 1 \in 1 .. Len(Removals)
        BY PlanIsOrdered DEF PlanOrdered
      <4>2. /\ cleaner' = [NotCleaning EXCEPT !.status = "running", !.excused = Running]
            /\ UNCHANGED <<readScope, project, installer>>
        BY <1>10 DEF RunCleaner
      <4> QED
        BY <3>1, <4>1, <4>2 DEF NotCleaning, CleanStates
  <2>2. Cleaning'
    <3>1. Running' = Running /\ Removed' = {}
      BY <2>1, PlanIsOrdered DEF PlanOrdered, Running, Removed
    <3> QED
      BY <2>1, <3>1 DEF Cleaning
  <2> QED
    BY <2>1, <2>2 DEF InstallInvariant, InstallShape, Progress, StepsDone, Achieved, AchievedIn, Present, PhaseShape, StepNow,
       LookHolds, Running, MethodsStay, CleanedExcuses, FailsForCause
\* What the installer keeps while the cleaner takes things away.
<1>11. ASSUME NEW P \in {project, Without(Removals[cleaner.step])}, project' = P, UNCHANGED readScope,
              installer' = [installer EXCEPT !.excused = TRUE, !.cleaned = TRUE], cleaner' \in CleanStates
       PROVE  /\ InstallShape' /\ Progress' /\ PhaseShape' /\ LookHolds' /\ MethodsStay' /\ CleanedExcuses'
              /\ FailsForCause'
              /\ Running' <=> Running
              /\ \A u \in Things : ~Present(u) => ~Present(u)'
              /\ P = Without(Removals[cleaner.step]) => \A u \in GoesWith(Removals[cleaner.step]) : ~Present(u)'
  <2>0. Removals[cleaner.step] \in {"domain", "site", "function", "store", "database", "platform"}
    BY <1>0 DEF Removals
  <2>1. /\ installer' \in InstallStates /\ installer'.step = installer.step /\ installer'.status = installer.status
        /\ installer'.phase = installer.phase /\ installer'.cleaned = TRUE /\ installer'.excused = TRUE
    BY <1>0, <1>11 DEF InstallStates
  <2>2. \A u \in Things : project'[u] \in {project[u], "absent"}
    BY <1>0, <1>11 DEF Without
  <2>3. project' \in [Things -> States]
    BY <1>0, <1>11 DEF Without, States
  <2>4. InstallShape' /\ Progress' /\ PhaseShape' /\ CleanedExcuses' /\ FailsForCause' /\ LookHolds'
    BY <1>11, <2>1, <2>3 DEF InstallInvariant, InstallShape, Progress, PhaseShape, StepNow, CleanedExcuses, FailsForCause,
       LookHolds, States
  <2>5. MethodsStay'
    <3>1. Without(Removals[cleaner.step])["methods"] = project["methods"]
      BY <2>0, PlanIsOrdered DEF PlanOrdered, Without
    <3> QED
      BY <1>11, <3>1 DEF InstallInvariant, MethodsStay, Present
  <2>6. P = Without(Removals[cleaner.step]) => \A u \in GoesWith(Removals[cleaner.step]) : ~Present(u)'
    <3>1. {"column", "channel", "index"} \subseteq Things
      BY DEF Things, Parent
    <3> QED
      BY <1>11, <3>1 DEF Without, GoesWith, Present
  <2> QED
    BY <2>1, <2>2, <2>4, <2>5, <2>6 DEF Running, Present
<1>12. CASE CleanNext
  <2>1. CASE /\ cleaner' = [cleaner EXCEPT !.status = "failed"] /\ UNCHANGED <<project, installer, readScope>>
    <3>1. cleaner' \in CleanStates /\ cleaner'.status = "failed"
      BY <1>0, <2>1 DEF CleanStates
    <3> QED
      BY <2>1, <3>1 DEF InstallInvariant, InstallShape, Progress, StepsDone, Achieved, AchievedIn, Present, PhaseShape, StepNow,
         LookHolds, Running, MethodsStay, CleanedExcuses, FailsForCause, Cleaning
  <2>2. CASE /\ project' = Without(Removals[cleaner.step]) /\ UNCHANGED readScope
             /\ installer' = [installer EXCEPT !.excused = TRUE, !.cleaned = TRUE]
             /\ cleaner' = IF cleaner.step = Len(Removals)
                        THEN [cleaner EXCEPT !.status = "done"]
                        ELSE [cleaner EXCEPT !.step = @ + 1]
    <3>0. Len(Removals) = 6 /\ cleaner.status = "running"
      BY <1>12, PlanIsOrdered DEF PlanOrdered, CleanNext
    <3>1. /\ cleaner' \in CleanStates /\ cleaner'.excused = cleaner.excused
          /\ \/ cleaner.step = 6 /\ cleaner'.status = "done" /\ cleaner'.step = 6
             \/ cleaner.step # 6 /\ cleaner'.status = "running" /\ cleaner'.step = cleaner.step + 1
      BY <1>0, <2>2, <3>0 DEF CleanStates
    <3>2. Removed' = Removed \cup {cleaner.step}
      BY <1>0, <3>0, <3>1 DEF Removed
    <3>3. /\ InstallShape' /\ Progress' /\ PhaseShape' /\ LookHolds' /\ MethodsStay' /\ CleanedExcuses'
          /\ FailsForCause'
          /\ Running' <=> Running
          /\ \A u \in Things : ~Present(u) => ~Present(u)'
          /\ \A u \in GoesWith(Removals[cleaner.step]) : ~Present(u)'
      BY <1>11, <2>2, <3>1
    <3>4. \A j \in 1 .. 6 : GoesWith(Removals[j]) \subseteq Things
      BY DEF GoesWith, Things, Parent
    <3>5. Cleaning'
      <4>1. SUFFICES ASSUME ~cleaner.excused
                     PROVE  ~Running /\ \A j \in Removed' : \A u \in GoesWith(Removals[j]) : ~Present(u)'
        BY <3>1, <3>3 DEF Cleaning
      <4>2. ~Running /\ \A j \in Removed : \A u \in GoesWith(Removals[j]) : ~Present(u)
        BY <3>0, <4>1 DEF InstallInvariant, Cleaning
      <4>3. Removed \subseteq 1 .. 6
        BY <3>0 DEF Removed
      <4> QED
        BY <3>2, <3>3, <3>4, <4>2, <4>3
    <3> QED
      BY <3>3, <3>5 DEF InstallInvariant
  <2> QED
    BY <1>12, <2>1, <2>2 DEF CleanNext
<1>13. CASE CleanLost
  <2>1. /\ cleaner' \in CleanStates /\ cleaner'.status = "failed"
        /\ project' \in {project, Without(Removals[cleaner.step])} /\ UNCHANGED readScope
        /\ installer' = [installer EXCEPT !.excused = TRUE, !.cleaned = TRUE]
    BY <1>0, <1>13 DEF CleanLost, CleanStates
  <2>2. Cleaning'
    BY <2>1 DEF Cleaning
  <2> QED
    BY <1>11, <2>1, <2>2 DEF InstallInvariant
<1>14. CASE UNCHANGED installVars
  BY <1>14 DEF installVars, InstallInvariant, InstallShape, Progress, StepsDone, Achieved, AchievedIn, Present, PhaseShape, StepNow,
       LookHolds, Running, MethodsStay, CleanedExcuses, FailsForCause, Cleaning, Removed
<1> QED
  BY <1>1, <1>3, <1>4, <1>5, <1>6, <1>7, <1>8, <1>9, <1>10, <1>12, <1>13, <1>14 DEF InstallNext

LEMMA InvariantIsRepeatable == InstallInvariant => InstallTypeOK /\ InstallRepeatable
<1> SUFFICES ASSUME InstallInvariant PROVE InstallTypeOK /\ InstallRepeatable
  OBVIOUS
<1> USE PlanIsOrdered DEF PlanOrdered
<1>1. InstallTypeOK
  BY DEF InstallInvariant, InstallShape, InstallStates, CleanStates, InstallTypeOK
<1>2. DoneIsComplete
  <2>1. SUFFICES ASSUME installer.status = "done", ~installer.cleaned
                 PROVE  (\A t \in Things : Present(t)) /\ (\A t \in Reconciled : project[t] = "wanted")
    BY DEF DoneIsComplete
  <2>2. \A i \in 1 .. 17 : Achieved(i)
    BY <2>1 DEF InstallInvariant, Progress, StepsDone
  <2>3. \A t \in Things : Present(t)
    BY <2>2 DEF Achieved, AchievedIn, Present
  <2>4. \A t \in Reconciled : project[t] = "wanted"
    <3>1. ASSUME NEW i \in 1 .. 17, Plan[i].kind \notin {"store", "ensure", "domain"}
          PROVE  project[Plan[i].of] = "wanted"
      BY <2>2, <3>1 DEF Achieved, AchievedIn, Kinds, Reconciles
    <3> QED
      BY <3>1 DEF Reconciled
  <2> QED
    BY <2>3, <2>4
<1>3. StoreFirst
  <2>1. SUFFICES ASSUME installer.step > 1, ~installer.cleaned PROVE Present("store")
    BY DEF StoreFirst
  <2>2. Achieved(1)
    BY <2>1, DoneBefore
  <2> QED
    BY <2>2 DEF Achieved, AchievedIn, Present, Step
<1>4. CleanLeavesNothing
  <2>1. SUFFICES ASSUME cleaner.status = "done", ~cleaner.excused, NEW t \in Things \ {"methods"}
                 PROVE  ~Present(t)
    BY DEF CleanLeavesNothing
  <2>2. \A j \in 1 .. 6 : \A u \in GoesWith(Removals[j]) : ~Present(u)
    BY <2>1 DEF InstallInvariant, Cleaning, Removed
  <2>3. \E j \in 1 .. 6 : t \in GoesWith(Removals[j])
    <3>1. /\ Removals[1] = "domain" /\ Removals[2] = "site" /\ Removals[3] = "function" /\ Removals[4] = "store"
          /\ Removals[5] = "database" /\ Removals[6] = "platform"
      BY DEF Removals
    <3>2. t \in {"store", "platform", "database", "table", "column", "channel", "index", "function", "functionVariable",
                 "functionCode", "site", "siteVariable", "siteCode", "domain"}
      BY <2>1 DEF Things, Parent
    <3>3. \A v \in Things : v \in GoesWith(v) /\ (Parent[v] # "none" => v \in GoesWith(Parent[v]))
      BY DEF GoesWith
    <3>4. {"column", "channel", "index"} \subseteq GoesWith("database")
      BY DEF GoesWith
    <3>5. /\ Parent["siteVariable"] = "site" /\ Parent["siteCode"] = "site"
          /\ Parent["functionVariable"] = "function" /\ Parent["functionCode"] = "function"
          /\ Parent["table"] = "database"
      BY DEF Parent
    <3> QED
      BY <2>1, <3>1, <3>2, <3>3, <3>4, <3>5
  <2> QED
    BY <2>2, <2>3
<1> QED
  BY <1>1, <1>2, <1>3, <1>4 DEF InstallRepeatable, InstallInvariant

LEMMA InstallInvariantHolds == InstallSpec => []InstallInvariant
  BY InstallInitHolds, InstallStep, PTL DEF InstallSpec

\* Every variable of the installer and the cleaner keeps its type.
THEOREM InstallTypesHold == InstallSpec => []InstallTypeOK
  BY InvariantIsRepeatable, InstallInvariantHolds, PTL

\* Installing and cleaning can be repeated and interrupted at any step, any number
\* of times: a run that ends well leaves everything there and as wanted, the store
\* is made first, a run fails only for a cause, and a cleaning by itself leaves only
\* the auth methods.
THEOREM InstallStaysRepeatable == InstallSpec => []InstallRepeatable
  BY InvariantIsRepeatable, InstallInvariantHolds, PTL
===============================================================================
