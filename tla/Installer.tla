-------------------------------- MODULE Installer -------------------------------
(***************************************************************************)
(* The deployment of the template to an Appwrite project (infra/*.mjs):    *)
(* the installer, a sequence of requests that keep, create or reconcile    *)
(* the project's resources; the native solution plan, which may create the *)
(* same ones at the same time; and the cleaner. A request, its answer or   *)
(* the installer itself may be lost between any two steps, a failed        *)
(* installer is run again, and a key may lack the scopes to read. One      *)
(* platform, table, index and variable stand for all of their kind, which  *)
(* are treated alike, in this order; and one column for all but            *)
(* farms.halowChannel, the only column that is updated.                    *)
(***************************************************************************)
EXTENDS Naturals, Sequences

CONSTANTS MaxRuns, MaxEvents   \* bounds; events are all that disturbs a run

ASSUME InstallerAssumption == {MaxRuns, MaxEvents} \subseteq Nat

VARIABLES
  readScope,   \* APPWRITE_API_KEY may read
  project,     \* each resource: absent, as this release wants it, or another way
  installer,   \* install-appwrite.mjs: its step, and what disturbed it
  cleaner,     \* clean-appwrite.mjs
  happened     \* for the bounds

installVars == <<readScope, project, installer, cleaner, happened>>

\* What a resource belongs to and is deleted with.
Parent ==
  [store |-> "none", methods |-> "none", platform |-> "none", database |-> "none",
   table |-> "database", column |-> "table", channel |-> "table", index |-> "column",
   function |-> "none", functionVariable |-> "function", functionCode |-> "function",
   site |-> "none", siteVariable |-> "site", siteCode |-> "site", domain |-> "site"]

Things == DOMAIN Parent
Step(kind, of) == [kind |-> kind, of |-> of]

\* What an "ensure" finds it keeps; "set", "upsert" and "variable" reconcile;
\* "deploy" uploads the code.
AuthSteps == <<Step("set", "methods"), Step("ensure", "platform")>>

DatabaseSteps ==
  <<Step("ensure", "database"), Step("ensure", "table"), Step("set", "table"),
    Step("ensure", "column"), Step("ensure", "channel"), Step("set", "channel"),
    Step("ensure", "index")>>

FunctionSteps ==
  <<Step("upsert", "function"), Step("variable", "functionVariable"),
    Step("deploy", "functionCode")>>

SiteSteps ==
  <<Step("upsert", "site"), Step("variable", "siteVariable"),
    Step("deploy", "siteCode"), Step("domain", "domain")>>

\* install-appwrite.mjs.
Plan ==
  <<Step("store", "store")>> \o AuthSteps \o DatabaseSteps \o FunctionSteps \o SiteSteps

\* clean-appwrite.mjs.
Removals == <<"domain", "site", "function", "store", "database", "platform">>

\* What the solution plan of appwrite.config.json has in common with the installer.
SolutionThings ==
  {"store", "platform", "database", "table", "column", "channel", "index", "function",
   "functionVariable"}

NotStarted == [step |-> 1, phase |-> "ask", status |-> "idle", excused |-> FALSE,
           cleaned |-> FALSE]
NotCleaning == [step |-> 1, status |-> "idle", excused |-> FALSE]

InstallInit ==
  /\ readScope \in BOOLEAN
  /\ project = [t \in Things |-> IF t = "methods" THEN "other" ELSE "absent"]
  /\ installer = NotStarted /\ cleaner = NotCleaning
  /\ happened = [runs |-> 0, events |-> 0]

Present(t) == project[t] # "absent"
Belongs(t) == Parent[t] \in {"none"} \cup {u \in Things : Present(u)}
Creates(t) == project' = [project EXCEPT ![t] = "wanted"]

Happens(what, max) ==
  /\ happened[what] < max
  /\ happened' = [happened EXCEPT ![what] = @ + 1]

\* ------------------------------------------------------------------- installer

Running == installer.status = "running"
StepNow == Plan[installer.step]

FirstPhase(step) == IF Plan[step].kind \in {"set", "deploy"} THEN "write" ELSE "ask"
NextStep ==
  installer' = IF installer.step = Len(Plan)
               THEN [installer EXCEPT !.status = "done"]
               ELSE [installer EXCEPT !.step = @ + 1, !.phase = FirstPhase(installer.step + 1)]
Phase(p) == installer' = [installer EXCEPT !.phase = p]
Fails == installer' = [installer EXCEPT !.status = "failed"]

\* npm run deploy; nothing else runs it at the same time.
RunInstaller ==
  /\ ~Running /\ Happens("runs", MaxRuns)
  /\ installer' = [NotStarted EXCEPT !.status = "running"]
  /\ cleaner' = [cleaner EXCEPT !.excused = TRUE]
  /\ UNCHANGED <<readScope, project>>

\* exists, list-variables, list-rules and the store's GET: what is asked before
\* a write.  Only exists takes every failure for an absent resource, and only
\* the store's GET a refusal.
AskFirst ==
  /\ Running /\ installer.phase = "ask"
  /\ LET found == readScope /\ Present(StepNow.of) IN
     \/ /\ StepNow.kind \in {"store", "ensure"}
        /\ IF found THEN NextStep ELSE Phase("create")
     \/ /\ StepNow.kind = "upsert"
        /\ Phase(IF found THEN "write" ELSE "create")
     \/ /\ StepNow.kind = "variable"
        /\ IF readScope /\ Belongs(StepNow.of)
           THEN Phase(IF found THEN "write" ELSE "create") ELSE Fails
     \/ /\ StepNow.kind = "domain"
        /\ IF ~readScope THEN Fails ELSE IF found THEN NextStep ELSE Phase("create")
  /\ UNCHANGED <<readScope, project, cleaner, happened>>

AskLost ==
  /\ Running /\ installer.phase = "ask" /\ Happens("events", MaxEvents)
  /\ LET excused == [installer EXCEPT !.excused = TRUE] IN
     installer' = IF StepNow.kind \in {"ensure", "upsert"}
                  THEN [excused EXCEPT !.phase = "create"]
                  ELSE [excused EXCEPT !.status = "failed"]
  /\ UNCHANGED <<readScope, project, cleaner>>

\* As if a duplicate were an error.
NoneAccepted(kind) == FALSE

\* ensure and installTimeseries: a conflict means that the other one made it.
DuplicateAccepted(kind) == kind \in {"store", "ensure"}

CreateIt ==
  /\ Running /\ installer.phase = "create"
  /\ IF Present(StepNow.of)
     THEN /\ UNCHANGED project
          /\ IF DuplicateAccepted(StepNow.kind) THEN NextStep ELSE Fails
     ELSE IF Belongs(StepNow.of) THEN Creates(StepNow.of) /\ NextStep
     ELSE UNCHANGED project /\ Fails
  /\ UNCHANGED <<readScope, cleaner, happened>>

\* update-table and such, functions update, update-variable, create-deployment.
Writable == IF StepNow.kind = "deploy" THEN Belongs(StepNow.of) ELSE Present(StepNow.of)

WriteIt ==
  /\ Running /\ installer.phase = "write"
  /\ IF Writable THEN Creates(StepNow.of) /\ NextStep ELSE UNCHANGED project /\ Fails
  /\ UNCHANGED <<readScope, cleaner, happened>>

\* The request is lost, or its answer, or the installer is stopped.
WriteLost ==
  /\ Running /\ installer.phase \in {"create", "write"}
  /\ Happens("events", MaxEvents)
  /\ installer' = [installer EXCEPT !.status = "failed", !.excused = TRUE]
  /\ \/ UNCHANGED project
     \/ /\ IF installer.phase = "write" THEN Writable
           ELSE Belongs(StepNow.of) /\ ~Present(StepNow.of)
        /\ Creates(StepNow.of)
  /\ UNCHANGED <<readScope, cleaner>>

\* A release of the template wants what it configures another way.
Release ==
  /\ ~Running /\ cleaner.status # "running" /\ Happens("events", MaxEvents)
  /\ installer' = NotStarted
  /\ project' = [t \in Things |-> IF Present(t) THEN "other" ELSE "absent"]
  /\ UNCHANGED <<readScope, cleaner>>

\* ---------------------------------------------------- solution plan and cleaner

\* The installer is between its look at t and its creation, which then fails.
MeetsConflict(t) ==
  /\ Running /\ installer.phase = "create"
  /\ StepNow.of = t /\ StepNow.kind \in {"upsert", "variable"}

\* The solution plan creates what is missing, with settings of its own; only a
\* function or variable made between the installer's look and its creation is a
\* conflict.
SolutionCreates(t) ==
  /\ ~Present(t) /\ Belongs(t)
  /\ Happens("events", MaxEvents)
  /\ project' = [project EXCEPT ![t] = "other"]
  /\ installer' = [installer EXCEPT !.excused = @ \/ MeetsConflict(t)]
  /\ cleaner' = [cleaner EXCEPT !.excused = TRUE]
  /\ UNCHANGED readScope

RunCleaner ==
  /\ cleaner.status # "running" /\ Happens("events", MaxEvents)
  /\ cleaner' = [NotCleaning EXCEPT !.status = "running", !.excused = Running]
  /\ UNCHANGED <<readScope, project, installer>>

\* A resource goes with all that belongs to it.
Without(t) ==
  [u \in Things |->
     IF u = t \/ Parent[u] = t \/ (t = "database" /\ u \in {"column", "channel", "index"})
     THEN "absent" ELSE project[u]]

\* removeIfPresent, removeTimeseries, removeProxyRules: what is missing is
\* skipped; only the domains must be listed first.
CleanNext ==
  /\ cleaner.status = "running"
  /\ LET t == Removals[cleaner.step] IN
     IF t = "domain" /\ ~readScope
     THEN /\ cleaner' = [cleaner EXCEPT !.status = "failed"]
          /\ UNCHANGED <<project, installer>>
     ELSE /\ project' = Without(t)
          /\ installer' = [installer EXCEPT !.excused = TRUE, !.cleaned = TRUE]
          /\ cleaner' = IF cleaner.step = Len(Removals)
                        THEN [cleaner EXCEPT !.status = "done"]
                        ELSE [cleaner EXCEPT !.step = @ + 1]
  /\ UNCHANGED <<readScope, happened>>

CleanLost ==
  /\ cleaner.status = "running" /\ Happens("events", MaxEvents)
  /\ cleaner' = [cleaner EXCEPT !.status = "failed"]
  /\ project' \in {project, Without(Removals[cleaner.step])}
  /\ installer' = [installer EXCEPT !.excused = TRUE, !.cleaned = TRUE]
  /\ UNCHANGED readScope

InstallNext ==
  \/ RunInstaller \/ AskFirst \/ AskLost \/ CreateIt \/ WriteIt \/ WriteLost \/ Release
  \/ \E t \in SolutionThings : SolutionCreates(t)
  \/ RunCleaner \/ CleanNext \/ CleanLost

InstallSpec == InstallInit /\ [][InstallNext]_installVars

\* ------------------------------------------------------------------ properties

InstallTypeOK ==
  /\ readScope \in BOOLEAN
  /\ project \in [Things -> {"absent", "wanted", "other"}]
  /\ installer.step \in 1 .. Len(Plan) /\ cleaner.step \in 1 .. Len(Removals)
  /\ installer.phase \in {"ask", "create", "write"}
  /\ installer.status \in {"idle", "running", "done", "failed"}

Reconciled ==
  {Plan[i].of : i \in {j \in 1 .. Len(Plan) : Plan[j].kind \notin {"store", "ensure", "domain"}}}

\* A run that ends well leaves everything there, and as wanted what it
\* reconciles, whatever earlier runs left behind or a solution plan made; what it
\* only ensures, all columns but the channel among it, stays as it was found.
DoneIsComplete ==
  installer.status = "done" /\ ~installer.cleaned
    => /\ \A t \in Things : Present(t)
       /\ \A t \in Reconciled : project[t] = "wanted"

\* A failure of a platform, table, function or site never leaves the project
\* without its store (install-appwrite.mjs:9-11).
StoreFirst == installer.step > 1 /\ ~installer.cleaned => Present("store")

\* A run fails only for a lost request or answer, a cleaning, a key that may not
\* read, or a function or variable that someone else creates meanwhile: after any of
\* them it may be run again, and no other work of the solution plan is in its way.
FailsForCause == installer.status = "failed" => installer.excused \/ ~readScope

\* A cleaning that ends well with nobody at work leaves only the auth methods.
CleanLeavesNothing ==
  cleaner.status = "done" /\ ~cleaner.excused
    => \A t \in Things \ {"methods"} : ~Present(t)

\* Installing and cleaning can be repeated and interrupted at any step.
InstallRepeatable == DoneIsComplete /\ StoreFirst /\ FailsForCause /\ CleanLeavesNothing
===============================================================================
