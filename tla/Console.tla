------------------------------- MODULE Console -------------------------------
(***************************************************************************)
(* A browser tab of the web console (web/src/app.tsx, components/shell.tsx *)
(* and lib/api.ts): pages that poll queries, and operations that change    *)
(* the server and then invalidate queries, with answers that may be late,  *)
(* lost, or overtaken by the operator.  Operations touch each other only   *)
(* through the queries, so a behaviour is about one of them, chosen at the *)
(* start: the page its button is on and those queries of the page that it  *)
(* changes or invalidates.                                                 *)
(*                                                                         *)
(* The server is the number of changes so far (a version) of what the      *)
(* operation is about; an answer is the version it was read at.  Deciding  *)
(* a permission is the exception: there the server is Permissions.  A      *)
(* fetch is asked and answered in one step and installed in a later one.   *)
(***************************************************************************)
EXTENDS Naturals, Sequences, FiniteSets, Permissions

CONSTANTS
  MaxCalls,    \* bound on uses of the operation
  MaxDecisions, \* bound on uses that decide a permission
  MaxChanges,  \* bound on changes made by anybody else
  MaxVisits    \* bound on the times the page is opened

ASSUME ConsoleAssumption ==
  {MaxCalls, MaxDecisions, MaxChanges, MaxVisits} \subseteq Nat /\ MaxVisits # 0

-----------------------------------------------------------------------------
(* The pages, as the keys of their queries.                                *)
OverviewPage   == {"health", "metrics", "capabilities", "runs", "missions"}
RunsPage       == {"runs", "capabilities"}
RunDetailPage  == {"run", "runEvents", "runArtifacts"}
UnitsPage      == {"workers"}
ExecutorsPage  == {"executors", "capabilities"}
MissionsPage   == {"missions", "capabilities"}
MissionDetailPage == {"mission", "missionEvents", "missionArtifacts"}
ProfilesPage   == {"profiles"}
AccessPage     == {"policy", "projects", "tokens"}
OperationsPage == {"opsStatus", "drills", "backups", "p5", "cost"}
AuthGate       == {"session"}

Queries ==
  [overview |-> OverviewPage, runs |-> RunsPage, run |-> RunDetailPage,
   units |-> UnitsPage, executors |-> ExecutorsPage, missions |-> MissionsPage,
   mission |-> MissionDetailPage, profiles |-> ProfilesPage,
   access |-> AccessPage, operations |-> OperationsPage, session |-> AuthGate]

(* invalidateQueries matches every key that begins with the given one.     *)
RunsKeys     == RunDetailPage \cup {"runs"}
MissionsKeys == MissionDetailPage \cup {"missions"}

(* The operations.  flags: "guarded" when the button is disabled while the *)
(* mutation is pending, "once" when the shown state withdraws it after it  *)
(* was done, until somebody else brings it back (a worker is resumed, a    *)
(* mission blocks again), "late" when that takes effect some time after    *)
(* the request, "choice" when it is approve or deny, "listed" when there   *)
(* is no button without data, "cookie" when the answer carries the effect, *)
(* "sticky" when pending is never reset, "always" when the queries are     *)
(* invalidated after a failure too.  subject is the query that shows it    *)
(* done; changes is what the server then answers anew.                     *)
CreateRunForm ==
  [page |-> "runs", flags |-> {"guarded"}, subject |-> "runs",
   refreshes |-> <<RunsKeys, {"metrics"}>>, changes |-> {"runs", "metrics", "cost"}]
CancelRun ==
  [page |-> "run", flags |-> {"guarded", "once", "late"}, subject |-> "run",
   refreshes |-> <<RunsKeys, RunDetailPage>>, changes |-> RunsKeys]
PermissionPanel ==
  [page |-> "run", flags |-> {"choice"}, subject |-> "runEvents",
   refreshes |-> <<{"runEvents"}>>, changes |-> {"runEvents"}]
DrainWorker ==
  [page |-> "units", flags |-> {"once", "listed"}, subject |-> "workers",
   refreshes |-> <<{"workers"}>>, changes |-> {"workers"}]
ResumeWorker == DrainWorker
RetryWorkerRuns ==
  [page |-> "units", flags |-> {"once", "listed"}, subject |-> "workers",
   refreshes |-> <<{"workers"}, RunsKeys>>, changes |-> RunsKeys \cup {"workers"}]
WorkerRegistrationForm ==
  [page |-> "units", flags |-> {"guarded"}, subject |-> "workers",
   refreshes |-> <<>>, changes |-> {"policy", "tokens"}]
CreateMissionForm ==
  [page |-> "missions", flags |-> {"guarded"}, subject |-> "missions",
   refreshes |-> <<MissionsKeys>>, changes |-> {"missions", "runs", "metrics"}]
CancelMission ==
  [page |-> "mission", flags |-> {"guarded", "once"}, subject |-> "mission",
   refreshes |-> <<MissionsKeys, MissionDetailPage>>, changes |-> MissionsKeys]
OverrideReviewGate ==
  [page |-> "mission", flags |-> {"guarded", "once", "choice", "listed"}, subject |-> "mission",
   refreshes |-> <<MissionsKeys, MissionDetailPage, {"missionEvents"}>>,
   changes |-> MissionsKeys]
ProfileEditor ==
  [page |-> "profiles", flags |-> {"guarded"}, subject |-> "profiles",
   refreshes |-> <<{"profiles"}, {"capabilities"}>>,
   changes |-> {"profiles", "capabilities"}]
CreateProject ==
  [page |-> "access", flags |-> {"guarded"}, subject |-> "projects",
   refreshes |-> <<AccessPage>>, changes |-> {"policy", "projects"}]
CreateToken ==
  [page |-> "access", flags |-> {"guarded"}, subject |-> "tokens",
   refreshes |-> <<AccessPage>>, changes |-> {"policy", "tokens"}]
ApiTokenList ==
  [page |-> "access", flags |-> {"once", "listed"}, subject |-> "tokens",
   refreshes |-> <<AccessPage>>, changes |-> {"policy", "tokens"}]
CreateBackup ==
  [page |-> "operations", flags |-> {"guarded"}, subject |-> "backups",
   refreshes |-> <<{"backups"}>>, changes |-> {"backups"}]
RunDrills ==
  [page |-> "operations", flags |-> {}, subject |-> "drills",
   refreshes |-> <<{"drills"}>>, changes |-> {"drills"}]
LoginPage ==
  [page |-> "session", flags |-> {"guarded", "once", "cookie"}, subject |-> "session",
   refreshes |-> <<AuthGate>>, changes |-> AuthGate]
SignOutButton ==
  [page |-> "session", flags |-> {"guarded", "once", "cookie", "listed", "sticky", "always"},
   subject |-> "session", refreshes |-> <<AuthGate>>, changes |-> AuthGate]

Operations ==
  [createRun |-> CreateRunForm, cancelRun |-> CancelRun,
   resolvePermission |-> PermissionPanel, drainWorker |-> DrainWorker,
   resumeWorker |-> ResumeWorker, retryWorkerRuns |-> RetryWorkerRuns,
   createWorkerRegistration |-> WorkerRegistrationForm,
   createMission |-> CreateMissionForm, cancelMission |-> CancelMission,
   overrideReviewGate |-> OverrideReviewGate, createProfile |-> ProfileEditor,
   createAccessProject |-> CreateProject, createApiToken |-> CreateToken,
   revokeApiToken |-> ApiTokenList, createBackup |-> CreateBackup,
   runDrills |-> RunDrills, login |-> LoginPage, logout |-> SignOutButton]

-----------------------------------------------------------------------------
VARIABLES
  op,       \* the operation
  ver,      \* the server's version
  closed,   \* the versions whose state withdraws the button
  changes,  \* changes made by anybody else
  visits,   \* how often the page was opened
  here,     \* the page is mounted
  cached,   \* query cache: the version shown per key, 0 for no data
  flight,   \* the answer on its way per key, 0 for none
  calls,    \* the mutations of this tab
  takes,    \* its effects since one of them withdrew the button, that one included;
            \* 0 again when somebody else has brought it back
  editing   \* the editor on the page shows a profile picked from the list

serverVars == <<ver, closed, changes, takes>>
tabVars    == <<visits, here, editing>>
cVars      == <<op, serverVars, tabVars, cached, flight, calls>>
vars       == <<cVars, pVars>>

Is(flag) == flag \in Operations[op].flags

Deciding == op = "resolvePermission"

Refreshed(o) == UNION {Operations[o].refreshes[i] : i \in DOMAIN Operations[o].refreshes}

Watched(o) ==
  Queries[Operations[o].page] \cap (Operations[o].changes \cup Refreshed(o))

(* A behaviour looks at one of them: mutations wait for others too, which  *)
(* only delays their steps.  Worker registration shows in none; the events *)
(* of a run, in which a decision shows, are RunPage's.                     *)
Glimpses(o) ==
  IF Watched(o) = {} \/ o = "resolvePermission" THEN {{}} ELSE {{k} : k \in Watched(o)}

Keys == DOMAIN cached
Subject == Operations[op].subject

Init ==
  /\ PermissionsInit
  /\ op \in DOMAIN Operations
  /\ op # "resolvePermission" => owner = "local"
  /\ ver = 1 /\ closed = {} /\ changes = 0 /\ takes = 0
  /\ visits = 1 /\ here = TRUE /\ editing = FALSE
  /\ cached \in {[k \in S |-> 0] : S \in Glimpses(op)} /\ flight = cached
  /\ calls = <<>>

-----------------------------------------------------------------------------
(* What anybody else changes, which may withdraw the button or bring it    *)
(* back; a cancellation of a run takes effect so, too.                     *)
ChangeElsewhere ==
  /\ ~Deciding /\ changes < MaxChanges
  /\ changes' = changes + 1 /\ ver' = ver + 1
  /\ \/ Is("once") /\ closed' = closed \cup {ver + 1} /\ takes' = takes
     \/ closed' = closed /\ takes' = 0
  /\ UNCHANGED <<op, tabVars, cached, flight, calls, pVars>>

ServePermissions ==
  /\ Deciding /\ PermissionsNext
  /\ UNCHANGED cVars

-----------------------------------------------------------------------------
(* Queries.  A mounted page fetches what it has no fresh answer for; an    *)
(* answer is installed whether the page is still there or not.             *)

(* Mutant: a query is fetched once.                                        *)
FirstPoll(k) ==
  /\ here /\ flight[k] = 0 /\ cached[k] = 0
  /\ flight' = [flight EXCEPT ![k] = ver]
  /\ UNCHANGED <<op, serverVars, tabVars, cached, calls, pVars>>

Poll(k) ==
  /\ here /\ flight[k] = 0 /\ cached[k] # ver
  /\ flight' = [flight EXCEPT ![k] = ver]
  /\ UNCHANGED <<op, serverVars, tabVars, cached, calls, pVars>>

(* Mutant: a mutation waits for ever for a fetch that failed.              *)
ArrivedIfAnswered(k, ok) ==
  [i \in DOMAIN calls |->
     IF ok /\ k \in calls[i].wait THEN [calls[i] EXCEPT !.wait = @ \ {k}] ELSE calls[i]]

(* A mutation that waits for the fetch of k goes on; clean is false once   *)
(* it did without the answer it had asked for.                             *)
Arrived(k, ok) ==
  [i \in DOMAIN calls |->
     IF k \in calls[i].wait
     THEN [calls[i] EXCEPT !.wait = @ \ {k}, !.clean = @ /\ ok] ELSE calls[i]]

ShowsDone(v) == v \in closed

(* AuthGate replaces the login page, or every page, when the session says  *)
(* so.                                                                     *)
Receive(k) ==
  /\ flight[k] # 0
  /\ cached' = [cached EXCEPT ![k] = flight[k]]
  /\ flight' = [flight EXCEPT ![k] = 0]
  /\ calls' = Arrived(k, TRUE)
  /\ here' = (here /\ ~(Is("cookie") /\ ShowsDone(flight[k])))
  /\ UNCHANGED <<op, serverVars, visits, editing, pVars>>

(* A failed fetch that nobody waits for is one that was not asked.         *)
FailFetch(k) ==
  /\ flight[k] # 0 /\ Fails
  /\ \E i \in DOMAIN calls : k \in calls[i].wait
  /\ flight' = [flight EXCEPT ![k] = 0]
  /\ calls' = Arrived(k, FALSE)
  /\ UNCHANGED <<op, serverVars, tabVars, cached>>
  /\ UNCHANGED <<runVars, plog, daemonVars, watchdog, workerVars, restarts>>

(* refetch and invalidateQueries start a new fetch of every mounted query  *)
(* of the keys in place of one that is under way, unless there is no data: *)
(* then they wait for the first answer, whenever it was read.              *)
FirstLoads(S) == {k \in S : flight[k] # 0 /\ cached[k] = 0}

(* Mutant: a fetch under way is good enough.                               *)
UnderWay(S) == {k \in S : flight[k] # 0}

Joined(S) == FirstLoads(S)

Refetched(S) == [k \in Keys |-> IF k \in S \ Joined(S) THEN ver ELSE flight[k]]

RefreshButton ==
  /\ here /\ op \in {"createRun", "drainWorker"} /\ Subject \in Keys /\ cached[Subject] # ver
  /\ flight' = Refetched({Subject})
  /\ UNCHANGED <<op, serverVars, tabVars, cached, calls, pVars>>

-----------------------------------------------------------------------------
(* The operation.                                                          *)
Pending ==
  \E i \in DOMAIN calls :
    calls[i].from = "here" /\ (calls[i].stage # "over" \/ Is("sticky"))

(* Buttons are withdrawn by what their subject shows.  The panel may show  *)
(* any events up to now, so that it may offer what was ever requested.     *)
Offered ==
  /\ here
  /\ Is("guarded") => ~Pending
  /\ Deciding => Requested
  /\ Subject \in Keys =>
       (Is("listed") => cached[Subject] # 0) /\ ~ShowsDone(cached[Subject])

Press(decision) ==
  /\ Offered /\ Len(calls) < MaxCalls /\ (Deciding => Len(calls) < MaxDecisions)
  /\ decision \in IF Is("choice") THEN Decisions ELSE {NoDecision}
  /\ calls' = Append(calls,
       [stage |-> "sent", decision |-> decision, from |-> "here", ok |-> TRUE,
        clean |-> TRUE, mark |-> 0, step |-> 0, wait |-> {}])
  /\ UNCHANGED <<op, serverVars, tabVars, cached, flight, pVars>>

Update(i, call) == calls' = [calls EXCEPT ![i] = call]

(* A gate that is denied still blocks the mission.                         *)
Withdraws(i) == Is("once") /\ ~Is("late") /\ calls[i].decision # "deny"

(* What the server does with it.  With a cookie, it is the answer that has *)
(* the effect.                                                             *)
Effect(i, stage) ==
  /\ ver' = ver + 1
  /\ closed' = IF Withdraws(i) \/ ver \in closed THEN closed \cup {ver + 1} ELSE closed
  /\ takes' = IF Withdraws(i) \/ takes # 0 THEN takes + 1 ELSE 0
  /\ Update(i, [calls[i] EXCEPT !.stage = stage, !.mark = ver + 1])

Serve(i) ==
  /\ calls[i].stage = "sent" /\ ~Deciding
  /\ IF Is("cookie")
     THEN Update(i, [calls[i] EXCEPT !.stage = "answered"]) /\ UNCHANGED <<ver, takes, closed>>
     ELSE Effect(i, "answered")
  /\ UNCHANGED <<op, changes, tabVars, cached, flight, pVars>>

TakeCookie(i) ==
  /\ calls[i].stage = "answered" /\ Is("cookie")
  /\ Effect(i, "accepted")
  /\ UNCHANGED <<op, changes, tabVars, cached, flight, pVars>>

ServeDecision(i, ok) ==
  /\ calls[i].stage = "sent" /\ Deciding
  /\ ResolvePermission(calls[i].decision, ok)
  /\ Update(i, [calls[i] EXCEPT !.stage = "over", !.ok = ok])
  /\ UNCHANGED <<op, serverVars, tabVars, cached, flight>>
  /\ UNCHANGED <<runVars, reported, watchdog, workerVars, restarts>>

(* An error response or a lost answer: the request may have had its effect.*)
FailCall(i) ==
  /\ calls[i].stage \in {"sent", "answered"} /\ Fails
  /\ Update(i, [calls[i] EXCEPT !.ok = FALSE,
                  !.stage = IF Is("always") THEN "settling" ELSE "over"])
  /\ UNCHANGED <<op, serverVars, tabVars, cached, flight>>
  /\ UNCHANGED <<runVars, plog, daemonVars, watchdog, workerVars, restarts>>

(* Whose button this was: it is here, its editor was replaced by another,  *)
(* or its page was left.                                                   *)
Abandoned(cs, how) ==
  [i \in DOMAIN cs |-> [cs[i] EXCEPT !.from = IF @ = "left" THEN @ ELSE how]]

(* onSuccess.  A save closes the editor of whatever profile was picked.    *)
Succeed(i) ==
  /\ calls[i].stage = IF Is("cookie") THEN "accepted" ELSE "answered"
  /\ LET closes == editing /\ calls[i].from # "left"
         after  == [calls EXCEPT ![i].stage = "settling"]
     IN  /\ editing' = (editing /\ ~closes)
         /\ calls' = IF closes THEN Abandoned(after, "replaced") ELSE after
  /\ UNCHANGED <<op, serverVars, visits, here, cached, flight, pVars>>

(* Mutant: onSuccess does not return the promise.                          *)
NotAwaited(i) == {}

(* It awaits one invalidation after the other; what is not mounted is only *)
(* marked.                                                                 *)
Awaited(i) ==
  IF here THEN Keys \cap Operations[op].refreshes[calls[i].step + 1] ELSE {}

Invalidate(i) ==
  LET S == Awaited(i)
  IN  /\ calls[i].stage = "settling" /\ calls[i].wait = {}
      /\ calls[i].step < Len(Operations[op].refreshes)
      /\ flight' = Refetched(S)
      /\ Update(i, [calls[i] EXCEPT !.step = @ + 1, !.wait = S,
                      !.clean = @ /\ here /\ FirstLoads(S) = {}])
      /\ UNCHANGED <<op, serverVars, tabVars, cached, pVars>>

Finish(i) ==
  /\ calls[i].stage = "settling" /\ calls[i].wait = {}
  /\ calls[i].step = Len(Operations[op].refreshes)
  /\ Update(i, [calls[i] EXCEPT !.stage = "over"])
  /\ UNCHANGED <<op, serverVars, tabVars, cached, flight, pVars>>

-----------------------------------------------------------------------------
(* The operator.                                                           *)
LeavePage ==
  /\ here /\ ~Is("cookie") /\ ~Deciding
  /\ here' = FALSE /\ editing' = FALSE
  /\ calls' = Abandoned(calls, "left")
  /\ UNCHANGED <<op, serverVars, visits, cached, flight, pVars>>

OpenPage ==
  /\ ~here /\ ~Is("cookie") /\ visits < MaxVisits
  /\ here' = TRUE /\ visits' = visits + 1
  /\ UNCHANGED <<op, serverVars, editing, cached, flight, calls, pVars>>

(* Pick a profile from the list, which makes a new editor.                 *)
PickProfile ==
  /\ here /\ op = "createProfile" /\ cached["profiles"] # 0 /\ ~editing
  /\ editing' = TRUE
  /\ calls' = Abandoned(calls, "replaced")
  /\ UNCHANGED <<op, serverVars, visits, here, cached, flight, pVars>>

-----------------------------------------------------------------------------
Answer(i) ==
  \/ Serve(i) \/ TakeCookie(i) \/ Succeed(i) \/ Invalidate(i) \/ Finish(i)
  \/ \E ok \in BOOLEAN : ServeDecision(i, ok)

Next ==
  \/ ChangeElsewhere \/ ServePermissions
  \/ \E k \in Keys : Poll(k) \/ Receive(k) \/ FailFetch(k)
  \/ RefreshButton
  \/ \E decision \in Decisions \cup {NoDecision} : Press(decision)
  \/ \E i \in DOMAIN calls : Answer(i) \/ FailCall(i)
  \/ LeavePage \/ OpenPage \/ PickProfile

Spec == Init /\ [][Next]_vars

(* The server answers and the tab goes on with the answer.  Nothing makes  *)
(* an operator press a button or stay on a page, and polling stops while   *)
(* the tab is hidden: it is assumed where a property needs it.             *)
Fairness ==
  /\ WF_vars(\E k \in Keys : Receive(k))
  /\ WF_vars(\E i \in DOMAIN calls : Answer(i))
  /\ PermissionsFairness

LiveSpec == Spec /\ Fairness

Polling == WF_vars(\E k \in Keys \ AuthGate : Poll(k))

-----------------------------------------------------------------------------
(* What the tab has and waits for: nothing it shows or has asked for is    *)
(* newer than the server, and a mutation waits for fetches that are under  *)
(* way (useQuery, useMutation).                                            *)
ConsoleTypeOK ==
  /\ op \in DOMAIN Operations
  /\ {ver, takes} \subseteq 0 .. (1 + MaxChanges + 2 * MaxCalls) /\ closed \subseteq 1 .. ver
  /\ changes \in 0 .. MaxChanges /\ visits \in 1 .. MaxVisits
  /\ {here, editing} \subseteq BOOLEAN
  /\ \A k \in Keys : {cached[k], flight[k]} \subseteq 0 .. ver
  /\ \A i \in DOMAIN calls :
       /\ calls[i].stage \in {"sent", "answered", "accepted", "settling", "over"}
       /\ calls[i].from = "here" => here \/ Is("cookie")
       /\ \A k \in calls[i].wait : calls[i].stage = "settling" /\ flight[k] # 0

(* When an operation is over, every query of its page that shows what it   *)
(* changed, and that it invalidates, shows it: a poll that was asked       *)
(* before the change and is answered late does not bring back the old      *)
(* state.  Excepted are failures, a page that was left, and a query whose  *)
(* first answer was still on its way (clean).                              *)
OwnWritesAreShown ==
  \A i \in DOMAIN calls :
    calls[i].stage = "over" /\ calls[i].ok /\ calls[i].clean =>
      \A k \in Keys \cap Operations[op].changes \cap Refreshed(op) :
        cached[k] >= calls[i].mark

(* Once an operation has withdrawn its own button, it has no other effect  *)
(* until somebody else brings the button back, if the button is disabled   *)
(* while the mutation is pending: when it is over the page shows what it   *)
(* did.  So a gate is approved once, though it may be denied before, and   *)
(* again and again, since a denial leaves the mission blocked.  Not after  *)
(* a failure, an unclean refresh or in a page opened again; and cancelRun  *)
(* only asks for what comes later.                                         *)
AppliedOnce ==
  {"once", "guarded"} \subseteq Operations[op].flags /\ ~Is("late") =>
    \/ takes <= 1 \/ Subject \notin Keys
    \/ \E i \in DOMAIN calls : ~calls[i].ok \/ ~calls[i].clean \/ calls[i].from # "here"

(* No mutation stays pending, whatever fails and wherever the operator     *)
(* goes: a button disabled while it is pending comes back.                 *)
CallsSettle ==
  []<>(\A i \in DOMAIN calls : calls[i].stage = "over")

(* A page that stays open in a visible tab comes to show the state of the  *)
(* server, whatever was changed by whom; whether somebody is logged in is  *)
(* not polled.                                                             *)
PageCatchesUp ==
  Polling => (<>[]here => <>[](\A k \in Keys \ AuthGate : cached[k] = ver))
=============================================================================
