----------------------------- MODULE Permissions -----------------------------
(***************************************************************************)
(* One permission request of an agent, from the daemon that asks to the    *)
(* decision it is told: manager.py (resolve_permission and the stall       *)
(* watchdog), adapters/qwen.py, and worker.py where a remote worker        *)
(* executes the run.  Decisions come from operators (Console) and from the *)
(* watchdog.                                                               *)
(*                                                                         *)
(* The agent's daemon is external: it takes the first decision it is sent  *)
(* and refuses later ones, a request to it may fail, and it announces what *)
(* it took on its own event stream.                                        *)
(*                                                                         *)
(* The run is followed from the worker whose agent asked to one later      *)
(* attempt of it, anywhere.  That attempt applies what is recorded for its *)
(* worker with one thread; the race of two is followed in the first.  What *)
(* the watchdog writes into the log about itself is left out.              *)
(***************************************************************************)
EXTENDS Naturals, Sequences, FiniteSets

CONSTANTS
  StallAction,  \* permission_stall_action
  MaxRestarts,  \* bound on restarts of the control plane
  MaxFaults,    \* bound on failed requests
  MaxMishaps    \* bound on all that goes wrong: these, a crash, a run that is taken away

ASSUME PermissionsAssumption ==
  /\ StallAction \in {"audit", "deny"}
  /\ {MaxRestarts, MaxFaults, MaxMishaps} \subseteq Nat

VARIABLES
  owner,      \* who has the run: the control plane ("local"), the worker whose agent
              \* asked ("worker"), an "other" worker, or nobody ("queue")
  taken,      \* the run was taken from the worker whose agent asked
  plog,       \* the events of the run that are about the permission or end it
  told,       \* the decision the daemon took
  reported,   \* whether it was announced on the daemon's stream
  watchdog,   \* the thread that waits for permission_stall_seconds
  up,         \* the process of the worker whose agent asked
  thread,     \* where the workers' threads are in _apply_control
  picked,     \* resolutions a thread has fetched and not yet applied
  applied,    \* ActiveRunContext.applied_controls
  raced,      \* both threads found a resolution not applied before either added it
  restarts, faults

runVars    == <<owner, taken>>
daemonVars == <<told, reported>>
workerVars == <<up, thread, picked, applied, raced>>
pVars      == <<runVars, plog, daemonVars, watchdog, workerVars, restarts, faults>>

Decisions == {"approve", "deny"}
NoDecision == "none"
Announced == "announced"  \* the daemon's event carries no permission_id

(* The threads of the attempt whose agent asked, and of a later one.       *)
FirstThreads == {"main", "heartbeat"}
Threads      == FirstThreads \cup {"later"}
Context(t)   == IF t = "later" THEN "later" ELSE "first"
Home(t)      == IF t = "later" THEN owner ELSE "worker"

Workers == {"worker", "other"}

Entry(type, decision) == [type |-> type, decision |-> decision, worker_id |-> "nobody"]
Recorded(decision, w) ==
  [type |-> "permission.resolve_requested", decision |-> decision, worker_id |-> w]

Indices(type) == {n \in DOMAIN plog : plog[n].type = type}

Requested == Indices("permission.requested") # {}
RunOver == Indices("run.failed") # {}

(* The process whose agent asked is there, and may append to the log.      *)
Local     == owner = "local" /\ ~taken
Executing == ~RunOver /\ (Local \/ (owner = "worker" /\ up))

PermissionsInit ==
  /\ owner \in {"local", "worker"} /\ taken = FALSE
  /\ plog = <<>> /\ told = NoDecision /\ reported = FALSE
  /\ watchdog = "off"
  /\ up = TRUE /\ raced = FALSE
  /\ thread = [t \in Threads |-> IF t = "later" THEN "off" ELSE "runs"]
  /\ picked = [t \in Threads |-> {}] /\ applied = [c \in {"first", "later"} |-> {}]
  /\ restarts = 0 /\ faults = 0

-----------------------------------------------------------------------------
(* Mutant: the listener starts no watchdog.                                *)
AskUnwatched ==
  /\ ~Requested /\ Executing
  /\ plog' = Append(plog, Entry("permission.requested", NoDecision))
  /\ UNCHANGED <<runVars, daemonVars, watchdog, workerVars, restarts, faults>>

(* The daemon asks; the control plane's listener starts the watchdog.      *)
AskPermission ==
  /\ ~Requested /\ Executing
  /\ plog' = Append(plog, Entry("permission.requested", NoDecision))
  /\ watchdog' = "armed"
  /\ UNCHANGED <<runVars, daemonVars, workerVars, restarts, faults>>

(* Something goes wrong; a request fails.                                  *)
One(mishap) == IF mishap THEN 1 ELSE 0
Mishap == faults + restarts + One(~up) + One(taken) < MaxMishaps
Fails  == Mishap /\ faults < MaxFaults /\ faults' = faults + 1

(* Mutant: the decision counts as taken although the daemon refused it.    *)
PostUnchecked(decision, ok, asked) ==
  /\ ok /\ told' = IF told = NoDecision THEN decision ELSE told
  /\ faults' = faults

(* What the daemon makes of a decision, and whether the request succeeds;  *)
(* an answer that is lost is a failure too.  A daemon that did not ask, or *)
(* whose session is over, refuses, or is the same daemon and takes it.     *)
Refuses(asked) == told # NoDecision \/ RunOver \/ ~asked

PostDecision(decision, ok, asked) ==
  \/ /\ told = NoDecision /\ told' = decision
     /\ IF ok THEN faults' = faults ELSE Fails
  \/ /\ ~ok /\ told' = told
     /\ (Refuses(asked) /\ faults' = faults) \/ Fails

(* QwenAdapter.resolve_permission: what the events say after the POST.     *)
Outcome(ok) == IF ok THEN "permission.resolved" ELSE "permission.resolve_failed"

(* RunManager.resolve_permission: recorded for the worker that has the run *)
(* now, or sent by the control plane.                                      *)
ResolvePermission(decision, ok) ==
  IF owner \in Workers /\ ~RunOver
  THEN /\ ok /\ UNCHANGED <<told, faults>>
       /\ plog' = Append(plog, Recorded(decision, owner))
  ELSE /\ PostDecision(decision, ok, Local)
       /\ plog' = Append(plog, Entry(Outcome(ok), decision))

(* The event the daemon sends when it has taken a decision.                *)
AnnounceDecision ==
  /\ told # NoDecision /\ ~reported /\ Executing
  /\ reported' = TRUE
  /\ plog' = Append(plog, Entry("permission.resolved", Announced))
  /\ UNCHANGED <<runVars, told, watchdog, workerVars, restarts, faults>>

-----------------------------------------------------------------------------
(* The watchdog, whose wait is over at any time.                           *)
PermissionIsResolved == Indices("permission.resolved") # {}

WatchdogWakes ==
  /\ watchdog = "armed"
  /\ watchdog' = IF RunOver \/ PermissionIsResolved \/ StallAction # "deny"
                 THEN "done" ELSE "denies"
  /\ UNCHANGED <<runVars, plog, daemonVars, workerVars, restarts, faults>>

WatchdogDenies(ok) ==
  /\ watchdog = "denies"
  /\ ResolvePermission("deny", ok)
  /\ watchdog' = "done"
  /\ UNCHANGED <<runVars, reported, workerVars, restarts>>

(* A restart ends every watchdog, and nothing starts one for a request     *)
(* that is already in the log.  A run of its own is failed by the startup. *)
RestartControlPlane ==
  /\ Requested /\ ~RunOver /\ Mishap /\ restarts < MaxRestarts
  /\ restarts' = restarts + 1 /\ watchdog' = "off"
  /\ plog' = IF owner = "local"
             THEN Append(plog, Entry("run.failed", "startup")) ELSE plog
  /\ UNCHANGED <<runVars, daemonVars, workerVars, faults>>

-----------------------------------------------------------------------------
(* The worker's process dies.  A daemon started in its place has no thread *)
(* for the run, though its heartbeats may renew the lease.                 *)
CrashWorker ==
  /\ Requested /\ owner = "worker" /\ ~taken /\ up /\ Mishap
  /\ up' = FALSE
  /\ UNCHANGED <<runVars, plog, daemonVars, watchdog, thread, picked, applied, raced,
                 restarts, faults>>

(* The lease expires, or an operator retries the worker's runs: the run is *)
(* queued again.  The threads of a worker that still lives do not know.    *)
LoseRun ==
  /\ Requested /\ ~RunOver /\ owner = "worker" /\ ~taken /\ Mishap
  /\ owner' = "queue" /\ taken' = TRUE
  /\ UNCHANGED <<plog, daemonVars, watchdog, workerVars, restarts, faults>>

ClaimAgain ==
  /\ owner = "queue" /\ ~RunOver
  /\ owner' \in Workers \cup {"local"}
  /\ thread' = [thread EXCEPT !["later"] = IF owner' = "local" THEN "off" ELSE "runs"]
  /\ UNCHANGED <<taken, plog, daemonVars, watchdog, up, picked, applied, raced,
                 restarts, faults>>

-----------------------------------------------------------------------------
(* The threads fetch the control document and apply the resolutions in it. *)
(* It lists those of the worker's running jobs that were recorded for this *)
(* worker and that the log does not show as applied.                       *)
ResolutionApplied(n) ==
  \E m \in DOMAIN plog :
    /\ m > n /\ plog[m].type \in {"permission.resolved", "permission.resolve_failed"}
    /\ plog[m].decision # Announced

Outstanding(w) ==
  {n \in Indices("permission.resolve_requested") :
     owner = w /\ ~RunOver /\ plog[n].worker_id = w /\ ~ResolutionApplied(n)}

At(t, place) == thread[t] = place /\ (t \in FirstThreads => up)

(* The main loop's end stops the heartbeat thread.                         *)
FetchControl(t) ==
  /\ At(t, "runs") /\ picked[t] = {} /\ Outstanding(Home(t)) # {}
  /\ t = "heartbeat" => thread["main"] # "ended"
  /\ picked' = [picked EXCEPT ![t] = Outstanding(Home(t))]
  /\ UNCHANGED <<runVars, plog, daemonVars, watchdog, up, thread, applied, raced,
                 restarts, faults>>

Due(t) == CHOOSE n \in picked[t] : \A m \in picked[t] : n <= m

(* Mutant: the controls that were applied are not remembered.              *)
NotRemembered(t) == FALSE
AlreadyApplied(t) == Due(t) \in applied[Context(t)]

(* Threads look without a lock: another may have looked before and not yet *)
(* added what both found missing.                                          *)
Racing(t) ==
  \E u \in FirstThreads \ {t} : t # "later" /\ thread[u] = "checked" /\ Due(u) = Due(t)

SkipControl(t) ==
  /\ At(t, "runs") /\ picked[t] # {} /\ AlreadyApplied(t)
  /\ picked' = [picked EXCEPT ![t] = @ \ {Due(t)}]
  /\ UNCHANGED <<runVars, plog, daemonVars, watchdog, up, thread, applied, raced,
                 restarts, faults>>

CheckControl(t) ==
  /\ At(t, "runs") /\ picked[t] # {} /\ ~AlreadyApplied(t)
  /\ thread' = [thread EXCEPT ![t] = "checked"]
  /\ raced' = (raced \/ Racing(t))
  /\ UNCHANGED <<runVars, plog, daemonVars, watchdog, up, picked, applied, restarts, faults>>

(* An event of a worker is appended if the run's job is still its own.     *)
Accepted(t) == owner = Home(t) /\ ~RunOver

(* The resolution is added to applied_controls, sent to the daemon, and    *)
(* what came of it reported.                                               *)
Adds(t) ==
  /\ At(t, "checked")
  /\ applied' = [applied EXCEPT ![Context(t)] = @ \cup {Due(t)}]
  /\ UNCHANGED <<runVars, reported, watchdog, up, raced, restarts>>

ApplyControl(t) ==
  LET decision == plog[Due(t)].decision
  IN  /\ Adds(t) /\ Accepted(t)
      /\ PostDecision(decision, TRUE, t \in FirstThreads)
      /\ plog' = Append(plog, Entry("permission.resolved", decision))
      /\ thread' = [thread EXCEPT ![t] = "runs"]
      /\ picked' = [picked EXCEPT ![t] = @ \ {Due(t)}]

(* An exception ends the heartbeat thread, and the main loop goes on to    *)
(* fail the run.                                                           *)
Raises(t) ==
  /\ thread' = [thread EXCEPT ![t] = IF t = "heartbeat" THEN "ended" ELSE "raised"]
  /\ picked' = [picked EXCEPT ![t] = {}]

(* The daemon does not take it, or takes it and the log does not.          *)
FailControl(t) ==
  LET decision == plog[Due(t)].decision
  IN  /\ Adds(t) /\ Raises(t)
      /\ \E ok \in BOOLEAN :
           /\ ok => ~Accepted(t)
           /\ PostDecision(decision, ok, t \in FirstThreads)
      /\ plog' = IF Accepted(t)
                 THEN Append(plog, Entry("permission.resolve_failed", decision)) ELSE plog

(* The report fails, perhaps after it was appended.                        *)
LoseReport(t) ==
  LET decision == plog[Due(t)].decision
  IN  /\ Adds(t) /\ Raises(t) /\ Accepted(t) /\ Fails
      /\ \/ /\ told = NoDecision /\ told' = decision
            /\ plog' \in {plog, Append(plog, Entry("permission.resolved", decision))}
         \/ Refuses(t \in FirstThreads) /\ told' = told /\ plog' = plog

ReportFailure(t) ==
  /\ At(t, "raised") /\ thread' = [thread EXCEPT ![t] = "ended"]
  /\ \/ Fails /\ plog' = plog
     \/ /\ faults' = faults
        /\ plog' = IF Accepted(t) THEN Append(plog, Entry("run.failed", "worker")) ELSE plog
  /\ UNCHANGED <<runVars, daemonVars, watchdog, up, picked, applied, raced, restarts>>

GoesOn(t) ==
  \/ SkipControl(t) \/ CheckControl(t) \/ ApplyControl(t)
  \/ FailControl(t) \/ LoseReport(t) \/ ReportFailure(t)

-----------------------------------------------------------------------------
PermissionsNext ==
  \/ AskPermission \/ AnnounceDecision \/ RestartControlPlane
  \/ WatchdogWakes
  \/ \E ok \in BOOLEAN : WatchdogDenies(ok)
  \/ CrashWorker \/ LoseRun \/ ClaimAgain
  \/ \E t \in Threads : FetchControl(t) \/ GoesOn(t)

(* The watchdog's wait ends, the worker's main loop goes on, and the daemon *)
(* announces what it took.                                                 *)
PermissionsFairness ==
  /\ WF_pVars(AnnounceDecision) /\ WF_pVars(WatchdogWakes)
  /\ WF_pVars(\E ok \in BOOLEAN : WatchdogDenies(ok))
  /\ WF_pVars(FetchControl("main")) /\ WF_pVars(GoesOn("main"))

(* What the log calls resolved, and the permission panel therefore hides,  *)
(* was told to the agent, and it is the decision the agent was told.       *)
DecisionStands ==
  \A n \in Indices("permission.resolved") :
    told # NoDecision /\ plog[n].decision \in {told, Announced}

(* A decision ends the run, or one of the worker's threads, only if it was *)
(* not the only one recorded, a request failed, or the run was taken from  *)
(* the worker meanwhile: what one thread has applied the other does not    *)
(* apply again.  The exception is that both looked before either added it  *)
(* to applied_controls, without a lock; then the daemon refuses the second *)
(* request.  A second decision (the panel's buttons stay enabled, the      *)
(* watchdog does not know of a recorded decision) is refused as well.      *)
OneDecisionSparesTheRun ==
  (\E t \in Threads : thread[t] \in {"raised", "ended"}) =>
    \/ faults > 0 \/ taken \/ raced
    \/ Cardinality(Indices("permission.resolve_requested")) > 1

(* With the action deny every request is decided in the end, or its run is *)
(* over.  A restart of the control plane loses the watchdog and with it    *)
(* the promise, and a failed request may; so does a worker that crashes or *)
(* loses the run: what was recorded for it may never be applied.           *)
EveryPermissionSettles ==
  (Requested /\ StallAction = "deny") ~>
    (told # NoDecision \/ RunOver \/ restarts > 0 \/ faults > 0 \/ ~up \/ taken)
=============================================================================
