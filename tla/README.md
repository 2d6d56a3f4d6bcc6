# A verification project for the AgentFlow runtime

TLA+ specifications of the run control plane in `src/runtime/cloud_agents_runtime` (the run store, the
run manager, the remote worker daemon, the missions, the event log and its stream, permission requests)
and of the web console in `src/web/src` that operates it. They are model-checked with TLC on small instances,
and the main results are proved for every instance with TLAPS.

| file | what it is |
|---|---|
| `RunStore.tla` | the run queue of `store.py`: one operator per critical section |
| `RunScheduler.tla` | the threads of `manager.py`, `worker.py` and `adapters/fake.py` over that queue |
| `RunLifecycle.tla` | the abstract specification: what a client is promised about a run |
| `Missions.tla` | the threads of `missions.py` over the runs of one mission |
| `RunEvents.tla` | what the run page computes from events: `app.tsx`, `lib/api.ts` |
| `EventLog.tla` | the commits of `append_event`, and what a restart makes of them |
| `RunPage.tla` | a tab on a run's page, its polls and its `EventSource`, and `stream_events` behind it |
| `LogFollower.tla` | the abstract specification: what a page that follows a log promises |
| `Permissions.tla` | one permission request, through `manager.py`, `adapters/qwen.py` and `worker.py` |
| `Console.tla` | the pages and operations of the web console, composed with `Permissions` |
| `MCRunScheduler.tla`, `MCMissions.tla`, `MCRunPage.tla`, `MCConsole.tla`, `*.cfg` | the instances TLC checks |
| `RunStoreProofs.tla`, `RunSchedulerProofs.tla`, `SchedulingProofs.tla`, `MissionProofs.tla`, `MissionClaims.tla`, `RunPageProofs.tla`, `ConsoleProofs.tla`, `ConsoleClaims.tla` | the theorems and their proofs |
| `PROJECT.json` | components, runs, mutants, source map, findings, hazards and theorems |

## 1. The system

### 1.1 Components

**Run store** (`store.py`, `models.py`, `events.py`). One object under one re-entrant lock: runs,
jobs, workers, missions, executor leases in memory, each written through to SQLite; an
append-only event list per run, mirrored in `events.jsonl`. Operations: `create_run`,
`enqueue_run`, `append_event` (which moves the run's status and closes its job), `claim_next_job`,
`cancel_job`, `recover_expired_leases`, `heartbeat_worker`, `requeue_running_jobs_for_worker`,
`fail_orphaned_jobs_for_worker`, `prune_stale_workers`. Correct when: status, event log and job
agree; one worker at a time holds the lease; a decided run is never revived; what is reloaded
after a crash is what was promised before it.

**Run manager** (`manager.py`). Owns the scheduler lock, the heartbeat thread, a thread for each
run it executes and a watchdog for each timeout; serves the remote workers (claim, heartbeat,
control, events, artifacts) and the operators (drain, resume, retry). Every request is a sequence
of store sections, and other threads run between them. Correct when: capacity is respected, no
run is lost, drains are honoured, a run is executed by one attempt at a time, every run ends.

**Remote worker daemon** (`worker.py`). Polls for a claim, executes the run with a local adapter,
posts every event, heartbeats and pulls control. It may crash, be restarted by systemd, be late.

**Adapters** (`adapters/fake.py`, `adapters/qwen.py`) and **executor registry**
(`executors.py`). `start`, `send_input`, `cancel`, and threads that end the run. The qwen adapter
adds a session, an event pump, permissions and an external process with a port.

**Event stream** (`server.py stream_events`, `store.wait_for_events`, `web/src/app.tsx`
`useRunLiveEvents`). SSE with `Last-Event-ID`, gap events, and a page that merges what the stream brings
with what it polls. Correct when a page shows events of its run only, each once, without holes, and comes
to show all of them, the terminal one included.

**Permissions** (`manager.py resolve_permission`, `_permission_watchdog`; `worker.py _apply_control`;
`adapters/qwen.py`). A decision is sent to the agent's daemon, or recorded for the worker that executes the
run, and a watchdog decides when nobody does. Correct when what the log calls decided is what the agent was
told, every request is decided in the end, and one decision does no harm.

**Web console** (`web/src`). Pages of polled queries, and mutations that invalidate queries when they
are done; the state is react-query's cache, the pending mutations and a page's own state. Correct when a page
shows what its operator has done, no button stays disabled, nothing is done twice that makes sense once,
and an open page catches up with the server.

**Missions** (`missions.py`) and the **review gate** (`review_gate.py`). A graph of tasks, each a
run; gates that block; overrides; reconciliation after a restart. Correct when a mission ends, is
complete only if all its runs are, starts a task once and after its dependencies, and can be approved
when it is blocked.

**Persistence and replay** (`store.py _persist_*`, `_load_from_db`, `scripts/replay_run.py`). An
event is a JSONL line, a row, a job row and a run row, committed one after the other.

**Budget, resources, matching, workspace, cleanup, access, interop, profiles, ops,
HTTP server, deployment**: see `components` in `PROJECT.json`, each with its reason.

### 1.2 How they interact

```
 client --> RunManager.create_run / cancel --> RunStore (lock) --> listeners --> RunManager._on_event
                    |                               ^                               |
                    v                               |                               v
             _drain_queue (scheduler lock) --- claim_next_job                 _drain_queue, missions
                    |
                    v
         run thread -> adapter -> prompt thread -> append_event
 remote daemon --HTTP--> claim / heartbeat / control / events --> the same store
 browser tab --polls and operations--> the same store;  <--SSE-- wait_for_events <-- append_event
```

The store's lock is held for one section at a time. What goes wrong in such a system goes wrong
between sections: `PROJECT.json` lists 40 such hazards at their lines, with the properties that
watch them or the reason why none does yet.

### 1.3 What is hard

* Between the sections of one request another thread claims, requeues, finishes or cancels the run
  (`cancel` has four sections, `claim_remote_run` four, `_drain_queue` one per job).
* Several threads may end one run: prompt thread, timeout watchdog, cancel, remote posts, restart.
* Leases expire under workers that are alive; `retry_worker_runs` takes them away on purpose.
* The control plane stops anywhere. Its run threads die, the store's rows survive.
* A daemon dies of any exception `claim_once` lets through, and comes back under the same id.
* Missions have no thread of their own: whoever ends a run also syncs its task, evaluates its gate,
  blocks or finishes the mission and drains it, all without a lock but for `_claim_ready_tasks`, and
  these calls nest (`cancel_mission` ends runs whose listeners finish the mission).
* An append commits its event, its job and its run one after the other; a server that stops in between
  loads rows that disagree.
* A page learns the same events twice, by polls and by a stream; each may be late, break off or begin again,
  and an answer may arrive after the operator has gone to another page.
* A mutation is over when its invalidated queries are; polls that were asked before it are still on their way.
* A decision on a permission is applied by two threads of a worker, may compete with a second decision
  and with the watchdog's, and the daemon takes only the first.

## 2. The models

### 2.1 RunStore

State, one variable for each field that matters (`status`, `job`, `owner`, `lease`, `attempts`,
`queuedAt`, `wstatus`, `desired`); of the event log only `first`, the outcome its first terminal
event names, is kept, because that and the status are all that `is_terminal`, `append_event` and
the job queue look at. Time is reduced to what the code compares: the order of `queued_at`, with
ties (two jobs in one millisecond get the same stamp, `clock`), and whether a lease is past. Two history
variables serve the properties: `told`, what an operator last asked of a worker, and `torn`, the runs
whose terminal event was committed without its run.

One operator is one locked section: `StoreEnqueueRun` is `enqueue_run` up to the end of its `with`
block, and `run.queued` is appended by a separate step. `AppendEvent` includes `_finish_job`. Its three
commits (event, job, run) are one step while the process lives, because readers wait for the lock; a process
that stops between them leaves what was committed: `CutFirst`, `CutJob`, `CutLease`, `CutTorn`.
`MetadataMerged` is what `register_worker` makes of the `desired_state` a caller passes in.
`HeartbeatAndRecover` joins `heartbeat_worker` and the `recover_expired_leases` every caller of it
calls next: only the second looks at expiry, so nothing observable happens between the two.
`worker_matches_run` is the constant relation `Matches`.

### 2.2 RunScheduler

One action is one section with the thread-local code around it; program counters carry a thread
from section to section.

| variable | code |
|---|---|
| `creating[r]`, `cancelling[r]` | where `create_run`, `cancel` are; `asked` is `run.cancel_requested` in the log |
| `wake`, `schedulerLock`, `drainer[d]` | a pending call of `_drain_queue`, `_scheduler_lock`, the threads inside |
| `claim[c]` | a server thread in `claim_remote_run`; `fresh` while its daemon waits for the answer; `seen` is the `desired_state` it read for the heartbeat of its answer (`ClaimRead`), which that heartbeat writes back |
| `by[x]`, `pc[x]`, `turn[x]`, `timer[x]` | attempt `x = <<run, n>>`: worker, run thread, prompt thread, watchdog |
| `posts` | events of remote workers whose lease was checked and that are not yet appended |
| `stopped` | `_cancelled` of the adapter, per process |
| `self`, `up`, `crashes`, `restarts` | the id of the control-plane process, daemons alive, faults so far |

Faults: `LeaseExpires`; `DaemonCrash`, which is also what a lost answer to a claim amounts to
(the exception leaves `claim_once` and ends the daemon); `DaemonStart` (`Restart=always`);
`PostTimeout` (the daemon gives up on a post the server still works on); `Restart`, which stops the
control plane anywhere, kills its threads and requests, and runs the startup sequence: fail
orphans, register, recover, prune, under the same or another `RUN_WORKER_ID`. One `Restart` also stands for a
stop between the commits of an append (`StopInAppend`): of any terminal event some thread was about to append
(`Ending`), after the event or after the job, and of the `run.failed` of an orphan during a startup. Of a stop
inside another section nothing is left that a stop before or after it does not leave.

Simplifications:

* Startup is one step. While it runs no request is served; the drains nested in it (the listener
  of `run.failed`) are taken by the drain that follows. A second crash inside it is a second `Restart`.
* `FakeAdapter.cancel` sets `_cancelled` and appends in one step: the thread that reads the flag
  changes nothing but itself.
* Worker records are shared objects, so `ClaimCheck` reads the present status, as the code does.
* A cancellation seen by the daemon's heartbeat thread is carried out by its run thread.
* Every run has a prompt. Of the input of a client only its refusal is modelled (`RejectInput`); a follow-up
  input that is accepted starts another turn and is left out, so the models say nothing about a run's second turn.
* A run is cancelled by at most one request. `shutdown` is a special case of `Restart`.
* An operator's request is written back by a stale answer only if the answer read `active`. A resume undone by a
  stale `draining` is in the model as well; no property speaks of it.

### 2.3 RunLifecycle

Per run: an outcome that is decided once, a job that is created once, and a lease that passes from
worker to worker only through the queue. `RunStore` maps to it (`Lifecycle`): `outcome` is the status
if it is final, `holder` the owner of a running job.

### 2.4 Missions

One mission. A thread (a request, the startup, or whoever appends an event of a run) is the sequence
`todo[th]` of calls it still has to make, and a step makes the first of them: a call that calls others
puts them in front, so the sequence is the call stack read from the top. Listeners run in the thread that
appends, which is why `CancelRun` continues with `OnTerminalEvent`.

| variable | code |
|---|---|
| `mission`, `tstatus`, `trun`, `gate` | `MissionState.status`; status, `run_id` and `result["review_gate"]` of each task |
| `mapped` | `RunStore._task_runs`: whether an event of a run finds its task |
| `rstatus`, `orphans` | status of the runs made for a task; those whose process died |
| `verdict`, `judged` | what the gate's artifact says (chosen in `Init`), and whether it was ever read |
| `todo` | the calls each thread still has to make |
| `stale`, `twice`, `crossed` | history: tasks whose status was written by a thread that had been overtaken or not at all; tasks given back while they were being started; an approval and a block that cut across each other |

The threads are `Create`, `Cancel`, `Override`, `Startup`, and for each run those that append
`run.started`, its terminal event and, for tasks in `Repeated`, a second terminal event (`repeated`). `MaxBusy` bounds how many
of them are at work at once. What happens inside
a run is RunScheduler's subject: here a run starts and ends (`RunStarts`, `RunEnds`). `Remote` tasks are
executed by a remote worker, whose runs survive a restart and are only asked to cancel. `Restart` drops
all threads anywhere and runs `FailOrphan`, then `Reconcile`, task by task. `sync_task_from_run` reads
the run's status in one step and writes the task's in another (`SyncTask`, `ApplyStatus`), because it holds no lock
in between; an approval may come at any point of the other threads.

Simplifications:

* `deny` changes no status and is left out. The task graph is given (`Deps`); its validation is not modelled.
* The listeners of `run.queued`, also of a run that is requeued, do nothing to a task: the run is not
  linked yet, or its task is queued. A second `run.started` finds the status it would set.
* Loops over tasks are one step where nothing but other threads' reads falls between (`BlockMission`,
  `UnblockTasks`, the first loop of `cancel_mission`), and step by step where runs are created or ended.
* `CancelRun` of a remote run that is still queued either ends it or only asks: the worker may have claimed it, which
  is not a status. Both are tried.

### 2.5 The event log and the run page (EventLog, RunEvents, RunPage, LogFollower)

`Appended(stored, event, done)` is what SQLite has of the events, the job and the status of a run after
the first `done` commits of an append. A complete append is three; `RestartServer` is a server that stops
after fewer (also after none: between two appends), loads what was committed, fails what it was itself
executing (`FailOrphan`) and drops its streams.

| variable | code |
|---|---|
| `log[r]`, `rows[r]` | `RunStore._events`; `RunState.status` and `RunJob.status` |
| `cache[r]`, `flight[r]` | the queries `["runs", r]` and `["runs", r, "events"]`, and their answers on the way |
| `page`, `view`, `conn` | the mounted page; the `events` and `status` states of `useRunLiveEvents` |
| `source` | the `EventSource` with its last event id, and the server thread in `stream_events` |
| `hopped` | the route changed to another run without unmounting the page |

The log of a run that is followed has its sequence numbers for names, so that an event is its run, number,
type and key, and the page's sorted list without duplicates is a set. `RunEvents` has the pure functions on such sets: `MergeEvents`,
the transcript, its filters, the pending permissions. `LogFollower` is the promise: entries of
the subject's log, none taken back while the subject stays. `RunPage` maps to it by the part of `view`
that is of the open run.

Simplifications:

* What is appended until a worker has claimed the run is one event. The types that have a
  listener and no effect of their own are represented by `message.delta`, those without a listener by
  `permission.resolve_requested` and `cancel.ignored`; `lease.orphaned` comes with a restart.
* An SSE message is written and received in one step, and a poll asked and answered in one; a poll
  whose answer would say nothing new, and heartbeats, are left out. Tabs have nothing in common but the server.
* `record_gap_if_needed` never appends for such a page: what a client has received the server has committed,
  because readers wait for the store's lock, which an append holds until its last commit
  (`RunPageTypeOK`: `source.got` is never ahead of the log).
* `events.jsonl` is written before the commits and read by no part of the service: it is left out, and
  with it `replay_run.py`. A restart while a remote worker executes the run is `DropStream`.
* An event that ends the run comes from the run's own executor (`run.completed`), or from a restart
  (`run.failed`); `run.cancelled` ends it in the same way.

### 2.6 Permissions

One request of an agent, and the run it belongs to: from the attempt whose agent asked to one later attempt,
anywhere. The daemon is external: it takes the first decision and refuses later ones, and a request
to it may fail before or after it took effect (`PostDecision`); a daemon that did not ask, or whose session is over,
refuses, or is a shared one and takes it.

| variable | code |
|---|---|
| `owner`, `taken` | the job's owner: the control plane, the worker whose agent asked, another one, or the queue; whether it was taken from the first |
| `plog` | the events that are about the permission, with the `worker_id` a resolution was recorded for, and those that end the run |
| `told`, `reported` | the decision the daemon took; whether it announced it |
| `watchdog` | the thread of `_permission_watchdog` |
| `up`, `thread[t]` | the worker's process; where a thread is in `_apply_control`: between calls (`runs`), between looking at `applied_controls` and adding to it (`checked`), failed and about to report it (`raised`), `ended` |
| `picked[t]`, `applied[c]` | what a thread has fetched; `applied_controls` of the first attempt and of a later one |
| `raced` | history: both threads looked before either added |

`FetchControl` lists what the control plane gives out: resolutions recorded for this worker, of a run whose job is its own.
`CheckControl` and `ApplyControl` are the look at `applied_controls` and the addition to it, which no lock joins. A
failure is reported in two posts (`FailControl`: `permission.resolve_failed`; `ReportFailure`: `run.failed`); in the
heartbeat thread it ends the thread, in the main loop it ends the run. `LoseReport` is a report that fails, perhaps
after it was appended. Faults: `CrashWorker` (a daemon started in its place has no thread for the run, though its
heartbeats may renew the lease), `LoseRun` (expiry, or an operator's retry), `ClaimAgain`, `RestartControlPlane`, and
failed requests. `MaxFaults` and `MaxRestarts` bound two of them, `MaxMishaps` all together.

Left out: the watchdog's action `cancel` and the decision `cancel`, which are cancellations (RunScheduler); the
watchdog's own log entries; a third attempt; the race of two threads in the later attempt.

### 2.7 Console

A browser tab and one of the 18 operations, chosen in `Init`: operations touch each other only
through the queries, so a behaviour about one is enough. An operation is a record: its page, the query
that shows it done (`subject`), what it changes on the server, what it invalidates and in which order, and flags for
what its button does while it is pending and afterwards.

| variable | code |
|---|---|
| `ver`, `closed` | how often the server's state has changed; the versions in which it withdraws the operation's button |
| `takes`, `changes` | effects of this tab since one of them withdrew the button, until somebody else brings it back; changes by anybody else |
| `cached[k]`, `flight[k]` | a query's data (the version it was read at), and its fetch on the way |
| `calls` | the tab's mutations: stage, remaining invalidations (`step`), fetches they wait for (`wait`), whose button (`from`) |
| `here`, `visits`, `editing` | the page is mounted; opened how often; the profile editor shows a picked profile |

`Refetched` and `Joined` are react-query's rules: an invalidation cancels a fetch under way and starts anew, but a query
without data is joined. `clean` records that this, a failure or a page that was left happened to a mutation: then
its end says nothing about what is shown, and the properties say so. The flag `once` means that the state after the operation
withdraws its button until somebody else brings it back (a worker is resumed, a mission blocks again). `choice` is approve or
deny; a denied gate still blocks, so only an approval withdraws the buttons (`Withdraws`). For `resolvePermission` the server is
`Permissions`, whose actions interleave with the operator's; what the panel shows is then RunPage's subject.

Simplifications: one query of the page is looked at per behaviour (a mutation waits for others too, which only
delays it); cached data does not expire; a query that fails without being waited for is one that was
not asked; a tab is followed to its login or logout, not through a session that begins anew; forms, layout,
translations and downloads are left out.

## 3. What TLC checks

| run | instance | shows |
|---|---|---|
| `scheduler_safety` | 1 run, control plane + 1 remote daemon, 1 draining thread, 2 attempts, 1 crash, daemon comes back, operators drain/resume/retry at any point of a claim, heartbeats may be late | `TypeOK`, `LeaseCustody`, `DrainIsHonoured`, `ImplementsLifecycle` |
| `scheduler_restart` | 2 runs, 2 control-plane ids, 2 draining threads, 1 cancellation, 1 restart, also between the commits of an append | `LocalCapacity`, `NoRunForgotten`, `OutcomeIsFinal` |
| `scheduler_live` | 1 run with a deadline and a cancellation, control plane + daemon, 1 crash, punctual heartbeats, fairness | `OneExecution`, `OutcomeIsFirstTerminal`, `EveryRunEnds`, `FinishedRunsLeaveNoJob` |
| `remote_fencing` | 1 run, retry by an operator | finding 1 below |
| `remote_orphans` | 1 run, daemon crashes and comes back | finding 2 |
| `remote_cancel` | 1 run, cancellation, daemon crashes | finding 3 |
| `missions_safety` | two gates beside each other, 1 override at any point, a second terminal event, 2 threads at once | `MissionTypeOK`, `OneRunPerTask`, `BlockedCanBeApproved` |
| `missions_live` | a remote gate and a report after it, 1 cancellation, 1 override, 1 restart, 2 threads at once, fairness | `TasksFollowRuns`, `DependenciesFirst`, `CompletedIsDone`, `MissionEnds` |
| `run_page` | a run of up to 5 events (3 once a second page was opened) beside one that is over, 3 pages opened, 1 fault: a restart, a dropped or refused stream, a lost answer | `RunPageTypeOK`, `ViewIsOfItsRun`, `HolesAreUnlistened`, `PanelIsTruthful`, `EndsAreLogged`, `AgentTextOnlyGrows`, `FollowsTheLog`, `ViewCatchesUp`, `StreamSuffices` |
| `console_pages` | each of the 18 operations used twice, 1 change by others, the page opened twice; for a decision 1 operator and the denying watchdog, and 2 mishaps of: a failed request, a crash of the worker, a run that is taken from it, a restart | `ConsoleTypeOK`, `OwnWritesAreShown`, `AppliedOnce`, `DecisionStands`, `OneDecisionSparesTheRun`, `CallsSettle`, `PageCatchesUp`, `EveryPermissionSettles` |
| `mission_gates` | two gates, one after the other, 1 override | finding 4 |
| `mission_revived` | a gate and a task beside it, a report after both, 1 override | finding 5 |

**Properties.** `LeaseCustody`: job status, owner and lease agree after any mixture of claim,
recovery, retry and completion. `OutcomeIsFirstTerminal`: whoever else also tried to end a run, its
status is what the first terminal event in its log says, but for a run that a stopped process left torn: its log may
have two ends, of which the status is the second. `OutcomeIsFinal`: no step gives a decided
run another status or revives a finished job. `NoRunForgotten`: a run that is not over has a job
that is queued or held, but for three things a stopping process can cut off: `create_run` before
`enqueue_run`; `cancel` between `cancel_job` and `run.cancelled`; an append between the commit of the closed job and
that of the run (`torn`). Such runs stay as they are for ever, and the property names exactly them. `LocalCapacity`: the count and the claim of
`_drain_queue` are two sections. `OneExecution`: with punctual heartbeats and no operator retry, one
attempt at a run is executed at a time. `DrainIsHonoured`: a worker told to drain
gets no job until it is resumed, though each heartbeat and each startup re-registers it as active first. `told` is the
operator's side of it, so that a request that is undone shows: by `prune_stale_workers`, which forgets it, or by the answer
to a claim, which writes back the `desired_state` it has read before the operator changed it; the second part of the property says
that nothing else undoes one. `EveryRunEnds`, `FinishedRunsLeaveNoJob`: also after a crash.

**Bounds.** One run suffices where the property speaks of one run and the runs interact only
through capacity; `scheduler_restart` has two runs and capacity 1, so that both compete for a slot.
`MaxAttempts = 2` lets a run be taken away once and executed again; at the last attempt its lease
neither expires nor is retried (unless the run is over), which cuts behaviours but adds none.
`MaxCrashes`, `MaxRestarts` bound faults to one: a second would start from a state the proofs'
invariant covers. `Symmetry` permutes the draining threads only, in runs without liveness.
`Timed` are runs that may outlast their timeout, `Cancels` and `Operated` what clients and operators
may touch, `Punctual` says that heartbeats of live workers arrive before the lease runs out.

Missions. `OneRunPerTask`: of all the threads that drain the mission at once one starts the task, once, unless it was given
back while it was being started (`twice`): by a restart between `create_run` and the link, or by an approval that unblocks
what a thread had claimed. `DependenciesFirst`: a run
is made only after those of its dependencies completed and their gates let it pass or were approved.
`BlockedCanBeApproved`: a blocked mission has a record that blocks, without which nothing could move it. It is false in
three cases, which it names: an approval and a block cut across each other, or the process stopped halfway through
an approval (`crossed`); or a gate was started twice and `create_run` failed the second time, which
removes the record of the first.
`TasksFollowRuns`: once all threads are through, a task with a run that is over has its status, though the
run's events may have come before the task knew the run; except for a status written by a thread that was overtaken
between reading and writing (`running` over `completed`), and one that a stopped process did not come to write (`stale`). `CompletedIsDone`: a
completed mission has a completed run for each task. `MissionEnds`: a mission that was started becomes completed, failed,
cancelled or blocked, also across a restart at any point, but for four cases it names: a restart between `task.failed` of a
run that could not be made and `mission.failed` (`CutOff`), a mission that failed and was set running again by an
override (`Revived`, finding 5), an overtaken status (`Overtaken`), and `crossed`. The three history variables make each
exception a question the run can answer: without one of them TLC finds the property violated. Two tasks beside and two after one
another give every relation the code looks at. `MaxRuns = 2` leaves room for the second run of a claimed-twice task.
`MaxBusy = 2`: two threads at work reach every crossing of two; a third would begin as one of them is through.

Run page. `ViewIsOfItsRun`: no answer or message of a page that was left is shown, except when the address
bar or the history turned the page to another run in place (`hopped`): its state then stays and holds the events
of both. `HolesAreUnlistened`: what is missing below the last event shown has no listener. `PanelIsTruthful`:
a permission is offered exactly if, by the last event shown, it was asked and not decided, and the
transcript's filters show it. `AgentTextOnlyGrows`: text an operator has read does not change. `FollowsTheLog`: the
refinement. `EndsAreLogged`: wherever in an append the server stopped, a run that is over has an end in its log,
and a log with an end has no job that is held. `ViewCatchesUp`: an open, visible page comes to show the whole log. `StreamSuffices`: without a
poll that says the run is over, the stream shows everything it listens to and is closed. Five events are a started
run with a delta, a permission and its decision or end, or two deltas around one; the model values are two runs and
"any other page".

Console. `OwnWritesAreShown`: when a mutation is over the page shows its effect, whatever older poll is answered
late. `AppliedOnce`: an operation that has withdrawn its own guarded button has no further effect until somebody else brings the
button back; so a gate may be denied again and again (that leaves the mission blocked), and approved once. `CallsSettle`: no
mutation stays pending. `PageCatchesUp`: an open, visible page comes to show the server's state. `DecisionStands`: what the
log calls resolved the agent was told, and is the decision it was told. `OneDecisionSparesTheRun`: one recorded decision,
though two threads apply it, ends neither the run nor the heartbeats, unless both looked at `applied_controls` before either
added it (`raced`), a request failed, or the run was taken away meanwhile. `EveryPermissionSettles`: with
the action `deny` a request is decided or its run is over, but for a restart of the control plane, which drops the watchdog
and starts none, a failed request, and a worker that crashed or lost the run: what is recorded for it may never be
applied. Two uses, one foreign change and one fault are what it takes for a poll to be older than a use. Two mishaps let a
crash or a lost run meet a failed request or a restart; of two decisions that compete one is the operator's and one the
watchdog's (`MaxDecisions = 1`), which differ in nothing but who sends them.

**Fairness** (`LiveSpec`). Weak fairness of the steps threads take by themselves: the heartbeat loop,
drain loops, started run, prompt and claim threads, appends of accepted posts, polling and
heartbeats of a running daemon, systemd's restart, and lease expiry (time passes). Nothing is
assumed of clients, operators, faults, or of the timeout watchdog and `PostTimeout`. Weak fairness is
what an operating system gives a runnable thread; no strong fairness is used. `LiveSpec` of Missions
assumes the same of its threads, and that runs end, which `EveryRunEnds` shows of the scheduler. `LiveSpec` of
RunPage assumes that the server writes, the network delivers and the `EventSource` reconnects, as its standard says; that of
Console that the server answers and the tab goes on, and of Permissions that the watchdog's wait ends, the worker's main loop turns and the
daemon announces what it took. Polling stops in a hidden tab, so it is an assumption of the two properties that
need it (`Polling`), and nothing is assumed of operators, runs or restarts.

**What the properties leave open, because the code does.** Their exceptions are behaviours of the code, each reached in a run.
A server that stops after the commit of the job and before that of the run leaves `running` in the run's row for ever: no
job is there to fail, and `cancel` looks at the log, finds the end and ignores the request (`torn` in `NoRunForgotten`). A
server that stops before the commit of the job fails a run whose log already says completed: its log has two ends and the
status is the second (`torn` in `OutcomeIsFirstTerminal`; `EndsAreLogged` follows the same commits on the page's side). A
claim that is answered while an operator drains its worker undoes the request, and the worker gets the next job, although the
operation manual (`docs/implementation/operation-manual.md:515`) says that a draining worker gets no new run. Two gates beside each other can leave a
mission blocked with nothing to approve, and a stale status can leave one running with nobody to end it.
A second decision on a remote run, for which the panel's enabled buttons or the
watchdog suffice, is refused by the daemon, and the exception ends the run or the worker's heartbeats for it; so is one
decision that two threads apply.
The sign-out button stays disabled after a logout that failed. Saving a profile compares no versions and
closes whichever editor is open. A token whose answer is lost cannot be shown again.

### Findings

1. `EventsComeFromLeaseHolder` (manager.py:485). The lease is checked in one section and the event
   appended in another, and neither names the attempt. After a retry or an expiry in between, the
   event of a worker without the lease is appended, and a terminal one ends the run. The roadmap
   (`docs/implementation/implementation-roadmap.md:336`) says ownership checks prevent it.
2. `OrphanedJobsAreRecovered` (store.py:344). Heartbeats renew every running job of a worker id. A
   daemon that is started again under its id renews the lease of the run it lost, for ever. The
   roadmap (line 332) says that such jobs are failed when the same worker restarts; the code does
   so for the control plane's own id only.
3. `CancelRequestReachesWorker` (manager.py:235). The request recorded for a remote owner is lost when
   its lease expires and the control plane itself claims the run. The operation manual (line 519)
   says the worker pulls and carries out the request.

4. `GatesAreJudged` (missions.py:486). When a gate blocks, every waiting task gets a copy of its record; an
   approval marks the copies overridden, and a gate among these tasks, when its run completes, is not
   evaluated because it has a record. Its artifact may say block: it is not read. The runtime's README (line 477)
   says that `release-gate` emits its events and blocks like the review gate.
5. `OnlyBlockedResumes` (missions.py:280). A task fails while a gate beside it is still running; the mission is
   failed, and then the gate's verdict is recorded. `override_review_gate` looks for such a record and not at the
   mission's status: an approval sets the failed mission running, and as nothing that waits for the failed
   task is ever ready, it runs for ever. The roadmap (line 224) says that an approval resumes a blocked mission.

## 4. What is proved

The proofs hold for any numbers of runs, workers, threads, crashes, restarts and attempts, from
`StoreAssumption` and `SchedulerAssumption` alone (the runs are finitely many, the sets are disjoint
where the code's ids are, `_drain_queue` claims without a predicate); those of the missions for any task
graph, gates and numbers of runs, overrides and restarts from `MissionAssumption` (which says of `InOrder`, the order in
which a set of tasks is gone through, that it is a sequence of the set's elements without repetition); those of the run page for any
bounds on events, pages and faults from `RunPageAssumption`, those of the console for any numbers of uses, changes, visits (the
page is opened at least once), restarts and faults from `ConsoleAssumption` and `PermissionsAssumption`.

| theorem | states |
|---|---|
| `TypeCorrect` | `Spec => []TypeOK`, including `attempts <= MaxAttempts` |
| `FirstTerminalDecides` | `Spec => []OutcomeIsFirstTerminal` |
| `LeasesAreKept` | `Spec => []LeaseCustody` |
| `OutcomesAreFinal` | `Spec => OutcomeIsFinal` |
| `Refinement` | `Spec => ImplementsLifecycle` |
| `DrainsAreHonoured` | `Spec => DrainIsHonoured` |
| `CapacityIsKept` | `Spec => []LocalCapacity` |
| `NoRunIsForgotten` | `Spec => []NoRunForgotten` |
| `OneIsExecuted` | `Spec => [](Punctual /\ Operated = {} /\ restarts = 0 => OneExecution)` |
| `MissionTypes` | `Spec => []MissionTypeOK` |
| `DependenciesComeFirst` | `Spec => []DependenciesFirst` |
| `CompletedMissionIsDone` | `Spec => []CompletedIsDone` |
| `EachTaskRunsOnce` | `Spec => []OneRunPerTask` |
| `TasksFollow` | `Spec => []TasksFollowRuns` |
| `BlockedHasRecord` | `Spec => []BlockedCanBeApproved` |
| `PageTypes` | `Spec => []RunPageTypeOK` |
| `PagesAreSeparate` | `Spec => []ViewIsOfItsRun` |
| `NoHoles` | `Spec => []HolesAreUnlistened` |
| `EndsAreKnown` | `Spec => []EndsAreLogged` |
| `PageFollows` | `Spec => FollowsTheLog` |
| `PanelTellsTheTruth` | `Spec => []PanelIsTruthful` |
| `TextsOnlyGrow` | `Spec => AgentTextOnlyGrows` |
| `ConsoleTypes` | `Spec => []ConsoleTypeOK` |
| `OwnWritesShow` | `Spec => []OwnWritesAreShown` |
| `GuardedOnce` | `Spec => []AppliedOnce` |
| `DecisionsStand` | `Spec => []DecisionStands` |
| `OneDecisionSpares` | `Spec => []OneDecisionSparesTheRun` |

*The queue (`RunStoreProofs`).* Every step of the scheduler is, for the queue, one of few: a
creation, an enqueueing, or a *later* step on runs that exist (`QueueStep`, `LaterStep`). `QueueInv` is
the type of the queue, the two invariants, `Beginnings` (what a run without a job looks like) and
`AttemptLeft` (a job that is queued or may be queued again has an attempt left, which makes the bound
inductive). `QueueInvStep` shows that each kind of step preserves `QueueInv`, `DecidedStays` that none
changes a decided run, `LifecycleStep` that each is a step or a stutter of `RunLifecycle`.

*The scheduler (`RunSchedulerProofs`).* A thread appends to a run's log only if the run exists, which
no queue invariant knows. `ThreadInv` is the type of the thread variables with what each program
counter implies: `ClientsKnow` (requests in flight are about created runs), `AttemptsKnow` (an attempt
with a thread, timer or post has a job) and `ClaimsKnow` (the attempt in an answer is one that was
claimed). `IInv == QueueInv /\ ThreadInv` is inductive: one step for each action shows that it keeps
`ThreadInv` and is a `QueueStep`. The theorems follow from `Invariance` and the lemmas on the queue.

*Between the sections (`SchedulingProofs`).* Four properties need the threads too. Only a claim
raises `attempts` (`OnlyClaimsCount`), so every other step gives nobody a job. `DrainsAreHonoured`:
the record of a worker told to drain says so (`DrainKnown`), but for the control plane's own record
between a startup, which registers it as active, and the heartbeat every `_drain_queue` begins with;
no claim falls in between. A request is lost only where the property says: the invariant ties `told` to
`desired`, and `OnlyAnswersUndo` goes through the steps that write `desired`. `CapacityIsKept`: the lock holder is alone with the lock and its count is
an upper bound until it claims (`DrainerKnows`), because other threads only take jobs away and a
restart under the same id fails what the process before it was running; a restart under a new id
finds no job of that id. `NoRunIsForgotten`: a quiet step (`QuietStep`: neither creates a run or
its job nor cancels a job) leaves an undecided run its work (`QuietKeepsWork`), and the other
sections keep the request that owes the run one (`RequestsStay`); a stop in an append that closed the job leaves the run
in `torn`, from which nothing removes it. `OneIsExecuted`: an attempt that is executed, or
whose answer is on its way to the daemon that asked for it, is the last one, its worker is alive, and unless its run is over
its lease has not expired (`Current`); so nobody can requeue the run, and nobody claim it, before the attempt is out of
hand. Each hypothesis is needed: late heartbeats let the lease of a living worker expire, `retry_worker_runs` requeues
under it, and while the control plane is down nobody takes heartbeats.

*Missions (`MissionProofs`).* A thread is the sequence of its calls, so the invariant says what each call on any stack
knows (`CallsOK`): what was true when it was pushed and what no step of another thread undoes. A call about a run knows
that the run was made, one that starts a task that its dependencies are cleared (`Cleared` never becomes false again: a
completed run stays completed, a verdict stays read), one that ends the mission as completed that every task has completed. `MissionInv` adds
the type, which threads may hold which calls (`CallersKnown`), what a task's status says of its runs
(`TaskOK`), and what is true while tasks are still being added and after a restart. Of a task's status only `completed` says
something about its runs: after a restart or with late callbacks any other may disagree with them.

*Who runs a task (`MissionClaims`).* Three invariants, none with a hypothesis on restarts, overrides or the
scheduling of threads: what breaks a claim is a history variable that the step concerned sets. `ClaimInv`: from
`_claim_ready_tasks` to the link of its run a task that was never given back has one call at most, in one thread (`ClaimsOK`,
`ClaimedOnce`), and one that nobody has claimed has no run (`RunOK`). `FollowInv`: a task whose run is over shows its status, or it
is in `stale`, or some thread has still to read the run's status or has read the right one (`SeenTo`); `EventInv`, that the
threads of a run's events have nothing to do before the event, makes the thread of the event such a one, and the look at the end of
`_start_task` makes up for an event that found no link. `BlockInv`: who is about to block the mission has a gate with a
record and a run behind it (`Blocker`), or the case is excused. An attempt to prove this without the excuses shows where
they are needed: on two gates beside each other the thread that judged the second has written its record and not yet
called `_block_mission` (`missions.py:514-519`) when the mission, blocked by the first, is approved; the approval takes
both records, and the thread then blocks the mission with none left to approve.

*The run page (`RunPageProofs`).* `PageInv` is the type of the page with its log (`PageTypeOK`), no answer and no
stream ahead of the log (`NothingAhead`), a view of logged events (`ViewIsLogged`), `ViewIsOfItsRun`, `HolesAreUnlistened`, and `StreamIsShown`: what
the stream has delivered is shown as far as anybody listens to it, without which a reconnect could skip what was never shown. It
is inductive because a log only grows (`Extends`, `Growing`), so that what was an event of the log stays one, and because what is merged
leaves no hole (`Settled`): a poll's answer begins with the first event, and a message follows what the stream delivered.
A restart needs the store's side: `StoredOK` says that events, job and status are well formed after any number of commits, and
`AppendedOK` that what comes out extends what was there. For `EndsAreLogged` each commit keeps `Torn` (a terminal
status, and a job that is over, have an end in the log), which a stop in the middle may leave, and `FailOrphan` makes of it
`EndsOK`, in which log and job agree again. `PageFollows` maps each step: an append or a restart is `Grow`, polls and messages
are `Learn`, navigation is `Turn`.
`PanelTellsTheTruth` and `TextsOnlyGrow` are about what is computed from the view. The panel's list depends only on which
permission events are shown, and the transcript has a bubble of its own for each of them. A text is a run of chunks between two other
events: it would be split, or joined to what came before, by an event that arrives late in the middle; by
`HolesAreUnlistened` what is listened to arrives in order, and what is not listened to makes no bubble (`LateComesLast`).

*The console (`ConsoleProofs`).* `ConsoleInv` has `QueriesOK` (an answer on its way is not older than what is shown, and
neither is newer than the server) and `CallOK`, which says of every query a mutation has invalidated so far that it shows
the mutation's effect, or that the mutation waits for an answer that does (`Refreshing`). A poll asked before
the effect cannot be that answer, because the invalidation replaced it; a query without data is the exception
(`clean`). At the end of a mutation nothing is waited for, so everything is shown (`InvShows`). `DecisionInv` has `LogOK` (what the log
calls resolved was told), `Pickings` (what a worker's thread has fetched is a resolution in the log) and `Asked` (what
the operator sends is a decision). `SparesInv`: while one decision is
recorded, nothing failed, the run was not taken and no two threads looked at once (`Undisturbed`), only the first attempt is
there, none of its threads ends, at most one is between looking and adding, and if the daemon was told, the resolution is among
those the worker has applied (`Calm`). So the thread that applies it is the first to send it, and the other passes it over.

*Once (`ConsoleClaims`).* `TypeInv` counts: the server's version is at most one more than the changes made and the calls
that took effect, and a mutation waits only for fetches that are under way (`WaitsOK`). `GuardedOnce`: while nothing failed, no
page was left and no query was joined before it had data (`AllWell`), one call is under way at a time, and of the call that last
withdrew the button every version since its effect is one that withdraws it (`OnceInv`). Before that call is over its button
is disabled; afterwards `CallOK` says that the query the button is guarded by, which every such operation refreshes
(`SubjectsAreRefreshed`), shows a version not older than the effect, and every such version withdraws the button.

Every invariant and every action property that a passing run checks is proved, without a hypothesis but for `OneIsExecuted`,
whose conditions (punctual heartbeats, no operators, no restart) are those of its run, `scheduler_live`.

*Model-checked only.* The liveness properties (`EveryRunEnds`, `FinishedRunsLeaveNoJob`, `MissionEnds`, `ViewCatchesUp`,
`StreamSuffices`, `CallsSettle`, `PageCatchesUp`, `EveryPermissionSettles`). *Out of the prover's reach:* liveness under
fairness and `ENABLED`; induction over data; anything about `RECURSIVE` operators, which these modules
therefore do not use.

## 5. Plan

What the modules stand on comes first; each has a run with its hazards' properties, mutants for each, and,
where it keeps state, a proof of its inductive invariant.

1. `RunLifecycle`, `RunStore`, `RunScheduler`: done, with their safety properties proved.
2. `EventLog`: done for events, jobs and runs, proved. Left: `events.jsonl` and `replay_run.py`, of which the
   roadmap says that they rebuild a run's state; with two ends in a log they disagree with the store.
3. `Missions`: done, with its safety properties proved. Left: a run for a mission that completes before its
   last gate is evaluated.
4. `RunPage` with `EventLog`, `LogFollower`: done, with its safety properties and the refinement proved.
5. `Permissions`, `Console`: done, with their safety properties proved.
6. `Executors` with the qwen adapter: start and cancel races, ports. Candidates: no port is leaked; no
   executor outlives its run.
7. Pure algorithms: task graph validation, review gate decision, worker matching, resource limits,
   budget quotes, each against a reference definition over bounded inputs.

## 6. What is not modelled

Workspace allocation, HTTP routing, request authentication, interop, metrics and the deployment scripts have no
state or concurrency of their own that a property would be about; of profiles, access and operations the
console's side is modelled. The executor registry and the pure algorithms are planned (6 and 7 above).
Artifacts and raw events are data the control flow does not read. Of the console, layout, forms, translations,
theme and downloads are left out. The supervisor and the Temporal sketch are not part of the running service.
