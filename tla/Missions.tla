------------------------------ MODULE Missions ------------------------------
(***************************************************************************)
(* MissionManager (runtime/cloud_agents_runtime/missions.py) and the       *)
(* mission part of RunStore: one mission, whose tasks form a graph and are *)
(* each executed as a run.  Nothing in it runs by itself: the threads that *)
(* append run events call handle_run_event and drain_mission, and so do    *)
(* requests and the startup of the process.  A thread is the sequence of   *)
(* calls it still has to make (todo); a step makes the first of them up to *)
(* the next point where another thread can change what was read.  What     *)
(* happens inside a run is RunScheduler; here a run has a status only.     *)
(***************************************************************************)
EXTENDS Naturals, Sequences, FiniteSets

CONSTANTS
  Tasks,         \* the task ids of the mission
  InOrder(_),    \* a set of tasks by MissionTask.order
  Deps,          \* MissionTask.depends_on
  Gated,         \* is_structured_gate_task: profiles with artifacts.gate
  NoTask,        \* calls that are about no task
  Remote,        \* tasks whose runs only a remote worker matches
  Repeated,      \* tasks whose runs may append a second terminal event
  MaxRuns,       \* bound: at this many runs of a task create_run raises
  MaxOverrides,  \* bound on approved overrides
  MaxCancels,    \* bound on requests to cancel the mission
  MaxRestarts,   \* bound on restarts of the control plane
  MaxBusy        \* bound on the threads that are at work at the same time

Nums == 1 .. MaxRuns

ASSUME MissionAssumption ==
  /\ \A S \in SUBSET Tasks :
       /\ InOrder(S) \in Seq(S)
       /\ \A i, j \in DOMAIN InOrder(S) : InOrder(S)[i] = InOrder(S)[j] => i = j
  /\ Deps \in [Tasks -> SUBSET Tasks]
  /\ Gated \subseteq Tasks
  /\ Remote \subseteq Tasks
  /\ Repeated \subseteq Tasks
  /\ NoTask \notin Tasks
  /\ {MaxRuns, MaxOverrides, MaxCancels, MaxRestarts, MaxBusy} \subseteq Nat

VARIABLES
  mission,    \* MissionState.status, "absent" before create_mission
  tstatus,    \* MissionTask.status, "absent" before add_mission_task
  trun,       \* MissionTask.run_id, 0 for None
  gate,       \* MissionTask.result["review_gate"]
  mapped,     \* RunStore._task_runs: the runs of a task whose events find it
  judged,     \* tasks with a *.gate_* event in the mission's log
  verdict,    \* what the gate artifact in a gated task's run directory says
  rstatus,    \* RunState.status of the runs made for a task
  todo,       \* the calls each thread still has to make
  orphans,    \* runs whose process died, not yet failed by the startup
  repeated,   \* runs whose second terminal event was appended
  overrides, cancels, restarts,
  stale,      \* history: tasks whose status is not what their run had by then
  twice,      \* history: tasks given back though they had a run or were being started
  crossed     \* history: an approval and a block cut across each other

taskVars  == <<tstatus, trun, gate, mapped, judged>>
runVars   == <<rstatus, orphans>>
faultVars == <<repeated, overrides, cancels, restarts, stale, twice, crossed>>
vars      == <<mission, taskVars, verdict, runVars, todo, faultVars>>

TerminalStatuses == {"completed", "failed", "cancelled"}
TaskStatuses     == {"pending", "queued", "running", "blocked"} \cup TerminalStatuses
Terminal(s)      == s \in TerminalStatuses \cup {"blocked"}

(* The threads: a request or the startup, or what appends events of a run. *)
Create   == <<"create", NoTask, 0>>
Cancel   == <<"cancel", NoTask, 0>>
Override == <<"override", NoTask, 0>>
Startup  == <<"startup", NoTask, 0>>
Started(t, n) == <<"started", t, n>>
Ended(t, n)   == <<"ended", t, n>>
Again(t, n)   == <<"again", t, n>>
Threads == {Create, Cancel, Override, Startup}
             \cup {"started", "ended", "again"} \X Tasks \X Nums

Idle(th) == todo[th] = <<>>
Quiet    == \A th \in Threads : Idle(th)

(* A call to be made; run and status are what was read for it before.      *)
Call(op, t, n, s) == [op |-> op, task |-> t, run |-> n, status |-> s]
Do(op)            == <<Call(op, NoTask, 0, "none")>>
DoTask(op, t)     == <<Call(op, t, 0, "none")>>
Sync(t, n)        == <<Call("sync", t, n, "none")>>
ForEach(op, S) ==
  [i \in DOMAIN InOrder(S) |-> Call(op, InOrder(S)[i], 0, "none")]

(* _on_event: handle_run_event, and for a terminal event drain_mission.    *)
OnTerminalEvent(t, n) == Sync(t, n) \o Do("drain")

Upcoming(th)     == IF todo[th] = <<>> THEN "none" ELSE Head(todo[th]).op

At(th, op)       == Upcoming(th) = op
Then(th, calls)  == todo' = [todo EXCEPT ![th] = calls \o Tail(@)]
Spawn(th, calls) == todo' = [todo EXCEPT ![th] = calls]
-----------------------------------------------------------------------------
Ops == {"add", "begin", "drain", "start", "create", "link", "sync", "apply", "evaluate",
        "judge", "block", "check", "finish", "end", "cancel", "cancelrun", "recheck",
        "override", "unblock", "resume", "orphans", "reconcile", "reconciletask"}

MissionTypeOK ==
  /\ mission \in {"absent", "created", "running", "blocked"} \cup TerminalStatuses
  /\ tstatus \in [Tasks -> {"absent"} \cup TaskStatuses]
  /\ trun \in [Tasks -> 0 .. MaxRuns]
  /\ gate \in [Tasks -> {"none", "open", "blocking", "overridden"}]
  /\ mapped \in [Tasks -> SUBSET Nums]
  /\ judged \subseteq Gated
  /\ verdict \in [Gated -> {"open", "blocking"}]
  /\ rstatus \in [Tasks \X Nums -> {"none", "queued", "running"} \cup TerminalStatuses]
  /\ todo \in [Threads -> Seq([op : Ops, task : Tasks \cup {NoTask}, run : 0 .. MaxRuns,
                               status : {"none", "queued", "running", "blocked"}
                                          \cup TerminalStatuses])]
  /\ orphans \subseteq Tasks \X Nums
  /\ repeated \subseteq Tasks \X Nums
  /\ overrides \in 0 .. MaxOverrides
  /\ cancels \in 0 .. MaxCancels
  /\ restarts \in 0 .. MaxRestarts
  /\ stale \subseteq Tasks /\ twice \subseteq Tasks
  /\ crossed \in BOOLEAN

Init ==
  /\ mission = "absent"
  /\ tstatus = [t \in Tasks |-> "absent"]
  /\ trun = [t \in Tasks |-> 0]
  /\ gate = [t \in Tasks |-> "none"]
  /\ mapped = [t \in Tasks |-> {}]
  /\ judged = {}
  /\ verdict \in [Gated -> {"open", "blocking"}]
  /\ rstatus = [x \in Tasks \X Nums |-> "none"]
  /\ todo = [th \in Threads |-> <<>>]
  /\ orphans = {} /\ repeated = {}
  /\ overrides = 0 /\ cancels = 0 /\ restarts = 0
  /\ stale = {} /\ twice = {} /\ crossed = FALSE

Known         == {t \in Tasks : tstatus[t] # "absent"}
Made(t)       == {n \in Nums : rstatus[<<t, n>>] # "none"}
RunFinal(t, n) == rstatus[<<t, n>>] \in TerminalStatuses
Serving       == Idle(Startup)  \* requests are served once startup is through
Room          == Cardinality({th \in Threads : ~Idle(th)}) < MaxBusy

(* Some thread is to start the task or to link the run it made for it.     *)
Starts(c, t) == c.op \in {"start", "create", "link"} /\ c.task = t
Starting(t) == \E th \in Threads : \E i \in DOMAIN todo[th] : Starts(todo[th][i], t)

(* Some thread is about to block the mission; an approval is halfway.      *)
Blocks(c) == c.op = "block" \/ (c.op = "end" /\ c.status = "blocked")
Blocking  == \E th \in Threads : \E i \in DOMAIN todo[th] : Blocks(todo[th][i])
Approving == Upcoming(Override) \in {"unblock", "resume"}

(* Tasks that go back to "pending" and will be started: of these, the ones *)
(* that were or are being started already.                                 *)
StartedBefore(S) == {t \in S : Made(t) # {} \/ Starting(t)}

-----------------------------------------------------------------------------
(* create_mission: the mission, then its tasks one by one, then            *)
(* mission.started and the first drain.                                    *)
CreateMission ==
  /\ mission = "absent"
  /\ Serving /\ Room
  /\ mission' = "created"
  /\ Spawn(Create, ForEach("add", Tasks) \o Do("begin") \o Do("drain"))
  /\ UNCHANGED <<taskVars, verdict, runVars, faultVars>>

AddTask(th) ==
  /\ At(th, "add")
  /\ tstatus' = [tstatus EXCEPT ![Head(todo[th]).task] = "pending"]
  /\ Then(th, <<>>)
  /\ UNCHANGED <<mission, trun, gate, mapped, judged, verdict, runVars, faultVars>>

BeginMission(th) ==
  /\ At(th, "begin")
  /\ mission' = IF mission = "created" THEN "running" ELSE mission
  /\ Then(th, <<>>)
  /\ UNCHANGED <<taskVars, verdict, runVars, faultVars>>
-----------------------------------------------------------------------------
CompletedAllows(t) == tstatus[t] = "completed"  \* mutant: gates are not looked at

(* task_allows_dependents.                                                 *)
AllowsDependents(t) ==
  tstatus[t] = "completed" /\ (t \in Gated => gate[t] \in {"open", "overridden"})

(* Mutant: what another thread is about to start is claimed once more.     *)
ReadyAgain(t) ==
  tstatus[t] \in {"pending", "queued"} /\ trun[t] = 0 /\ \A d \in Deps[t] : AllowsDependents(d)

Ready(t) == tstatus[t] = "pending" /\ \A d \in Deps[t] : AllowsDependents(d)

(* _claim_ready_tasks, which holds the manager's lock, and the loop of     *)
(* drain_mission over what it claimed.                                     *)
Drain(th) ==
  /\ At(th, "drain")
  /\ LET ready == IF Terminal(mission) THEN {} ELSE {t \in Tasks : Ready(t)}
     IN  /\ tstatus' = [t \in Tasks |-> IF t \in ready THEN "queued" ELSE tstatus[t]]
         /\ Then(th, ForEach("start", ready) \o Do("check"))
  /\ UNCHANGED <<mission, trun, gate, mapped, judged, verdict, runVars, faultVars>>

(* _start_task: the check it begins with.                                  *)
StartTask(th) ==
  /\ At(th, "start")
  /\ LET t == Head(todo[th]).task
     IN  Then(th, IF ~Terminal(mission) /\ tstatus[t] = "queued"
                  THEN DoTask("create", t) ELSE <<>>)
  /\ UNCHANGED <<mission, taskVars, verdict, runVars, faultVars>>

(* create_run makes the next run of the task, whose run.queued finds no    *)
(* task yet.                                                               *)
CreateRun(th) ==
  /\ At(th, "create")
  /\ \E n \in Nums :
       LET t == Head(todo[th]).task
       IN  /\ Made(t) = 1 .. (n - 1)
           /\ rstatus' = [rstatus EXCEPT ![<<t, n>>] = "queued"]
           /\ Then(th, <<Call("link", t, n, "none")>>)
  /\ UNCHANGED <<mission, taskVars, verdict, orphans, faultVars>>

(* create_run raises: unknown adapter, budget exceeded, no workspace.      *)
CreateRunFails(th) ==
  /\ At(th, "create")
  /\ LET t == Head(todo[th]).task
     IN  /\ tstatus' = [tstatus EXCEPT ![t] = "failed"]
         /\ gate' = [gate EXCEPT ![t] = "none"]
         /\ stale' = IF trun[t] = 0 THEN stale ELSE stale \cup {t}
         /\ Then(th, <<Call("finish", NoTask, 0, "failed")>>)
  /\ UNCHANGED <<mission, trun, mapped, judged, verdict, runVars, repeated, overrides,
                 cancels, restarts, twice, crossed>>

NoLookBack(t, n) == <<>>  \* mutant: events that came before the link are lost

(* At its end _start_task looks at the run once more.                      *)
LookBack(t, n) == Sync(t, n)

(* The rest of _start_task.  The record of the task is one object that all *)
(* threads share, so a run linked before stays in _task_runs.              *)
LinkRun(th) ==
  /\ At(th, "link")
  /\ LET t == Head(todo[th]).task
         n == Head(todo[th]).run
     IN  /\ trun' = [trun EXCEPT ![t] = n]
         /\ mapped' = [mapped EXCEPT ![t] = @ \cup {n}]
         /\ tstatus' = [tstatus EXCEPT ![t] =
                          IF RunFinal(t, n) THEN "running" ELSE rstatus[<<t, n>>]]
         /\ Then(th, LookBack(t, n))
  /\ UNCHANGED <<mission, gate, judged, verdict, runVars, faultVars>>
-----------------------------------------------------------------------------
(* Mutant: a status the mission's code does not know.                      *)
TaskStatusMisspelt(s) == IF s = "completed" THEN "done" ELSE s

(* run_status_to_task_status, for the statuses of a run that was enqueued. *)
TaskStatus(s) == s

(* sync_task_from_run up to where it has read the status of the run.       *)
SyncTask(th) ==
  /\ At(th, "sync")
  /\ LET t == Head(todo[th]).task
         n == Head(todo[th]).run
         s == TaskStatus(rstatus[<<t, n>>])
         same == tstatus[t] = s /\ ~Terminal(s)
     IN  Then(th, IF n \notin mapped[t] \/ same THEN <<>> ELSE <<Call("apply", t, n, s)>>)
  /\ UNCHANGED <<mission, taskVars, verdict, runVars, faultVars>>

(* ... and from there on it writes what it read.                           *)
AfterStatus(t, s) ==
  CASE s = "completed"             -> DoTask("evaluate", t)
    [] s \in {"failed", "cancelled"} -> <<Call("finish", NoTask, 0, s)>>
    [] OTHER                       -> <<>>

ApplyStatus(th) ==
  /\ At(th, "apply")
  /\ LET t == Head(todo[th]).task
         n == Head(todo[th]).run
         s == Head(todo[th]).status
     IN  /\ tstatus' = [tstatus EXCEPT ![t] = s]
         /\ gate' = [gate EXCEPT ![t] = IF Terminal(s) /\ t \notin Gated THEN "none" ELSE @]
         /\ stale' = IF n = trun[t] /\ s = rstatus[<<t, n>>] THEN stale \ {t}
                                                             ELSE stale \cup {t}
         /\ Then(th, AfterStatus(t, s))
  /\ UNCHANGED <<mission, trun, mapped, judged, verdict, runVars, repeated, overrides,
                 cancels, restarts, twice, crossed>>

(* _evaluate_review_gate_if_needed: a record the task has already is used, *)
(* whichever gate it comes from; otherwise the artifact is loaded.         *)
EvaluateGate(th) ==
  /\ At(th, "evaluate")
  /\ LET t == Head(todo[th]).task
     IN  Then(th, CASE t \in Gated /\ gate[t] = "none"     -> DoTask("judge", t)
                    [] t \in Gated /\ gate[t] = "blocking" -> Do("block")
                    [] OTHER                               -> Do("drain"))
  /\ UNCHANGED <<mission, taskVars, verdict, runVars, faultVars>>

JudgeGate(th) ==
  /\ At(th, "judge")
  /\ LET t == Head(todo[th]).task
     IN  /\ gate' = [gate EXCEPT ![t] = verdict[t]]
         /\ judged' = judged \cup {t}
         /\ Then(th, IF verdict[t] = "blocking" THEN Do("block") ELSE Do("drain"))
  /\ UNCHANGED <<mission, tstatus, trun, mapped, verdict, runVars, faultVars>>

(* _block_mission: what has no run is blocked, with a copy of the gate's   *)
(* record, and then mission.blocked is appended.                           *)
BlockMission(th) ==
  /\ At(th, "block")
  /\ LET halted == {t \in Tasks : tstatus[t] \in {"pending", "queued"} /\ trun[t] = 0}
     IN  IF Terminal(mission)
         THEN Then(th, <<>>) /\ UNCHANGED <<tstatus, gate>>
         ELSE /\ tstatus' = [t \in Tasks |-> IF t \in halted THEN "blocked" ELSE tstatus[t]]
              /\ gate' = [t \in Tasks |-> IF t \in halted THEN "blocking" ELSE gate[t]]
              /\ Then(th, <<Call("end", NoTask, 0, "blocked")>>)
  /\ crossed' = (crossed \/ Approving)
  /\ UNCHANGED <<mission, trun, mapped, judged, verdict, runVars, repeated, overrides,
                 cancels, restarts, stale, twice>>

(* _finish_mission: what waits is blocked, without a record.               *)
FinishMission(th) ==
  /\ At(th, "finish")
  /\ LET waiting == {t \in Tasks : tstatus[t] = "pending"}
     IN  IF Terminal(mission)
         THEN Then(th, <<>>) /\ UNCHANGED <<tstatus, gate>>
         ELSE /\ tstatus' = [t \in Tasks |-> IF t \in waiting THEN "blocked" ELSE tstatus[t]]
              /\ gate' = [t \in Tasks |-> IF t \in waiting THEN "none" ELSE gate[t]]
              /\ Then(th, <<Call("end", NoTask, 0, Head(todo[th]).status)>>)
  /\ UNCHANGED <<mission, trun, mapped, judged, verdict, runVars, faultVars>>

(* Mutant: failed and cancelled tasks are taken for done.                  *)
AllOver == Known # {} /\ \A t \in Known : Terminal(tstatus[t])

AllDone == Known # {} /\ \A t \in Known : tstatus[t] = "completed"

(* _complete_if_done looks at the statuses of the tasks alone.             *)
CheckDone(th) ==
  /\ At(th, "check")
  /\ Then(th, IF ~Terminal(mission) /\ AllDone
              THEN <<Call("end", NoTask, 0, "completed")>> ELSE <<>>)
  /\ UNCHANGED <<mission, taskVars, verdict, runVars, faultVars>>

(* The mission event that ends the mission, whatever ended it meanwhile.   *)
EndMission(th) ==
  /\ At(th, "end")
  /\ mission' = Head(todo[th]).status
  /\ Then(th, <<>>)
  /\ UNCHANGED <<taskVars, verdict, runVars, faultVars>>
-----------------------------------------------------------------------------
RequestCancel ==
  /\ mission # "absent" /\ Serving /\ Room /\ Idle(Cancel) /\ cancels < MaxCancels
  /\ cancels' = cancels + 1
  /\ Spawn(Cancel, Do("cancel"))
  /\ UNCHANGED <<mission, taskVars, verdict, runVars, repeated, overrides, restarts,
                 stale, twice, crossed>>

(* cancel_mission: the tasks without a run, then the runs one by one, then *)
(* the mission unless it is over.                                          *)
CancelMission(th) ==
  /\ At(th, "cancel")
  /\ LET idle == {t \in Known : trun[t] = 0 /\ ~Terminal(tstatus[t])}
     IN  IF Terminal(mission)
         THEN Then(th, <<>>) /\ UNCHANGED <<tstatus, gate>>
         ELSE /\ tstatus' = [t \in Tasks |-> IF t \in idle THEN "cancelled" ELSE tstatus[t]]
              /\ gate' = [t \in Tasks |-> IF t \in idle THEN "none" ELSE gate[t]]
              /\ Then(th, ForEach("cancelrun", Known) \o Do("recheck"))
  /\ UNCHANGED <<mission, trun, mapped, judged, verdict, runVars, faultVars>>

(* RunManager.cancel ends the run, and the listeners run in this thread;   *)
(* or a remote worker that has claimed the run is only told to.            *)
CancelRun(th) ==
  /\ At(th, "cancelrun")
  /\ LET t == Head(todo[th]).task
         n == trun[t]
         live == n # 0 /\ ~Terminal(tstatus[t]) /\ rstatus[<<t, n>>] \in {"queued", "running"}
     IN  \/ /\ live /\ (t \in Remote => rstatus[<<t, n>>] = "queued")
            /\ rstatus' = [rstatus EXCEPT ![<<t, n>>] = "cancelled"]
            /\ Then(th, OnTerminalEvent(t, n))
         \/ /\ live => t \in Remote
            /\ UNCHANGED rstatus
            /\ Then(th, <<>>)
  /\ UNCHANGED <<mission, taskVars, verdict, orphans, faultVars>>

RecheckMission(th) ==
  /\ At(th, "recheck")
  /\ Then(th, IF Terminal(mission) THEN <<>> ELSE <<Call("end", NoTask, 0, "cancelled")>>)
  /\ UNCHANGED <<mission, taskVars, verdict, runVars, faultVars>>
-----------------------------------------------------------------------------
RequestOverride ==
  /\ mission # "absent" /\ Serving /\ Room /\ Idle(Override) /\ overrides < MaxOverrides
  /\ \E t \in Tasks : gate[t] = "blocking"
  /\ overrides' = overrides + 1
  /\ Spawn(Override, Do("override"))
  /\ UNCHANGED <<mission, taskVars, verdict, runVars, repeated, cancels, restarts,
                 stale, twice, crossed>>

(* override_review_gate, decision approve: every blocking record, copies   *)
(* included; then the blocked tasks; then the mission, whatever its status *)
(* is.  (deny changes no status.)                                          *)
ApproveGates(th) ==
  /\ At(th, "override")
  /\ gate' = [t \in Tasks |-> IF gate[t] = "blocking" THEN "overridden" ELSE gate[t]]
  /\ Then(th, IF \E t \in Tasks : gate[t] = "blocking" THEN Do("unblock") ELSE <<>>)
  /\ crossed' = (crossed \/ Blocking)
  /\ UNCHANGED <<mission, tstatus, trun, mapped, judged, verdict, runVars, repeated,
                 overrides, cancels, restarts, stale, twice>>

UnblockTasks(th) ==
  /\ At(th, "unblock")
  /\ LET halted == {t \in Tasks : tstatus[t] = "blocked" /\ trun[t] = 0}
     IN  /\ tstatus' = [t \in Tasks |-> IF t \in halted THEN "pending" ELSE tstatus[t]]
         /\ twice' = twice \cup StartedBefore(halted)
  /\ Then(th, Do("resume"))
  /\ UNCHANGED <<mission, trun, gate, mapped, judged, verdict, runVars, repeated,
                 overrides, cancels, restarts, stale, crossed>>

StillBlocked == mission  \* mutant: mission.resumed alone, which moves no status

Resumed == "running"

ResumeMission(th) ==
  /\ At(th, "resume")
  /\ mission' = Resumed
  /\ Then(th, Do("drain"))
  /\ UNCHANGED <<taskVars, verdict, runVars, faultVars>>
-----------------------------------------------------------------------------
(* A run starts, ends, and may be ended once more by another thread that   *)
(* came too late (RunScheduler); the run thread starts the prompt only     *)
(* after the listeners of run.started.  Remote workers are heard once      *)
(* startup is through.                                                     *)
RunStarts(t, n) ==
  /\ IF t \in Remote THEN Serving ELSE <<t, n>> \notin orphans
  /\ rstatus[<<t, n>>] = "queued" /\ Room
  /\ rstatus' = [rstatus EXCEPT ![<<t, n>>] = "running"]
  /\ Spawn(Started(t, n), Sync(t, n))
  /\ UNCHANGED <<mission, taskVars, verdict, orphans, faultVars>>

RunEnds(t, n, s) ==
  /\ IF t \in Remote THEN Serving ELSE <<t, n>> \notin orphans
  /\ rstatus[<<t, n>>] \in {"queued", "running"} /\ Room
  /\ s = "completed" => rstatus[<<t, n>>] = "running" /\ Idle(Started(t, n))
  /\ rstatus' = [rstatus EXCEPT ![<<t, n>>] = s]
  /\ Spawn(Ended(t, n), OnTerminalEvent(t, n))
  /\ UNCHANGED <<mission, taskVars, verdict, orphans, faultVars>>

RunEndsAgain(t, n) ==
  /\ t \in Repeated /\ RunFinal(t, n) /\ <<t, n>> \notin repeated /\ Room
  /\ repeated' = repeated \cup {<<t, n>>}
  /\ Spawn(Again(t, n), OnTerminalEvent(t, n))
  /\ UNCHANGED <<mission, taskVars, verdict, runVars, overrides, cancels, restarts,
                 stale, twice, crossed>>
-----------------------------------------------------------------------------
(* The control plane stops anywhere and starts again, with _task_runs      *)
(* rebuilt from the tasks.  The jobs it was running are failed one after   *)
(* the other (of a run that is queued the job may be running), those of    *)
(* remote workers go on.  Then reconcile.  What the old process had still  *)
(* to write of a run that was over is stale until then.                    *)
Restart ==
  /\ restarts < MaxRestarts
  /\ restarts' = restarts + 1
  /\ mapped' = [t \in Tasks |-> IF trun[t] = 0 THEN {} ELSE {trun[t]}]
  /\ \E claimed \in SUBSET {x \in (Tasks \ Remote) \X Nums : rstatus[x] = "queued"} :
       orphans' = claimed \cup {x \in (Tasks \ Remote) \X Nums : rstatus[x] = "running"}
  /\ todo' = [th \in Threads |-> IF th = Startup THEN Do("orphans") ELSE <<>>]
  /\ stale' = stale \cup {t \in Tasks : /\ trun[t] # 0 /\ RunFinal(t, trun[t])
                                       /\ tstatus[t] # rstatus[<<t, trun[t]>>]}
  /\ crossed' = (crossed \/ Approving)
  /\ UNCHANGED <<mission, tstatus, trun, gate, judged, verdict, rstatus,
                 repeated, overrides, cancels, twice>>

FailOrphan(th) ==
  /\ At(th, "orphans")
  /\ \E x \in orphans :
       /\ orphans' = orphans \ {x}
       /\ rstatus' = [rstatus EXCEPT ![x] = "failed"]
       /\ Then(th, OnTerminalEvent(x[1], x[2]) \o Do("orphans"))
  /\ UNCHANGED <<mission, taskVars, verdict, faultVars>>

OrphansFailed(th) ==
  /\ At(th, "orphans") /\ orphans = {}
  /\ Then(th, Do("reconcile"))
  /\ UNCHANGED <<mission, taskVars, verdict, runVars, faultVars>>

Reconcile(th) ==
  /\ At(th, "reconcile")
  /\ Then(th, IF mission = "absent" \/ Terminal(mission)
              THEN <<>> ELSE ForEach("reconciletask", Known) \o Do("drain"))
  /\ UNCHANGED <<mission, taskVars, verdict, runVars, faultVars>>

NeverRequeued(t) == FALSE  \* mutant: claimed tasks are not given back

Requeued(t) == trun[t] = 0 /\ tstatus[t] = "queued"

ReconcileTask(th) ==
  /\ At(th, "reconciletask")
  /\ LET t == Head(todo[th]).task
     IN  /\ tstatus' = [tstatus EXCEPT ![t] = IF Requeued(t) THEN "pending" ELSE @]
         /\ twice' = twice \cup StartedBefore({u \in {t} : Requeued(u)})
         /\ Then(th, IF trun[t] # 0 THEN Sync(t, trun[t]) ELSE <<>>)
  /\ UNCHANGED <<mission, trun, gate, mapped, judged, verdict, runVars, repeated,
                 overrides, cancels, restarts, stale, crossed>>
-----------------------------------------------------------------------------
Work(th) ==
  \/ AddTask(th) \/ BeginMission(th)
  \/ Drain(th) \/ StartTask(th) \/ CreateRun(th) \/ CreateRunFails(th) \/ LinkRun(th)
  \/ SyncTask(th) \/ ApplyStatus(th) \/ EvaluateGate(th) \/ JudgeGate(th)
  \/ BlockMission(th) \/ FinishMission(th) \/ CheckDone(th) \/ EndMission(th)
  \/ CancelMission(th) \/ CancelRun(th) \/ RecheckMission(th)
  \/ ApproveGates(th) \/ UnblockTasks(th) \/ ResumeMission(th)
  \/ FailOrphan(th) \/ OrphansFailed(th) \/ Reconcile(th) \/ ReconcileTask(th)

Requests == CreateMission \/ RequestCancel \/ RequestOverride

RunGoesOn(t, n) ==
  RunStarts(t, n) \/ (\E s \in TerminalStatuses : RunEnds(t, n, s)) \/ RunEndsAgain(t, n)

Next ==
  \/ Requests \/ Restart
  \/ \E th \in Threads : Work(th)
  \/ \E t \in Tasks, n \in Nums : RunGoesOn(t, n)

Spec == Init /\ [][Next]_vars

(* Threads go on, and runs end (RunScheduler!EveryRunEnds).                *)
RunFinishes(t, n) == RunStarts(t, n) \/ \E s \in TerminalStatuses : RunEnds(t, n, s)

Fairness ==
  /\ \A th \in Threads : WF_vars(Work(th))
  /\ \A t \in Tasks, n \in Nums : WF_vars(RunFinishes(t, n))

LiveSpec == Spec /\ Fairness
-----------------------------------------------------------------------------
(* A run is made for a task only after the run of each task it depends on  *)
(* completed, and if that task is a gate, after its artifact was read and  *)
(* found to let work pass, or an operator approved: _claim_ready_tasks is  *)
(* called by every thread at any time, and does not look at verdicts that  *)
(* are not in yet.                                                         *)
DependenciesFirst ==
  \A t \in Tasks : \A d \in Deps[t] : Made(t) # {} =>
    /\ \E n \in Nums : rstatus[<<d, n>>] = "completed"
    /\ d \in Gated => (d \in judged /\ verdict[d] = "open") \/ overrides > 0

(* However many threads drain the mission at once (the creating request,   *)
(* those that end the runs a task waits for, an override), one of them     *)
(* starts the task, and starts it once; unless the task was given back     *)
(* although it was being started: by the startup of a process that stopped *)
(* between create_run and the link, or by an approval that unblocks what a *)
(* thread had claimed before the mission was blocked.                      *)
OneRunPerTask == \A t \in Tasks : Made(t) \subseteq {1} \/ t \in twice

(* When a mission is completed, each of its tasks has a run that completed *)
(* (_complete_if_done, after cancellations, overrides and restarts too).   *)
CompletedIsDone ==
  mission = "completed" => \A t \in Known : \E n \in Nums : rstatus[<<t, n>>] = "completed"

(* A blocked mission can be approved: override_review_gate finds a record  *)
(* that blocks.  Otherwise nothing could move the mission any more.  Three *)
(* cases are excepted: an approval took the records while another thread   *)
(* was between writing one and mission.blocked (with two gates beside each *)
(* other, or in haste), or the process stopped halfway through it          *)
(* (crossed); or a gate was started twice and create_run failed the second *)
(* time, which removes the record of the first.                            *)
BlockedCanBeApproved ==
  Quiet /\ mission = "blocked" =>
    \/ \E t \in Tasks : gate[t] = "blocking"
    \/ crossed
    \/ Gated \cap twice # {}

(* Once every thread is through, the status of a task is that of its run,  *)
(* though the run may have started or ended before _start_task stored its  *)
(* id, when sync_task_from_run does not find the task yet, and though the  *)
(* process may have stopped at any point.  The exceptions are a status     *)
(* written last by a thread that another one overtook after it had read    *)
(* the run's, and one that a stopped process did not come to write when    *)
(* the mission was over by the time reconcile looked (stale).              *)
TasksFollowRuns ==
  Quiet => \A t \in Tasks :
    trun[t] # 0 /\ RunFinal(t, trun[t]) =>
      tstatus[t] = rstatus[<<t, trun[t]>>] \/ t \in stale

(* A gate that completed was evaluated: README.md says that a mission      *)
(* blocks on its artifact, and that a release gate emits its events.       *)
GatesAreJudged ==
  Quiet => \A t \in Gated : tstatus[t] = "completed" => t \in judged

(* Approving a gate resumes a blocked mission (implementation-roadmap.md):  *)
(* it does not set one running again that failed or was cancelled.         *)
OnlyBlockedResumes ==
  [][mission' = "running" => mission \in {"created", "running", "blocked"}]_vars

(* A mission that was started ends, across a restart too, but for four     *)
(* cases: the restart cuts off a thread between the failure of create_run  *)
(* and mission.failed, and no run event will ever come for such a task; an *)
(* approved gate set a mission running again that a task had ended; a      *)
(* thread wrote a status that another had overtaken, "running" over        *)
(* "completed"; or an approval and a block cut across each other.          *)
CutOff    == /\ restarts > 0
             /\ \E t \in Tasks : tstatus[t] \in {"failed", "cancelled"} /\ trun[t] = 0
Revived   == overrides > 0 /\ Quiet /\ \E t \in Tasks : tstatus[t] \in {"failed", "cancelled"}
Overtaken == Quiet /\ stale # {}
MissionEnds == mission = "running" ~> Terminal(mission) \/ CutOff \/ Revived \/ Overtaken \/ crossed
=============================================================================
