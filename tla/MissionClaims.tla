---------------------------- MODULE MissionClaims ----------------------------
(***************************************************************************)
(* Who starts a task, what its status follows, and what is left to approve *)
(* when a mission is blocked.  From _claim_ready_tasks to the link of its  *)
(* run a task is in the hands of one thread, unless it was given back; a   *)
(* run that ended is seen to by a thread that will write the task's        *)
(* status, unless another one wrote over it; and who blocks the mission    *)
(* has a record that blocks, unless an approval cut across.  Each "unless" *)
(* is a history variable of Missions, so the theorems have no hypotheses.  *)
(***************************************************************************)
EXTENDS MissionProofs
-----------------------------------------------------------------------------
(* The threads that carry a run's events have nothing to do before them.   *)
EventsComeLater ==
  \A t \in Tasks, n \in Nums :
    /\ rstatus[<<t, n>>] \in {"none", "queued"} => Idle(Started(t, n))
    /\ ~RunFinal(t, n) => Idle(Ended(t, n))
    /\ <<t, n>> \notin repeated => Idle(Again(t, n))

(* A task that waits has no run.                                           *)
WaitsUnlinked == \A t \in Tasks : tstatus[t] = "pending" => trun[t] = 0

EventInv == EventsComeLater /\ WaitsUnlinked

(* Claims: from _claim_ready_tasks to the link of the run a task has one   *)
(* call, in one thread, that is going to make or link its run.             *)
ClaimOK(c, t) ==
  /\ trun[t] = 0
  /\ c.op \in {"start", "create"} => Made(t) = {} /\ tstatus[t] \notin {"absent", "pending"}
  /\ c.op = "link" => c.run = 1 /\ Made(t) = {1}

ClaimsOK(t) ==
  \A th \in Threads : \A i \in DOMAIN todo[th] :
    Starts(todo[th][i], t) => ClaimOK(todo[th][i], t)

ClaimedOnce(t) ==
  \A th, oh \in Threads : \A i \in DOMAIN todo[th], j \in DOMAIN todo[oh] :
    Starts(todo[th][i], t) /\ Starts(todo[oh][j], t) => th = oh /\ i = j

RunOK(t) ==
  /\ Made(t) \subseteq {1}
  /\ tstatus[t] \in {"absent", "pending"} => Made(t) = {} /\ trun[t] = 0

ClaimInv == \A t \in Tasks \ twice : ClaimsOK(t) /\ ClaimedOnce(t) /\ RunOK(t)
-----------------------------------------------------------------------------
(* A task shows how its run ended, or somebody is going to see to it, or   *)
(* what it shows is remembered as stale.                                   *)
SeesTo(c, t) ==
  /\ c.task = t /\ c.run = trun[t]
  /\ c.op = "sync" \/ (c.op = "apply" /\ c.status = rstatus[<<t, trun[t]>>])

SeenTo(t) == \E th \in Threads : \E i \in DOMAIN todo[th] : SeesTo(todo[th][i], t)

Follows(t) ==
  trun[t] # 0 /\ RunFinal(t, trun[t]) =>
    tstatus[t] = rstatus[<<t, trun[t]>>] \/ t \in stale \/ SeenTo(t)

FollowInv == \A t \in Tasks : Follows(t)
-----------------------------------------------------------------------------
(* Who blocks the mission has a gate with a run behind it, whose record    *)
(* only an approval takes away, or a second start of the gate.             *)
Blocker == \E g \in Gated : gate[g] = "blocking" /\ trun[g] # 0

Excused == crossed \/ Gated \cap twice # {}

JudgeOK(c) == c.op = "judge" /\ gate[c.task] = "blocking" => verdict[c.task] = "blocking"

JudgesOK == \A th \in Threads : \A i \in DOMAIN todo[th] : JudgeOK(todo[th][i])

BlockInv ==
  /\ JudgesOK
  /\ Blocking => Blocker \/ Excused
  /\ mission = "blocked" => Blocker \/ Excused \/ Approving
-----------------------------------------------------------------------------
(* Which steps push which calls.                                           *)
PushedBy(th, c) ==
  /\ c.op = "start" => Drain(th)
  /\ c.op = "create" => StartTask(th)
  /\ c.op = "link" => CreateRun(th)
  /\ c.op = "judge" => EvaluateGate(th)
  /\ c.op = "block" => EvaluateGate(th) \/ JudgeGate(th)
  /\ c.op = "end" /\ c.status = "blocked" => BlockMission(th)

NewKnown(th, calls) == NewCalls(th, calls) /\ \A i \in DOMAIN calls : PushedBy(th, calls[i])

LEMMA NoneKnown ==
  ASSUME NEW th, NewCalls(th, <<>>)
  PROVE  \E calls : NewKnown(th, calls)
  BY NoCalls DEF NewKnown

LEMMA OneKnown ==
  ASSUME NEW th, NEW c, NewCalls(th, <<c>>), PushedBy(th, c)
  PROVE  \E calls : NewKnown(th, calls)
  BY DEF NewKnown

LEMMA SomeKnown ==
  ASSUME NEW th, NEW op \in {"start", "cancelrun", "reconciletask"}, NEW S \in SUBSET Tasks,
         NEW last \in {"check", "recheck", "drain"},
         NewCalls(th, ForEach(op, S) \o Do(last)),
         op = "start" => Drain(th)
  PROVE  \E calls : NewKnown(th, calls)
<1> DEFINE calls == ForEach(op, S) \o Do(last)
<1>1. op \in Ops /\ last \in Ops
  BY DEF Ops
<1>2. /\ ForEach(op, S) \in Seq(CallSet)
      /\ \A i \in DOMAIN ForEach(op, S) : ForEach(op, S)[i].op = op
      /\ Do(last) \in Seq(CallSet) /\ DOMAIN Do(last) = {1} /\ Do(last)[1].op = last
  BY <1>1, EachCall, DoCall
<1>3. \A i \in DOMAIN calls : calls[i].op \in {op, last}
  BY <1>2, ConcatElements
<1>4. \A i \in DOMAIN calls : PushedBy(th, calls[i])
  BY <1>3 DEF PushedBy
<1>5. QED
  BY <1>4 DEF NewKnown

LEMMA EventsKnown ==
  ASSUME NEW th, NEW t \in Tasks, NEW n \in Nums
  PROVE  /\ PushedBy(th, Sync(t, n)[1]) /\ PushedBy(th, Do("drain")[1])
         /\ \A i \in DOMAIN OnTerminalEvent(t, n) : PushedBy(th, OnTerminalEvent(t, n)[i])
<1>1. Sync(t, n)[1].op = "sync" /\ Do("drain")[1].op = "drain"
  BY SyncCall, DoCall DEF Ops
<1>2. PushedBy(th, Sync(t, n)[1]) /\ PushedBy(th, Do("drain")[1])
  BY <1>1 DEF PushedBy
<1>3. \A i \in DOMAIN OnTerminalEvent(t, n) :
        OnTerminalEvent(t, n)[i] = Sync(t, n)[1] \/ OnTerminalEvent(t, n)[i] = Do("drain")[1]
  BY EventCalls
<1>4. QED
  BY <1>2, <1>3

LEMMA WorkKnown ==
  ASSUME MissionInv, NEW th \in Threads, Work(th)
  PROVE  \E calls : NewKnown(th, calls)
<1> USE DEF Call
<1>1. ASSUME NEW op \in {"drain", "block", "unblock", "resume", "reconcile"}, NewCalls(th, Do(op)),
             op = "block" => EvaluateGate(th) \/ JudgeGate(th)
      PROVE  \E calls : NewKnown(th, calls)
  <2>1. PushedBy(th, Call(op, NoTask, 0, "none"))
    BY <1>1 DEF PushedBy
  <2>2. QED
    BY <1>1, <2>1, OneKnown DEF Do
<1>2. ASSUME NEW t \in Tasks, NEW op \in {"create", "judge", "evaluate"}, NewCalls(th, DoTask(op, t)),
             op = "create" => StartTask(th), op = "judge" => EvaluateGate(th)
      PROVE  \E calls : NewKnown(th, calls)
  <2>1. PushedBy(th, Call(op, t, 0, "none"))
    BY <1>2 DEF PushedBy
  <2>2. QED
    BY <1>2, <2>1, OneKnown DEF DoTask
<1>3. ASSUME NEW op \in {"end", "finish"}, NEW s, NewCalls(th, <<Call(op, NoTask, 0, s)>>),
             op = "end" /\ s = "blocked" => BlockMission(th)
      PROVE  \E calls : NewKnown(th, calls)
  <2>1. PushedBy(th, Call(op, NoTask, 0, s))
    BY <1>3 DEF PushedBy
  <2>2. QED
    BY <1>3, <2>1, OneKnown
<1>4. ASSUME NEW t \in Tasks, NEW n \in Nums, NewCalls(th, Sync(t, n))
      PROVE  \E calls : NewKnown(th, calls)
  BY <1>4, EventsKnown, SyncCall DEF NewKnown
<1>5. CASE AddTask(th) \/ BeginMission(th) \/ EndMission(th)
  <2>1. todo[th] # <<>> /\ Then(th, <<>>)
    BY <1>5, AtCall DEF AddTask, BeginMission, EndMission, MissionInv
  <2>2. QED
    BY <2>1, NoNewCalls, NoneKnown
<1>6. CASE Drain(th)
  BY <1>6, DrainCalls, SomeKnown
<1>7. CASE StartTask(th)
  BY <1>7, StartTaskCalls, NoneKnown, <1>2
<1>8. CASE CreateRun(th)
  <2>1. PICK t \in Tasks, n \in Nums : NewCalls(th, <<Call("link", t, n, "none")>>)
    BY <1>8, CreateRunCalls
  <2>2. PushedBy(th, Call("link", t, n, "none"))
    BY <1>8 DEF PushedBy
  <2>3. QED
    BY <2>1, <2>2, OneKnown
<1>9. CASE CreateRunFails(th)
  <2>1. todo[th] # <<>> /\ "failed" \in Statuses
    BY <1>9, AtCall DEF CreateRunFails, MissionInv, Statuses, TerminalStatuses
  <2>2. NewCalls(th, <<Call("finish", NoTask, 0, "failed")>>)
    BY <1>9, <2>1, EndCall DEF CreateRunFails
  <2>3. QED
    BY <1>3, <2>2
<1>10. CASE LinkRun(th)
  BY <1>4, <1>10, LinkRunCalls
<1>11. CASE SyncTask(th)
  <2>1. PICK t \in Tasks, n \in Nums, s \in Statuses :
          NewCalls(th, <<>>) \/ NewCalls(th, <<Call("apply", t, n, s)>>)
    BY <1>11, SyncTaskCalls DEF Statuses
  <2>2. PushedBy(th, Call("apply", t, n, s))
    BY <1>11 DEF PushedBy
  <2>3. QED
    BY <2>1, <2>2, NoneKnown, OneKnown
<1>12. CASE ApplyStatus(th)
  <2>1. PICK t \in Tasks, s \in Statuses : NewCalls(th, AfterStatus(t, s))
    BY <1>12, ApplyStatusCalls
  <2>2. \/ AfterStatus(t, s) = DoTask("evaluate", t)
        \/ AfterStatus(t, s) = <<Call("finish", NoTask, 0, s)>>
        \/ AfterStatus(t, s) = <<>>
    BY DEF AfterStatus
  <2>3. QED
    BY <1>2, <1>3, <2>1, <2>2, NoneKnown
<1>13. CASE EvaluateGate(th)
  BY <1>1, <1>2, <1>13, EvaluateCalls
<1>14. CASE JudgeGate(th)
  <2>1. NewCalls(th, Do("block")) \/ NewCalls(th, Do("drain"))
    BY <1>14, JudgeCalls
  <2>2. QED
    BY <1>1, <1>14, <2>1
<1>15. CASE BlockMission(th)
  BY <1>3, <1>15, BlockCalls, NoneKnown
<1>16. CASE FinishMission(th)
  <2>1. NewCalls(th, <<>>) \/ \E s \in {"failed", "cancelled"} : NewCalls(th, <<Call("end", NoTask, 0, s)>>)
    BY <1>16, FinishCalls
  <2>2. QED
    BY <1>3, <2>1, NoneKnown
<1>17. CASE CheckDone(th)
  BY <1>3, <1>17, CheckDoneCalls, NoneKnown
<1>18. CASE CancelMission(th)
  BY <1>18, CancelMissionCalls, NoneKnown, SomeKnown
<1>19. CASE CancelRun(th)
  <2>1. NewCalls(th, <<>>) \/ \E t \in Tasks, n \in Nums : NewCalls(th, OnTerminalEvent(t, n))
    BY <1>19, CancelRunCalls
  <2>2. QED
    BY <2>1, NoneKnown, EventsKnown DEF NewKnown
<1>20. CASE RecheckMission(th)
  BY <1>3, <1>20, RecheckCalls, NoneKnown
<1>21. CASE ApproveGates(th) \/ UnblockTasks(th) \/ ResumeMission(th)
  BY <1>1, <1>21, OverrideCalls, NoneKnown
<1>22. CASE FailOrphan(th)
  <2>1. PICK t \in Tasks, n \in Nums : NewCalls(th, OnTerminalEvent(t, n) \o Do("orphans"))
    BY <1>22, FailOrphanCalls
  <2>2. /\ Do("orphans") \in Seq(CallSet) /\ DOMAIN Do("orphans") = {1}
        /\ Do("orphans")[1].op = "orphans" /\ OnTerminalEvent(t, n) \in Seq(CallSet)
    BY DoCall, EventCalls DEF Ops
  <2>3. PushedBy(th, Do("orphans")[1])
    BY <2>2 DEF PushedBy
  <2>4. PICK a \in Seq(CallSet), b \in Seq(CallSet) :
          /\ a = OnTerminalEvent(t, n) /\ b = Do("orphans") /\ DOMAIN b = {1}
          /\ PushedBy(th, b[1]) /\ \A i \in DOMAIN a : PushedBy(th, a[i])
    BY <2>2, <2>3, EventsKnown
  <2>5. \A i \in DOMAIN (a \o b) : PushedBy(th, (a \o b)[i])
    BY <2>4, ConcatElements
  <2>6. NewCalls(th, a \o b)
    BY <2>1, <2>4
  <2>7. QED
    BY <2>5, <2>6 DEF NewKnown
<1>23. CASE OrphansFailed(th) \/ Reconcile(th)
  BY <1>1, <1>23, ReconcileCalls, NoneKnown, SomeKnown
<1>24. CASE ReconcileTask(th)
  BY <1>4, <1>24, ReconcileTaskCalls, NoneKnown
<1>25. QED
  BY <1>5, <1>6, <1>7, <1>8, <1>9, <1>10, <1>11, <1>12, <1>13, <1>14, <1>15, <1>16, <1>17,
     <1>18, <1>19, <1>20, <1>21, <1>22, <1>23, <1>24 DEF Work
-----------------------------------------------------------------------------
(* Where the calls of a thread were before a step.                         *)
WasAt(th, calls, oh, i) == IF oh = th THEN i - Len(calls) + 1 ELSE i

LEMMA NewElements ==
  ASSUME MissionInv, NEW th \in Threads, NEW calls, NewCalls(th, calls),
         NEW oh \in Threads, NEW i \in DOMAIN todo'[oh]
  PROVE  \/ oh = th /\ i \in DOMAIN calls /\ todo'[oh][i] = calls[i]
         \/ /\ WasAt(th, calls, oh, i) \in DOMAIN todo[oh]
            /\ oh = th => WasAt(th, calls, oh, i) # 1
            /\ todo'[oh][i] = todo[oh][WasAt(th, calls, oh, i)]
<1>1. /\ todo \in [Threads -> Seq(CallSet)] /\ todo[th] # <<>> /\ calls \in Seq(CallSet)
      /\ Then(th, calls)
  BY DEF MissionInv, MissionTypeOK, CallSet, NewCalls
<1>2. /\ \A xh \in Threads \ {th} : todo'[xh] = todo[xh]
      /\ \A k \in DOMAIN todo'[th] :
           \/ k \in DOMAIN calls /\ todo'[th][k] = calls[k]
           \/ /\ k - Len(calls) + 1 \in DOMAIN todo[th] \ {1}
              /\ todo'[th][k] = todo[th][k - Len(calls) + 1]
  BY <1>1, ThenElements
<1>3. QED
  BY <1>2 DEF WasAt

(* Calls of another place are other calls.                                 *)
LEMMA WasApart ==
  ASSUME MissionInv, NEW th \in Threads, NEW calls, NewCalls(th, calls),
         NEW oh \in Threads, NEW i \in DOMAIN todo'[oh], NEW j \in DOMAIN todo'[oh],
         WasAt(th, calls, oh, i) = WasAt(th, calls, oh, j)
  PROVE  i = j
<1>1. calls \in Seq(CallSet) /\ todo' \in [Threads -> Seq(CallSet)]
  BY NewIsGrown DEF Grown, NewCalls
<1>2. Len(calls) \in Nat /\ i \in Nat /\ j \in Nat
  BY <1>1, LenProperties
<1>3. QED
  BY <1>2 DEF WasAt

LEMMA NewLength ==
  ASSUME MissionInv, NEW th \in Threads, NEW calls, NewCalls(th, calls)
  PROVE  \A oh \in Threads \ {th} : todo'[oh] = todo[oh]
<1>1. /\ todo \in [Threads -> Seq(CallSet)] /\ todo[th] # <<>> /\ calls \in Seq(CallSet)
      /\ Then(th, calls)
  BY DEF MissionInv, MissionTypeOK, CallSet, NewCalls
<1>2. QED
  BY <1>1, ThenElements

(* A call that is pushed is still to be made.                              *)
LEMMA CallsCome ==
  ASSUME MissionInv, NEW th \in Threads, NEW calls, NewCalls(th, calls), NEW i \in DOMAIN calls
  PROVE  i \in DOMAIN todo'[th] /\ todo'[th][i] = calls[i]
<1>1. /\ todo \in [Threads -> Seq(CallSet)] /\ todo[th] # <<>> /\ calls \in Seq(CallSet)
      /\ Then(th, calls)
  BY DEF MissionInv, MissionTypeOK, CallSet, NewCalls
<1>2. \A k \in DOMAIN calls : k \in DOMAIN todo'[th] /\ todo'[th][k] = calls[k]
  BY <1>1, ThenElements
<1>3. QED
  BY <1>2

(* A request or an event gives a thread that had nothing to do its calls.  *)
LEMMA SpawnElements ==
  ASSUME MissionInv, NEW th \in Threads, Idle(th), NEW calls \in Seq(CallSet), Spawn(th, calls)
  PROVE  /\ todo'[th] = calls /\ \A oh \in Threads \ {th} : todo'[oh] = todo[oh]
         /\ \A oh \in Threads : \A i \in DOMAIN todo[oh] : oh # th
<1>1. todo \in [Threads -> Seq(CallSet)] /\ todo' = [todo EXCEPT ![th] = calls]
  BY DEF MissionInv, MissionTypeOK, CallSet, Spawn
<1>2. DOMAIN todo[th] = {}
  BY NoCalls DEF Idle
<1>3. QED
  BY <1>1, <1>2

(* The call a thread makes in a step, and what it is known to be about.    *)
LEMMA NextCall ==
  ASSUME MissionInv, NEW th \in Threads, Work(th)
  PROVE  /\ todo[th] # <<>> /\ 1 \in DOMAIN todo[th] /\ Head(todo[th]) = todo[th][1]
         /\ Upcoming(th) = todo[th][1].op
         /\ todo[th][1] \in CallSet /\ CallOK(todo[th][1]) /\ CallerOK(th, todo[th][1])
<1>1. todo[th] # <<>>
  BY WorkCalls DEF NewCalls
<1>2. 1 \in DOMAIN todo[th] /\ Head(todo[th]) = todo[th][1] /\ Upcoming(th) = todo[th][1].op
  BY <1>1, NextOfThread
<1>3. todo[th][1] \in CallSet
  <2>1. todo[th] \in Seq(CallSet)
    BY DEF MissionInv, MissionTypeOK, CallSet
  <2>2. QED
    BY <1>2, <2>1, ElementOfSeq, LenProperties
<1>4. CallOK(todo[th][1]) /\ CallerOK(th, todo[th][1])
  BY <1>2, <1>3 DEF MissionInv, CallsOK, Pushed, CallersKnown
<1>5. QED
  BY <1>1, <1>2, <1>3, <1>4

LEMMA CallIsOK ==
  ASSUME MissionInv, NEW th \in Threads, NEW i \in DOMAIN todo[th]
  PROVE  todo[th][i] \in CallSet /\ CallOK(todo[th][i])
<1>1. todo[th] \in Seq(CallSet)
  BY DEF MissionInv, MissionTypeOK, CallSet
<1>2. todo[th][i] \in CallSet
  BY <1>1, ElementOfSeq, LenProperties
<1>3. QED
  BY <1>2 DEF MissionInv, CallsOK, Pushed

(* While tasks are added none of them has a run or is being started.       *)
LEMMA AddingIsFirst ==
  ASSUME MissionInv, NEW th \in Threads, AddTask(th), NEW t \in Tasks
  PROVE  /\ Made(t) = {} /\ trun[t] = 0
         /\ \A oh \in Threads : \A i \in DOMAIN todo[oh] : ~Starts(todo[oh][i], t)
<1>1. todo[th][1].op = "add" /\ 1 \in DOMAIN todo[th] /\ CallerOK(th, todo[th][1])
  BY NextCall, WorkOps DEF Work, AddTask, At
<1>2. th = Create
  BY <1>1 DEF CallerOK, OwnCalls, Caller
<1>3. NothingRuns /\ TaskOK(t)
  BY <1>1, <1>2 DEF MissionInv, AddingOK, Adding
<1>4. QED
  BY <1>3 DEF NothingRuns, TaskOK, Starts

LEMMA WorkMade ==
  ASSUME MissionInv, NEW th \in Threads, Work(th), ~CreateRun(th), NEW t \in Tasks
  PROVE  Made(t)' = Made(t)
<1>1. rstatus \in [Tasks \X Nums -> {"none", "queued", "running"} \cup TerminalStatuses]
  BY DEF MissionInv, MissionTypeOK
<1>2. \/ rstatus' = rstatus
      \/ \E u \in Tasks, n \in Nums, s \in {"cancelled", "failed"} :
           /\ rstatus[<<u, n>>] \in {"queued", "running"}
           /\ rstatus' = [rstatus EXCEPT ![<<u, n>>] = s]
  <2>1. CASE CancelRun(th) \/ FailOrphan(th)
    BY <2>1, CancelRunCalls, FailOrphanCalls
  <2>2. CASE ~CancelRun(th) /\ ~FailOrphan(th)
    BY <2>2 DEF Work, AddTask, BeginMission, Drain, StartTask, CreateRunFails,
     LinkRun, SyncTask, ApplyStatus, EvaluateGate, JudgeGate, BlockMission, FinishMission,
     CheckDone, EndMission, CancelMission, RecheckMission, ApproveGates, UnblockTasks,
     ResumeMission, OrphansFailed, Reconcile, ReconcileTask, runVars
  <2>3. QED
    BY <2>1, <2>2
<1>3. QED
  BY <1>1, <1>2, SameRuns, LiveRunMade

(* A run that is over stays as it is.                                      *)
LEMMA RunsGoForward ==
  ASSUME MissionInv, NEW th \in Threads, Work(th), NEW t \in Tasks, NEW n \in Nums
  PROVE  /\ rstatus'[<<t, n>>] \in {"none", "queued"} => rstatus[<<t, n>>] \in {"none", "queued"}
         /\ RunFinal(t, n) => RunFinal(t, n)' /\ rstatus'[<<t, n>>] = rstatus[<<t, n>>]
<1>1. rstatus \in [Tasks \X Nums -> {"none", "queued", "running"} \cup TerminalStatuses]
  BY DEF MissionInv, MissionTypeOK
<1>2. CASE CreateRun(th)
  <2>1. PICK u \in Tasks, m \in Nums :
          Made(u) = 1 .. (m - 1) /\ rstatus' = [rstatus EXCEPT ![<<u, m>>] = "queued"]
    BY <1>2, CreateRunCalls
  <2>2. rstatus[<<u, m>>] = "none"
    BY <2>1, NextRun
  <2>3. QED
    BY <1>1, <2>1, <2>2 DEF RunFinal, TerminalStatuses
<1>3. CASE CancelRun(th) \/ FailOrphan(th)
  <2>1. \/ rstatus' = rstatus
        \/ \E u \in Tasks, m \in Nums, s \in {"cancelled", "failed"} :
             /\ rstatus[<<u, m>>] \in {"queued", "running"}
             /\ rstatus' = [rstatus EXCEPT ![<<u, m>>] = s]
    BY <1>3, CancelRunCalls, FailOrphanCalls
  <2>2. QED
    BY <1>1, <2>1 DEF RunFinal, TerminalStatuses
<1>4. CASE rstatus' = rstatus
  BY <1>4 DEF RunFinal
<1>5. QED
  BY <1>2, <1>3, <1>4 DEF Work, AddTask, BeginMission, Drain, StartTask, CreateRunFails, LinkRun,
     SyncTask, ApplyStatus, EvaluateGate, JudgeGate, BlockMission, FinishMission, CheckDone,
     EndMission, CancelMission, RecheckMission, ApproveGates, UnblockTasks, ResumeMission,
     OrphansFailed, Reconcile, ReconcileTask, runVars
-----------------------------------------------------------------------------
(* What a step of a thread makes of the status of a task, but for the      *)
(* steps that link its run or write what was read of it.                   *)
LEMMA WorkWaits ==
  ASSUME MissionInv, WaitsUnlinked, NEW th \in Threads, Work(th), NEW t \in Tasks,
         tstatus'[t] = "pending"
  PROVE  trun'[t] = 0
<1>1. /\ tstatus \in [Tasks -> {"absent"} \cup TaskStatuses]
      /\ rstatus \in [Tasks \X Nums -> {"none", "queued", "running"} \cup TerminalStatuses]
  BY DEF MissionInv, MissionTypeOK
<1>2. tstatus[t] = "pending" => trun[t] = 0
  BY DEF WaitsUnlinked
<1>3. CASE AddTask(th)
  BY <1>3, AddingIsFirst DEF AddTask
<1>4. CASE LinkRun(th)
  <2>1. PICK u \in Tasks, n \in Nums :
           /\ n \in Made(u) /\ trun' = [trun EXCEPT ![u] = n]
           /\ tstatus' = [tstatus EXCEPT ![u] =
                            IF RunFinal(u, n) THEN "running" ELSE rstatus[<<u, n>>]]
    BY <1>4, LinkHead
  <2>2. rstatus[<<u, n>>] \in {"queued", "running"} \cup TerminalStatuses
    BY <1>1, <2>1 DEF Made
  <2>3. u # t
    BY <1>1, <2>1, <2>2 DEF RunFinal, TerminalStatuses
  <2>4. tstatus[t] = "pending" /\ trun'[t] = trun[t]
    BY <1>1, <2>1, <2>3 DEF MissionInv, MissionTypeOK
  <2>5. QED
    BY <1>2, <2>4
<1>5. CASE ApplyStatus(th)
  <2>1. Head(todo[th]).status # "pending"
    <3>1. CallOK(Head(todo[th])) /\ Head(todo[th]).op = "apply"
      BY <1>5, HeadOK, AtCall DEF ApplyStatus, MissionInv
    <3>2. QED
      BY <3>1 DEF CallOK, TerminalStatuses
  <2>2. tstatus[t] = "pending" /\ trun' = trun
    BY <1>1, <1>5, <2>1 DEF ApplyStatus
  <2>3. QED
    BY <1>2, <2>2
<1>6. CASE CreateRunFails(th)
  <2>1. tstatus[t] = "pending" /\ trun' = trun
    BY <1>1, <1>6 DEF CreateRunFails
  <2>2. QED
    BY <1>2, <2>1
<1>7. CASE Drain(th) \/ BlockMission(th) \/ FinishMission(th) \/ CancelMission(th) \/ UnblockTasks(th)
  <2>1. trun' = trun
    BY <1>7 DEF Drain, BlockMission, FinishMission, CancelMission, UnblockTasks
  <2>2. tstatus[t] = "pending" \/ trun[t] = 0
    BY <1>7 DEF Drain, BlockMission, FinishMission, CancelMission, UnblockTasks
  <2>3. QED
    BY <1>2, <2>1, <2>2
<1>8. CASE ReconcileTask(th)
  BY <1>1, <1>2, <1>8 DEF ReconcileTask, Requeued
<1>9. CASE trun' = trun /\ tstatus' = tstatus
  BY <1>2, <1>9
<1>10. QED
  BY <1>3, <1>4, <1>5, <1>6, <1>7, <1>8, <1>9 DEF Work, BeginMission, StartTask, CreateRun,
     SyncTask, EvaluateGate, JudgeGate, CheckDone, EndMission, CancelRun, RecheckMission,
     ApproveGates, ResumeMission, FailOrphan, OrphansFailed, Reconcile, taskVars

(* Events still come to threads that have nothing to do.                   *)
LEMMA WorkEventsLater ==
  ASSUME MissionInv, EventsComeLater, NEW th \in Threads, Work(th)
  PROVE  EventsComeLater'
<1>1. PICK calls : NewCalls(th, calls)
  BY WorkCalls
<1>2. /\ todo[th] # <<>> /\ \A oh \in Threads \ {th} : todo'[oh] = todo[oh]
      /\ repeated' = repeated
  BY <1>1, NewLength, WorkHistory DEF NewCalls
<1>3. \A oh \in Threads : Idle(oh) => Idle(oh)'
  BY <1>2 DEF Idle
<1>4. ASSUME NEW t \in Tasks, NEW n \in Nums
      PROVE  /\ rstatus'[<<t, n>>] \in {"none", "queued"} => Idle(Started(t, n))'
             /\ ~RunFinal(t, n)' => Idle(Ended(t, n))'
             /\ <<t, n>> \notin repeated' => Idle(Again(t, n))'
  <2>1. {Started(t, n), Ended(t, n), Again(t, n)} \subseteq Threads
    BY ThreadFacts
  <2>2. /\ rstatus'[<<t, n>>] \in {"none", "queued"} => Idle(Started(t, n))
        /\ ~RunFinal(t, n)' => Idle(Ended(t, n))
        /\ <<t, n>> \notin repeated' => Idle(Again(t, n))
    BY <1>2, RunsGoForward DEF EventsComeLater
  <2>3. QED
    BY <1>3, <2>1, <2>2
<1>5. QED
  BY <1>4 DEF EventsComeLater

LEMMA SpawnEventsLater ==
  ASSUME MissionInv, EventsComeLater, NEW th \in Threads, Idle(th),
         NEW calls \in Seq(CallSet), Spawn(th, calls),
         \A t \in Tasks, n \in Nums :
           /\ rstatus'[<<t, n>>] \in {"none", "queued"} =>
                rstatus[<<t, n>>] \in {"none", "queued"} /\ th # Started(t, n)
           /\ ~RunFinal(t, n)' => ~RunFinal(t, n) /\ th # Ended(t, n)
           /\ <<t, n>> \notin repeated' => <<t, n>> \notin repeated /\ th # Again(t, n)
  PROVE  EventsComeLater'
<1>1. \A oh \in Threads \ {th} : todo'[oh] = todo[oh]
  BY SpawnElements
<1>2. \A oh \in Threads \ {th} : Idle(oh) => Idle(oh)'
  BY <1>1 DEF Idle
<1>3. ASSUME NEW t \in Tasks, NEW n \in Nums
      PROVE  /\ rstatus'[<<t, n>>] \in {"none", "queued"} => Idle(Started(t, n))'
             /\ ~RunFinal(t, n)' => Idle(Ended(t, n))'
             /\ <<t, n>> \notin repeated' => Idle(Again(t, n))'
  <2>1. {Started(t, n), Ended(t, n), Again(t, n)} \subseteq Threads
    BY ThreadFacts
  <2>2. /\ rstatus'[<<t, n>>] \in {"none", "queued"} => Idle(Started(t, n)) /\ th # Started(t, n)
        /\ ~RunFinal(t, n)' => Idle(Ended(t, n)) /\ th # Ended(t, n)
        /\ <<t, n>> \notin repeated' => Idle(Again(t, n)) /\ th # Again(t, n)
    BY DEF EventsComeLater
  <2>3. QED
    BY <1>2, <2>1, <2>2
<1>4. QED
  BY <1>3 DEF EventsComeLater

(* The threads that requests and the events of runs start.                 *)
LEMMA RequestsSpawn ==
  ASSUME MissionInv, Requests
  PROVE  \E th \in {Create, Cancel, Override}, calls \in Seq(CallSet) :
           /\ Spawn(th, calls) /\ Idle(th)
           /\ \A i \in DOMAIN calls :
                calls[i].op \in {"add", "begin", "drain", "cancel", "override"}
<1>1. CASE CreateMission
  <2>1. Idle(Create)
    BY <1>1, ThreadFacts, ThreadsDiffer DEF CreateMission, MissionInv, AbsentOK
  <2>2. PICK k \in Nat, calls \in Seq(CallSet) :
          /\ Spawn(Create, calls)
          /\ \A i \in DOMAIN calls :
               \/ i \in 1 .. k /\ calls[i].op = "add" /\ calls[i].task \in Tasks
               \/ calls[i].op \in {"begin", "drain"}
          /\ \A i \in 1 .. k : calls[i].op = "add"
    BY <1>1, CreationCalls
  <2>3. QED
    BY <2>1, <2>2
<1>2. CASE RequestCancel
  BY <1>2, DoCall DEF RequestCancel, Ops
<1>3. CASE RequestOverride
  BY <1>3, DoCall DEF RequestOverride, Ops
<1>4. QED
  BY <1>1, <1>2, <1>3 DEF Requests

(* What a run event leaves to be done: its thread is at its listeners, and *)
(* the first of them reads the status of the run.                          *)
EventSpawns(th, calls, t, n) ==
  /\ Spawn(th, calls) /\ Idle(th)
  /\ 1 \in DOMAIN calls
  /\ calls[1].op = "sync" /\ calls[1].task = t /\ calls[1].run = n
  /\ \A i \in DOMAIN calls : calls[i].op \in {"sync", "drain"}
  /\ \/ /\ th = Started(t, n) /\ rstatus[<<t, n>>] = "queued" /\ repeated' = repeated
        /\ rstatus' = [rstatus EXCEPT ![<<t, n>>] = "running"]
     \/ /\ th = Ended(t, n) /\ rstatus[<<t, n>>] \in {"queued", "running"}
        /\ repeated' = repeated
        /\ \E s \in TerminalStatuses : rstatus' = [rstatus EXCEPT ![<<t, n>>] = s]
     \/ /\ th = Again(t, n) /\ rstatus' = rstatus
        /\ repeated' = repeated \cup {<<t, n>>}

LEMMA RunSpawns ==
  ASSUME MissionInv, EventsComeLater, NEW t \in Tasks, NEW n \in Nums, RunGoesOn(t, n)
  PROVE  \E th \in {Started(t, n), Ended(t, n), Again(t, n)}, calls \in Seq(CallSet) :
           EventSpawns(th, calls, t, n)
<1>1. /\ Sync(t, n) \in Seq(CallSet) /\ DOMAIN Sync(t, n) = {1} /\ Sync(t, n)[1].op = "sync"
      /\ OnTerminalEvent(t, n) \in Seq(CallSet) /\ DOMAIN OnTerminalEvent(t, n) = {1, 2}
      /\ OnTerminalEvent(t, n)[1].op = "sync" /\ OnTerminalEvent(t, n)[2].op = "drain"
      /\ Sync(t, n)[1].task = t /\ Sync(t, n)[1].run = n
      /\ OnTerminalEvent(t, n)[1].task = t /\ OnTerminalEvent(t, n)[1].run = n
  BY SyncCall, EventCalls, DoCall DEF Ops
<1>2. CASE RunStarts(t, n)
  <2>1. /\ Spawn(Started(t, n), Sync(t, n)) /\ rstatus[<<t, n>>] = "queued"
        /\ rstatus' = [rstatus EXCEPT ![<<t, n>>] = "running"] /\ repeated' = repeated
    BY <1>2 DEF RunStarts, faultVars
  <2>2. Idle(Started(t, n))
    BY <2>1 DEF EventsComeLater
  <2>3. QED
    BY <1>1, <2>1, <2>2 DEF EventSpawns
<1>3. CASE \E s \in TerminalStatuses : RunEnds(t, n, s)
  <2>1. PICK s \in TerminalStatuses : RunEnds(t, n, s)
    BY <1>3
  <2>2. /\ Spawn(Ended(t, n), OnTerminalEvent(t, n)) /\ rstatus[<<t, n>>] \in {"queued", "running"}
        /\ rstatus' = [rstatus EXCEPT ![<<t, n>>] = s] /\ repeated' = repeated
    BY <2>1 DEF RunEnds, faultVars
  <2>3. Idle(Ended(t, n))
    BY <2>2 DEF EventsComeLater, RunFinal, TerminalStatuses
  <2>4. QED
    BY <1>1, <2>2, <2>3 DEF EventSpawns
<1>4. CASE RunEndsAgain(t, n)
  <2>1. /\ Spawn(Again(t, n), OnTerminalEvent(t, n)) /\ <<t, n>> \notin repeated
        /\ rstatus' = rstatus /\ repeated' = repeated \cup {<<t, n>>}
    BY <1>4 DEF RunEndsAgain, runVars
  <2>2. Idle(Again(t, n))
    BY <2>1 DEF EventsComeLater
  <2>3. QED
    BY <1>1, <2>1, <2>2 DEF EventSpawns
<1>5. QED
  BY <1>2, <1>3, <1>4 DEF RunGoesOn

LEMMA RunsEventsLater ==
  ASSUME MissionInv, EventsComeLater, NEW t \in Tasks, NEW n \in Nums, RunGoesOn(t, n)
  PROVE  EventsComeLater'
<1>1. rstatus \in [Tasks \X Nums -> {"none", "queued", "running"} \cup TerminalStatuses]
  BY DEF MissionInv, MissionTypeOK
<1>2. PICK th \in {Started(t, n), Ended(t, n), Again(t, n)}, calls \in Seq(CallSet) :
           EventSpawns(th, calls, t, n)
  BY RunSpawns
<1>3. ASSUME NEW u \in Tasks, NEW m \in Nums
      PROVE  /\ rstatus'[<<u, m>>] \in {"none", "queued"} =>
                  rstatus[<<u, m>>] \in {"none", "queued"} /\ th # Started(u, m)
             /\ ~RunFinal(u, m)' => ~RunFinal(u, m) /\ th # Ended(u, m)
             /\ <<u, m>> \notin repeated' => <<u, m>> \notin repeated /\ th # Again(u, m)
  <2>1. CASE th = Started(t, n)
    <3>1. /\ rstatus[<<t, n>>] = "queued" /\ repeated' = repeated
          /\ rstatus' = [rstatus EXCEPT ![<<t, n>>] = "running"]
      BY <1>2, <2>1, EventThreadsDiffer DEF EventSpawns
    <3>2. th # Ended(u, m) /\ th # Again(u, m) /\ (th = Started(u, m) => u = t /\ m = n)
      BY <2>1, EventThreadsDiffer
    <3>3. QED
      BY <1>1, <3>1, <3>2 DEF RunFinal, TerminalStatuses
  <2>2. CASE th = Ended(t, n)
    <3>1. /\ rstatus[<<t, n>>] \in {"queued", "running"} /\ repeated' = repeated
          /\ \E s \in TerminalStatuses : rstatus' = [rstatus EXCEPT ![<<t, n>>] = s]
      BY <1>2, <2>2, EventThreadsDiffer DEF EventSpawns
    <3>2. th # Started(u, m) /\ th # Again(u, m) /\ (th = Ended(u, m) => u = t /\ m = n)
      BY <2>2, EventThreadsDiffer
    <3>3. QED
      BY <1>1, <3>1, <3>2 DEF RunFinal, TerminalStatuses
  <2>3. CASE th = Again(t, n)
    <3>1. rstatus' = rstatus /\ repeated' = repeated \cup {<<t, n>>}
      BY <1>2, <2>3, EventThreadsDiffer DEF EventSpawns
    <3>2. th # Started(u, m) /\ th # Ended(u, m) /\ (th = Again(u, m) => u = t /\ m = n)
      BY <2>3, EventThreadsDiffer
    <3>3. QED
      BY <3>1, <3>2 DEF RunFinal
  <2>4. QED
    BY <1>2, <2>1, <2>2, <2>3 DEF EventSpawns
<1>4. th \in Threads
  BY ThreadFacts
<1>5. QED
  BY <1>2, <1>3, <1>4, SpawnEventsLater DEF EventSpawns

LEMMA RequestsEventsLater ==
  ASSUME MissionInv, EventsComeLater, Requests
  PROVE  EventsComeLater'
<1>1. PICK th \in {Create, Cancel, Override}, calls \in Seq(CallSet) :
        Spawn(th, calls) /\ Idle(th)
  BY RequestsSpawn
<1>2. th \in Threads
  BY ThreadFacts
<1>3. \A t \in Tasks, n \in Nums : th # Started(t, n) /\ th # Ended(t, n) /\ th # Again(t, n)
  BY ThreadsDiffer
<1>4. rstatus' = rstatus /\ repeated' = repeated
  BY DEF Requests, CreateMission, RequestCancel, RequestOverride, runVars, faultVars
<1>5. \A t \in Tasks, n \in Nums : RunFinal(t, n)' <=> RunFinal(t, n)
  BY <1>4 DEF RunFinal
<1>6. QED
  BY <1>1, <1>2, <1>3, <1>4, <1>5, SpawnEventsLater

LEMMA RestartEventsLater ==
  ASSUME Restart
  PROVE  EventsComeLater'
<1>1. \A th \in Threads \ {Startup} : Idle(th)'
  BY DEF Restart, Idle
<1>2. \A t \in Tasks, n \in Nums :
        {Started(t, n), Ended(t, n), Again(t, n)} \subseteq Threads \ {Startup}
  BY ThreadFacts, ThreadsDiffer
<1>3. QED
  BY <1>1, <1>2 DEF EventsComeLater

LEMMA EventInvHolds == Spec => [](MissionInv /\ EventInv)
<1>1. Init => EventInv
  <2>1. SUFFICES ASSUME Init PROVE EventInv
    OBVIOUS
  <2>2. EventsComeLater
    BY <2>1, ThreadFacts DEF Init, EventsComeLater, Idle
  <2>3. WaitsUnlinked
    BY <2>1 DEF Init, WaitsUnlinked
  <2>4. QED
    BY <2>2, <2>3 DEF EventInv
<1>2. MissionInv /\ EventInv /\ [Next]_vars => EventInv'
  <2>1. SUFFICES ASSUME MissionInv, EventInv, [Next]_vars
                 PROVE  EventInv'
    OBVIOUS
  <2>2. EventsComeLater /\ WaitsUnlinked
    BY <2>1 DEF EventInv
  <2>3. CASE Requests \/ Restart
    <3>1. UNCHANGED <<tstatus, trun>>
      BY <2>3 DEF Requests, CreateMission, RequestCancel, RequestOverride, Restart, taskVars
    <3>2. WaitsUnlinked'
      BY <2>2, <3>1 DEF WaitsUnlinked
    <3>3. QED
      BY <2>1, <2>2, <2>3, <3>2, RequestsEventsLater, RestartEventsLater DEF EventInv
  <2>4. ASSUME NEW th \in Threads, Work(th)
        PROVE  EventInv'
    <3>1. WaitsUnlinked'
      BY <2>1, <2>2, <2>4, WorkWaits DEF WaitsUnlinked
    <3>2. QED
      BY <2>1, <2>2, <2>4, <3>1, WorkEventsLater DEF EventInv
  <2>5. ASSUME NEW t \in Tasks, NEW n \in Nums, RunGoesOn(t, n)
        PROVE  EventInv'
    <3>1. UNCHANGED <<tstatus, trun>>
      BY <2>5 DEF RunGoesOn, RunStarts, RunEnds, RunEndsAgain, taskVars
    <3>2. WaitsUnlinked'
      BY <2>2, <3>1 DEF WaitsUnlinked
    <3>3. QED
      BY <2>1, <2>2, <2>5, <3>2, RunsEventsLater DEF EventInv
  <2>6. CASE UNCHANGED vars
    BY <2>2, <2>6 DEF vars, taskVars, runVars, faultVars, EventInv, EventsComeLater, WaitsUnlinked,
       RunFinal, Idle
  <2>7. QED
    BY <2>1, <2>3, <2>4, <2>5, <2>6 DEF Next
<1>3. QED
  BY <1>1, <1>2, MissionInvHolds, PTL DEF Spec
-----------------------------------------------------------------------------
(* What a step leaves of the claim to a task; or the task is fresh: it is  *)
(* given out, and nobody has started it.                                   *)
ClaimFrame(t) ==
  /\ trun'[t] = trun[t] /\ Made(t)' = Made(t)
  /\ tstatus'[t] \in {"absent", "pending"} => tstatus'[t] = tstatus[t]

Fresh(t) ==
  /\ ~Starting(t) /\ Made(t) = {} /\ trun[t] = 0
  /\ Made(t)' = {} /\ trun'[t] = 0

LEMMA ClaimStaysOK ==
  ASSUME NEW t, NEW c, ClaimOK(c, t), ClaimFrame(t)
  PROVE  ClaimOK(c, t)'
  BY DEF ClaimOK, ClaimFrame

LEMMA ClaimsKept ==
  ASSUME MissionInv, NEW t \in Tasks, ClaimsOK(t), ClaimedOnce(t),
         NEW th \in Threads, NEW calls, NewCalls(th, calls),
         ClaimFrame(t) \/ ~Starting(t) \/ Starts(todo[th][1], t),
         \A i \in DOMAIN calls : Starts(calls[i], t) => ClaimOK(calls[i], t)',
         \A i, j \in DOMAIN calls : Starts(calls[i], t) /\ Starts(calls[j], t) => i = j,
         \A i \in DOMAIN calls : Starts(calls[i], t) => ~Starting(t) \/ Starts(todo[th][1], t)
  PROVE  ClaimsOK(t)' /\ ClaimedOnce(t)'
<1> DEFINE Old(oh, i) == WasAt(th, calls, oh, i)
           IsNew(oh, i) == oh = th /\ i \in DOMAIN calls /\ todo'[oh][i] = calls[i]
           IsOld(oh, i) == /\ Old(oh, i) \in DOMAIN todo[oh] /\ (oh = th => Old(oh, i) # 1)
                           /\ todo'[oh][i] = todo[oh][Old(oh, i)]
<1>1. \A oh \in Threads : \A i \in DOMAIN todo'[oh] : IsNew(oh, i) \/ IsOld(oh, i)
  BY NewElements
<1>2. 1 \in DOMAIN todo[th]
  BY NextOfThread DEF NewCalls
<1>3. ASSUME NEW oh \in Threads, NEW k \in DOMAIN todo[oh], oh = th => k # 1,
             Starts(todo[oh][k], t)
      PROVE  Starting(t) /\ ~Starts(todo[th][1], t)
  BY <1>2, <1>3 DEF ClaimedOnce, Starting
<1>4. ASSUME NEW oh \in Threads, NEW i \in DOMAIN todo'[oh], Starts(todo'[oh][i], t)
      PROVE  ClaimOK(todo[oh][i], t)'
  <2>1. CASE IsNew(oh, i)
    <3>1. ClaimOK(calls[i], t)'
      BY <1>4, <2>1
    <3>2. QED
      BY <2>1, <3>1 DEF ClaimOK
  <2>2. CASE IsOld(oh, i)
    <3>1. PICK c \in CallSet : c = todo[oh][Old(oh, i)] /\ c = todo'[oh][i]
      BY <2>2, CallIsOK
    <3>2. Starts(todo[oh][Old(oh, i)], t)
      BY <1>4, <2>2
    <3>3. ClaimOK(c, t) /\ ClaimFrame(t)
      BY <1>3, <2>2, <3>1, <3>2 DEF ClaimsOK
    <3>4. ClaimOK(c, t)'
      BY <3>3, ClaimStaysOK
    <3>5. QED
      BY <3>1, <3>4 DEF ClaimOK
  <2>3. QED
    BY <1>1, <2>1, <2>2
<1>5. ASSUME NEW xh \in Threads, NEW oh \in Threads,
             NEW i \in DOMAIN todo'[xh], NEW j \in DOMAIN todo'[oh],
             Starts(todo'[xh][i], t), Starts(todo'[oh][j], t)
      PROVE  xh = oh /\ i = j
  <2>1. CASE IsNew(xh, i) /\ IsNew(oh, j)
    BY <1>5, <2>1
  <2>2. CASE IsNew(xh, i) /\ IsOld(oh, j)
    <3>1. Starts(calls[i], t) /\ Starts(todo[oh][Old(oh, j)], t)
      BY <1>5, <2>2
    <3>2. QED
      BY <1>3, <2>2, <3>1
  <2>3. CASE IsOld(xh, i) /\ IsNew(oh, j)
    <3>1. Starts(calls[j], t) /\ Starts(todo[xh][Old(xh, i)], t)
      BY <1>5, <2>3
    <3>2. QED
      BY <1>3, <2>3, <3>1
  <2>4. CASE IsOld(xh, i) /\ IsOld(oh, j)
    <3>1. Starts(todo[xh][Old(xh, i)], t) /\ Starts(todo[oh][Old(oh, j)], t)
      BY <1>5, <2>4
    <3>2. xh = oh /\ Old(xh, i) = Old(oh, j)
      BY <2>4, <3>1 DEF ClaimedOnce
    <3>3. QED
      BY <3>2, WasApart
  <2>5. QED
    BY <1>1, <2>1, <2>2, <2>3, <2>4
<1>6. ClaimedOnce(t)'
  BY <1>5 DEF ClaimedOnce, Starts
<1>7. ClaimsOK(t)'
  BY <1>4 DEF ClaimsOK, ClaimOK, Starts
<1>8. QED
  BY <1>6, <1>7

LEMMA WorkClaimFrame ==
  ASSUME MissionInv, NEW th \in Threads, Work(th), NEW t \in Tasks, t \notin twice'
  PROVE  \/ ClaimFrame(t)
         \/ Fresh(t) /\ (AddTask(th) \/ UnblockTasks(th) \/ ReconcileTask(th))
         \/ Starts(todo[th][1], t) /\ (CreateRun(th) \/ LinkRun(th)) /\ t = Head(todo[th]).task
<1>1. /\ tstatus \in [Tasks -> {"absent"} \cup TaskStatuses]
      /\ rstatus \in [Tasks \X Nums -> {"none", "queued", "running"} \cup TerminalStatuses]
  BY DEF MissionInv, MissionTypeOK
<1>2. 1 \in DOMAIN todo[th] /\ Head(todo[th]) = todo[th][1] /\ Upcoming(th) = todo[th][1].op
  BY NextCall
<1>3. CASE AddTask(th)
  <2>1. /\ Made(t) = {} /\ trun[t] = 0 /\ ~Starting(t)
    BY <1>3, AddingIsFirst DEF Starting
  <2>2. trun' = trun /\ rstatus' = rstatus
    BY <1>3 DEF AddTask, runVars
  <2>3. QED
    BY <1>3, <2>1, <2>2, SameRuns DEF Fresh
<1>4. ASSUME Made(t)' = Made(t), trun' = trun,
             tstatus'[t] \notin {"absent", "pending"} \/ tstatus'[t] = tstatus[t]
      PROVE  ClaimFrame(t)
  BY <1>4 DEF ClaimFrame
<1>5. ASSUME NEW halted, UnblockTasks(th) \/ ReconcileTask(th),
             twice' = twice \cup StartedBefore(halted), \A u \in halted : trun[u] = 0,
             tstatus'[t] = "pending" => tstatus[t] = "pending" \/ t \in halted,
             tstatus'[t] = "absent" => tstatus[t] = "absent",
             trun' = trun, rstatus' = rstatus
      PROVE  ClaimFrame(t) \/ Fresh(t)
  <2>1. Made(t)' = Made(t)
    BY <1>5, SameRuns
  <2>2. CASE t \in halted
    <3>1. Made(t) = {} /\ ~Starting(t)
      BY <1>5, <2>2 DEF StartedBefore
    <3>2. QED
      BY <1>5, <2>1, <2>2, <3>1 DEF Fresh
  <2>3. CASE t \notin halted
    BY <1>5, <2>1, <2>3 DEF ClaimFrame
  <2>4. QED
    BY <2>2, <2>3
<1>6. CASE UnblockTasks(th)
  <2>1. PICK halted :
          /\ halted = {u \in Tasks : tstatus[u] = "blocked" /\ trun[u] = 0}
          /\ tstatus' = [u \in Tasks |-> IF u \in halted THEN "pending" ELSE tstatus[u]]
          /\ twice' = twice \cup StartedBefore(halted)
    BY <1>6 DEF UnblockTasks
  <2>2. trun' = trun /\ rstatus' = rstatus
    BY <1>6 DEF UnblockTasks, runVars
  <2>3. QED
    BY <1>5, <1>6, <2>1, <2>2
<1>7. CASE ReconcileTask(th)
  <2>1. PICK halted :
          /\ halted = {u \in {Head(todo[th]).task} : Requeued(u)}
          /\ twice' = twice \cup StartedBefore(halted)
    BY <1>7 DEF ReconcileTask
  <2>2. /\ trun' = trun /\ rstatus' = rstatus
        /\ tstatus' = [tstatus EXCEPT ![Head(todo[th]).task] =
                         IF Requeued(Head(todo[th]).task) THEN "pending" ELSE @]
    BY <1>7 DEF ReconcileTask, runVars
  <2>3. tstatus'[t] = tstatus[t] \/ (t \in halted /\ tstatus'[t] = "pending")
    BY <1>1, <2>1, <2>2
  <2>4. \A u \in halted : trun[u] = 0
    BY <2>1 DEF Requeued
  <2>5. QED
    BY <1>5, <1>7, <2>1, <2>2, <2>3, <2>4
<1>8. CASE CreateRun(th)
  <2>1. PICK u \in Tasks, n \in Nums :
          u = Head(todo[th]).task /\ rstatus' = [rstatus EXCEPT ![<<u, n>>] = "queued"]
    BY <1>8, CreateRunCalls
  <2>2. CASE t = u
    <3>1. todo[th][1].op = "create"
      BY <1>2, <1>8 DEF CreateRun, At
    <3>2. QED
      BY <1>2, <1>8, <2>1, <2>2, <3>1 DEF Starts
  <2>3. CASE t # u
    <3>1. Made(t)' = Made(t)
      BY <1>1, <2>1, <2>3 DEF Made
    <3>2. QED
      BY <1>8, <3>1 DEF ClaimFrame, CreateRun, taskVars
  <2>4. QED
    BY <2>2, <2>3
<1>9. CASE LinkRun(th)
  <2>1. PICK u \in Tasks, n \in Nums :
           /\ u = Head(todo[th]).task /\ n \in Made(u)
           /\ trun' = [trun EXCEPT ![u] = n]
           /\ tstatus' = [tstatus EXCEPT ![u] =
                            IF RunFinal(u, n) THEN "running" ELSE rstatus[<<u, n>>]]
    BY <1>9, LinkHead
  <2>2. CASE t = u
    <3>1. todo[th][1].op = "link"
      BY <1>2, <1>9 DEF LinkRun, At
    <3>2. QED
      BY <1>2, <1>9, <2>1, <2>2, <3>1 DEF Starts
  <2>3. CASE t # u
    <3>1. trun'[t] = trun[t] /\ tstatus'[t] = tstatus[t]
      BY <1>1, <2>1, <2>3 DEF MissionInv, MissionTypeOK
    <3>2. Made(t)' = Made(t)
      BY <1>9, SameRuns DEF LinkRun, runVars
    <3>3. QED
      BY <3>1, <3>2 DEF ClaimFrame
  <2>4. QED
    BY <2>2, <2>3
<1>10. CASE Drain(th)
  <2>1. trun' = trun /\ tstatus'[t] \in {tstatus[t], "queued"} /\ rstatus' = rstatus
    BY <1>10 DEF Drain, runVars
  <2>2. QED
    BY <1>4, <2>1, SameRuns
<1>11. CASE CreateRunFails(th)
  <2>1. trun' = trun /\ tstatus'[t] \in {tstatus[t], "failed"} /\ rstatus' = rstatus
    BY <1>1, <1>11 DEF CreateRunFails, runVars
  <2>2. QED
    BY <1>4, <2>1, SameRuns
<1>12. CASE ApplyStatus(th)
  <2>1. CallOK(Head(todo[th])) /\ Head(todo[th]).op = "apply"
    BY <1>12, HeadOK, AtCall DEF ApplyStatus, MissionInv
  <2>2. Head(todo[th]).status \notin {"absent", "pending"}
    BY <2>1 DEF CallOK, TerminalStatuses
  <2>3. /\ trun' = trun /\ tstatus'[t] \in {tstatus[t], Head(todo[th]).status}
        /\ rstatus' = rstatus
    BY <1>1, <1>12 DEF ApplyStatus, runVars
  <2>4. QED
    BY <1>4, <2>2, <2>3, SameRuns
<1>13. CASE BlockMission(th) \/ FinishMission(th) \/ CancelMission(th)
  <2>1. /\ trun' = trun /\ tstatus'[t] \in {tstatus[t], "blocked", "cancelled"}
        /\ rstatus' = rstatus
    BY <1>1, <1>13 DEF BlockMission, FinishMission, CancelMission, runVars
  <2>2. QED
    BY <1>4, <2>1, SameRuns
<1>14. CASE trun' = trun /\ tstatus' = tstatus /\ ~CreateRun(th)
  <2>1. Made(t)' = Made(t)
    BY <1>14, WorkMade
  <2>2. QED
    BY <1>4, <1>14, <2>1
<1>15. QED
  BY <1>3, <1>5, <1>6, <1>7, <1>8, <1>9, <1>10, <1>11, <1>12, <1>13, <1>14 DEF Work, BeginMission,
     StartTask, SyncTask, EvaluateGate, JudgeGate, CheckDone, EndMission, CancelRun, RecheckMission,
     ApproveGates, ResumeMission, FailOrphan, OrphansFailed, Reconcile, taskVars

(* A task once remembered as given back stays so.                          *)
LEMMA TwiceStays ==
  ASSUME Next
  PROVE  twice \subseteq twice'
<1>1. ASSUME NEW th \in Threads, Work(th)
      PROVE  twice \subseteq twice'
  <2>1. CASE UnblockTasks(th) \/ ReconcileTask(th)
    BY <2>1 DEF UnblockTasks, ReconcileTask
  <2>2. CASE twice' = twice
    BY <2>2
  <2>3. QED
    BY <1>1, <2>1, <2>2 DEF Work, AddTask, BeginMission, Drain, StartTask, CreateRun,
     CreateRunFails, LinkRun, SyncTask, ApplyStatus, EvaluateGate, JudgeGate, BlockMission,
     FinishMission, CheckDone, EndMission, CancelMission, CancelRun, RecheckMission, ApproveGates,
     ResumeMission, FailOrphan, OrphansFailed, Reconcile, faultVars
<1>2. CASE Requests \/ Restart
  BY <1>2 DEF Requests, CreateMission, RequestCancel, RequestOverride, Restart, faultVars
<1>3. ASSUME NEW t \in Tasks, NEW n \in Nums, RunGoesOn(t, n)
      PROVE  twice \subseteq twice'
  BY <1>3 DEF RunGoesOn, RunStarts, RunEnds, RunEndsAgain, faultVars
<1>4. QED
  BY <1>1, <1>2, <1>3 DEF Next
-----------------------------------------------------------------------------
(* A task that waits is in nobody's hands.                                 *)
LEMMA PendingUnclaimed ==
  ASSUME MissionInv, NEW t \in Tasks, ClaimsOK(t), RunOK(t), tstatus[t] = "pending"
  PROVE  ~Starting(t) /\ Made(t) = {} /\ trun[t] = 0
<1>1. Made(t) = {} /\ trun[t] = 0
  BY DEF RunOK
<1>2. ASSUME NEW th \in Threads, NEW i \in DOMAIN todo[th], Starts(todo[th][i], t)
      PROVE  FALSE
  <2>1. ClaimOK(todo[th][i], t)
    BY <1>2 DEF ClaimsOK
  <2>2. Made(t) # {1}
    BY <1>1
  <2>3. QED
    BY <1>1, <1>2, <2>1, <2>2 DEF ClaimOK, Starts
<1>3. QED
  BY <1>1, <1>2 DEF Starting

(* The claims of a drain: each ready task once.                            *)
LEMMA DrainClaims ==
  ASSUME MissionInv, NEW t \in Tasks \ twice', ClaimsOK(t), ClaimedOnce(t), RunOK(t),
         NEW th \in Threads, Drain(th)
  PROVE  ClaimsOK(t)' /\ ClaimedOnce(t)'
<1>1. PICK S \in SUBSET Tasks :
        /\ \A u \in S : Ready(u) /\ ~Terminal(mission) /\ tstatus'[u] = "queued"
        /\ NewCalls(th, ForEach("start", S) \o Do("check"))
  BY DrainCalls
<1>2. "start" \in Ops /\ "check" \in Ops
  BY DEF Ops
<1>3. PICK a \in Seq(CallSet) :
        /\ a = ForEach("start", S)
        /\ \A i \in DOMAIN a : a[i] \in CallSet /\ a[i].op = "start" /\ a[i].task \in S
        /\ \A i, j \in DOMAIN a : a[i].task = a[j].task => i = j
  BY <1>2, EachCall
<1>4. PICK b \in Seq(CallSet) : b = Do("check") /\ DOMAIN b = {1} /\ b[1].op = "check"
  BY <1>2, DoCall
<1>5. PICK calls \in Seq(CallSet) : calls = a \o b /\ NewCalls(th, calls)
  BY <1>1, <1>3, <1>4 DEF NewCalls
<1>6. \A i \in DOMAIN calls :
        \/ i \in DOMAIN a /\ calls[i] = a[i]
        \/ calls[i].op = "check"
  BY <1>3, <1>4, <1>5, ConcatElements
<1>7. ASSUME t \in S
      PROVE  ~Starting(t) /\ Made(t)' = {} /\ trun'[t] = 0
  <2>1. ~Starting(t) /\ Made(t) = {} /\ trun[t] = 0
    BY <1>1, <1>7, PendingUnclaimed DEF Ready
  <2>2. trun' = trun /\ rstatus' = rstatus
    BY DEF Drain, runVars
  <2>3. Made(t)' = Made(t)
    BY <2>2, SameRuns
  <2>4. QED
    BY <2>1, <2>2, <2>3
<1>8. ClaimFrame(t) \/ ~Starting(t) \/ Starts(todo[th][1], t)
  BY WorkClaimFrame DEF Work, Fresh
<1>9. ASSUME NEW i \in DOMAIN calls, Starts(calls[i], t)
      PROVE  ClaimOK(calls[i], t)' /\ ~Starting(t)
  <2>1. i \in DOMAIN a /\ calls[i].op = "start" /\ t \in S
    BY <1>3, <1>6, <1>9 DEF Starts
  <2>2. tstatus'[t] = "queued" /\ Made(t)' = {} /\ trun'[t] = 0 /\ ~Starting(t)
    BY <1>1, <1>7, <2>1
  <2>3. QED
    BY <2>1, <2>2 DEF ClaimOK
<1>10. \A i, j \in DOMAIN calls : Starts(calls[i], t) /\ Starts(calls[j], t) => i = j
  BY <1>3, <1>6 DEF Starts
<1>11. QED
  BY <1>5, <1>8, <1>9, <1>10, ClaimsKept

(* A claim that goes from one call of a thread to the next.                *)
LEMMA ClaimGoesOn ==
  ASSUME MissionInv, NEW t \in Tasks \ twice', ClaimsOK(t), ClaimedOnce(t),
         NEW th \in Threads, Work(th), NEW c, NewCalls(th, <<c>>),
         Starts(c, t) => ClaimOK(c, t)' /\ Starts(todo[th][1], t)
  PROVE  ClaimsOK(t)' /\ ClaimedOnce(t)'
<1>1. PICK calls : calls = <<c>>
  OBVIOUS
<1>2. DOMAIN calls = {1} /\ calls[1] = c
  BY <1>1
<1>3. ClaimFrame(t) \/ ~Starting(t) \/ Starts(todo[th][1], t)
  BY WorkClaimFrame DEF Fresh
<1>4. ASSUME NEW i \in DOMAIN calls, Starts(calls[i], t)
      PROVE  ClaimOK(calls[i], t)' /\ Starts(todo[th][1], t)
  <2>1. calls[i] = c
    BY <1>2
  <2>2. QED
    BY <1>4, <2>1
<1>5. NewCalls(th, calls)
  BY <1>1
<1>6. QED
  BY <1>2, <1>3, <1>4, <1>5, ClaimsKept

(* The next call of a thread, when it starts the task.                     *)
LEMMA WorkClaims ==
  ASSUME MissionInv, NEW t \in Tasks \ twice', ClaimsOK(t), ClaimedOnce(t), RunOK(t),
         NEW th \in Threads, Work(th)
  PROVE  ClaimsOK(t)' /\ ClaimedOnce(t)'
<1>1. /\ 1 \in DOMAIN todo[th] /\ Head(todo[th]) = todo[th][1] /\ Upcoming(th) = todo[th][1].op
      /\ Starts(todo[th][1], t) => ClaimOK(todo[th][1], t)
  BY NextCall DEF ClaimsOK
<1>2. CASE Drain(th)
  BY <1>2, DrainClaims
<1>3. ASSUME NEW calls, NewCalls(th, calls),
             \A i \in DOMAIN calls : calls[i].op \notin {"start", "create", "link"}
      PROVE  ClaimsOK(t)' /\ ClaimedOnce(t)'
  <2>1. ClaimFrame(t) \/ ~Starting(t) \/ Starts(todo[th][1], t)
    BY WorkClaimFrame DEF Fresh
  <2>2. \A i \in DOMAIN calls : ~Starts(calls[i], t)
    BY <1>3 DEF Starts
  <2>3. QED
    BY <1>3, <2>1, <2>2, ClaimsKept
<1>4. CASE StartTask(th)
  <2>1. CASE NewCalls(th, <<>>)
    BY <1>3, <2>1, NoCalls
  <2>2. ASSUME NEW u \in Tasks, u = Head(todo[th]).task, NewCalls(th, DoTask("create", u))
        PROVE  ClaimsOK(t)' /\ ClaimedOnce(t)'
    <3>1. todo[th][1].op = "start" /\ todo[th][1].task = u
      BY <1>1, <1>4, <2>2 DEF StartTask, At
    <3>2. PICK c : c = Call("create", u, 0, "none") /\ DoTask("create", u) = <<c>>
      BY DEF DoTask
    <3>3. c.op = "create" /\ c.task = u
      BY <3>2 DEF Call
    <3>4. ASSUME u = t
          PROVE  ClaimOK(c, t)'
      <4>1. trun[t] = 0 /\ Made(t) = {} /\ tstatus[t] \notin {"absent", "pending"}
        BY <1>1, <3>1, <3>4 DEF ClaimOK, Starts
      <4>2. trun' = trun /\ tstatus' = tstatus /\ rstatus' = rstatus
        BY <1>4 DEF StartTask, taskVars, runVars
      <4>3. Made(t)' = {}
        BY <4>1, <4>2, SameRuns
      <4>4. QED
        BY <3>3, <4>1, <4>2, <4>3 DEF ClaimOK
    <3>5. Starts(c, t) => u = t /\ Starts(todo[th][1], t)
      BY <3>1, <3>3 DEF Starts
    <3>6. NewCalls(th, <<c>>)
      BY <2>2, <3>2
    <3>7. QED
      BY <3>4, <3>5, <3>6, ClaimGoesOn
  <2>3. QED
    BY <1>4, <2>1, <2>2, StartTaskCalls
<1>5. CASE CreateRun(th)
  <2>1. PICK u \in Tasks, n \in Nums :
          /\ u = Head(todo[th]).task /\ Made(u) = 1 .. (n - 1)
          /\ rstatus' = [rstatus EXCEPT ![<<u, n>>] = "queued"]
          /\ NewCalls(th, <<Call("link", u, n, "none")>>)
    BY <1>5, CreateRunCalls
  <2>2. todo[th][1].op = "create" /\ todo[th][1].task = u
    BY <1>1, <1>5, <2>1 DEF CreateRun, At
  <2>3. PICK c : c = Call("link", u, n, "none") /\ NewCalls(th, <<c>>)
    BY <2>1
  <2>4. c.op = "link" /\ c.task = u /\ c.run = n
    BY <2>3 DEF Call
  <2>5. ASSUME u = t
        PROVE  ClaimOK(c, t)'
    <3>1. trun[t] = 0 /\ Made(t) = {}
      BY <1>1, <2>2, <2>5 DEF ClaimOK, Starts
    <3>2. n = 1
      <4>1. n \in Nat /\ n >= 1
        BY DEF Nums
      <4>2. 1 .. (n - 1) = {}
        BY <2>1, <2>5, <3>1
      <4>3. QED
        BY <4>1, <4>2
    <3>3. rstatus \in [Tasks \X Nums -> {"none", "queued", "running"} \cup TerminalStatuses]
      BY DEF MissionInv, MissionTypeOK
    <3>4. \A m \in Nums : rstatus'[<<t, m>>] # "none" <=> m = 1
      BY <2>1, <2>5, <3>1, <3>2, <3>3 DEF Made
    <3>5. Made(t)' = {1}
      BY <3>2, <3>4 DEF Made
    <3>6. trun'[t] = 0
      BY <1>5, <3>1 DEF CreateRun, taskVars
    <3>7. QED
      BY <2>4, <3>2, <3>5, <3>6 DEF ClaimOK
  <2>6. Starts(c, t) => u = t /\ Starts(todo[th][1], t)
    BY <2>2, <2>4 DEF Starts
  <2>7. QED
    BY <2>3, <2>5, <2>6, ClaimGoesOn
<1>6. CASE ~Drain(th) /\ ~StartTask(th) /\ ~CreateRun(th)
  <2>1. PICK calls : NewKnown(th, calls)
    BY WorkKnown
  <2>2. \A i \in DOMAIN calls : calls[i].op \notin {"start", "create", "link"}
    BY <1>6, <2>1 DEF NewKnown, PushedBy
  <2>3. QED
    BY <1>3, <2>1, <2>2 DEF NewKnown
<1>7. QED
  BY <1>2, <1>4, <1>5, <1>6

LEMMA WorkRuns ==
  ASSUME MissionInv, NEW t \in Tasks \ twice', ClaimsOK(t), RunOK(t),
         NEW th \in Threads, Work(th)
  PROVE  RunOK(t)'
<1>1. /\ Made(t) \subseteq {1}
      /\ tstatus[t] \in {"absent", "pending"} => Made(t) = {} /\ trun[t] = 0
  BY DEF RunOK
<1>2. /\ 1 \in DOMAIN todo[th] /\ Head(todo[th]) = todo[th][1] /\ Upcoming(th) = todo[th][1].op
      /\ Starts(todo[th][1], t) => ClaimOK(todo[th][1], t)
  BY NextCall DEF ClaimsOK
<1>3. /\ tstatus \in [Tasks -> {"absent"} \cup TaskStatuses]
      /\ trun \in [Tasks -> 0 .. MaxRuns]
      /\ rstatus \in [Tasks \X Nums -> {"none", "queued", "running"} \cup TerminalStatuses]
  BY DEF MissionInv, MissionTypeOK
<1>4. CASE ClaimFrame(t)
  BY <1>1, <1>4 DEF ClaimFrame, RunOK
<1>5. CASE Fresh(t)
  BY <1>5 DEF Fresh, RunOK
<1>6. CASE Starts(todo[th][1], t) /\ CreateRun(th) /\ t = Head(todo[th]).task
  <2>1. PICK n \in Nums :
          Made(t) = 1 .. (n - 1) /\ rstatus' = [rstatus EXCEPT ![<<t, n>>] = "queued"]
    BY <1>6, CreateRunCalls
  <2>2. todo[th][1].op = "create"
    BY <1>2, <1>6 DEF CreateRun, At
  <2>3. Made(t) = {} /\ tstatus[t] \notin {"absent", "pending"} /\ tstatus' = tstatus
    BY <1>2, <1>6, <2>2 DEF ClaimOK, CreateRun, taskVars
  <2>4. n = 1
    BY <2>1, <2>3 DEF Nums
  <2>5. \A m \in Nums : rstatus'[<<t, m>>] # "none" => m = 1
    BY <1>3, <2>1, <2>3, <2>4 DEF Made
  <2>6. Made(t)' \subseteq {1}
    BY <2>5 DEF Made
  <2>7. QED
    BY <2>3, <2>6 DEF RunOK
<1>7. CASE Starts(todo[th][1], t) /\ LinkRun(th) /\ t = Head(todo[th]).task
  <2>1. PICK u \in Tasks, n \in Nums :
          /\ u = Head(todo[th]).task /\ n = Head(todo[th]).run /\ n \in Made(u)
          /\ trun' = [trun EXCEPT ![u] = n]
          /\ mapped' = [mapped EXCEPT ![u] = @ \cup {n}]
          /\ tstatus' = [tstatus EXCEPT ![u] =
                           IF RunFinal(u, n) THEN "running" ELSE rstatus[<<u, n>>]]
          /\ NewCalls(th, Sync(u, n))
    BY <1>7, LinkHead
  <2>2. rstatus[<<t, n>>] \in {"queued", "running"} \cup TerminalStatuses
    BY <1>3, <1>7, <2>1 DEF Made
  <2>3. tstatus'[t] \in {"queued", "running"}
    BY <1>3, <1>7, <2>1, <2>2 DEF RunFinal
  <2>4. Made(t)' = Made(t)
    BY <1>7, SameRuns DEF LinkRun, runVars
  <2>5. QED
    BY <1>1, <2>3, <2>4 DEF RunOK
<1>8. QED
  BY <1>4, <1>5, <1>6, <1>7, WorkClaimFrame

(* The steps that start a thread, and runs that go on, start no task.      *)
LEMMA SpawnClaims ==
  ASSUME MissionInv, ClaimInv, UNCHANGED <<tstatus, trun>>,
         \A t \in Tasks : Made(t)' = Made(t), twice' = twice,
         NEW th \in Threads, Idle(th), NEW calls \in Seq(CallSet), Spawn(th, calls),
         \A i \in DOMAIN calls : calls[i].op \notin {"start", "create", "link"}
  PROVE  ClaimInv'
<1>1. /\ todo'[th] = calls /\ \A oh \in Threads \ {th} : todo'[oh] = todo[oh]
  BY SpawnElements
<1>2. ASSUME NEW t \in Tasks \ twice'
      PROVE  ClaimsOK(t)' /\ ClaimedOnce(t)' /\ RunOK(t)'
  <2>1. ClaimsOK(t) /\ ClaimedOnce(t) /\ RunOK(t) /\ Made(t)' = Made(t)
    BY <1>2 DEF ClaimInv
  <2>2. ASSUME NEW oh \in Threads, NEW i \in DOMAIN todo'[oh], Starts(todo'[oh][i], t)
        PROVE  todo'[oh] = todo[oh]
    BY <1>1, <2>2 DEF Starts
  <2>3. ClaimsOK(t)'
    <3>1. ASSUME NEW oh \in Threads, NEW i \in DOMAIN todo'[oh], Starts(todo'[oh][i], t)
          PROVE  ClaimOK(todo[oh][i], t)'
      <4>1. todo'[oh] = todo[oh] /\ ClaimOK(todo[oh][i], t)
        BY <2>1, <2>2, <3>1 DEF ClaimsOK
      <4>2. QED
        BY <2>1, <4>1 DEF ClaimOK
    <3>2. QED
      BY <3>1 DEF ClaimsOK, ClaimOK, Starts
  <2>4. ClaimedOnce(t)'
    <3>1. ASSUME NEW xh \in Threads, NEW oh \in Threads,
                 NEW i \in DOMAIN todo'[xh], NEW j \in DOMAIN todo'[oh],
                 Starts(todo'[xh][i], t), Starts(todo'[oh][j], t)
          PROVE  xh = oh /\ i = j
      <4>1. todo'[xh] = todo[xh] /\ todo'[oh] = todo[oh]
        BY <2>2, <3>1
      <4>2. QED
        BY <2>1, <3>1, <4>1 DEF ClaimedOnce
    <3>2. QED
      BY <3>1 DEF ClaimedOnce, Starts
  <2>5. RunOK(t)'
    BY <2>1 DEF RunOK
  <2>6. QED
    BY <2>3, <2>4, <2>5
<1>3. QED
  BY <1>2 DEF ClaimInv

LEMMA ClaimInvHolds == Spec => []ClaimInv
<1>1. Init => ClaimInv
  <2>1. SUFFICES ASSUME Init, NEW t \in Tasks
                 PROVE  ClaimsOK(t) /\ ClaimedOnce(t) /\ RunOK(t)
    BY DEF ClaimInv
  <2>2. \A th \in Threads : todo[th] = <<>>
    BY <2>1 DEF Init
  <2>3. \A th \in Threads : DOMAIN todo[th] = {}
    BY <2>2, NoCalls
  <2>4. Made(t) = {} /\ trun[t] = 0
    BY <2>1 DEF Init, Made
  <2>5. QED
    BY <2>3, <2>4 DEF ClaimsOK, ClaimedOnce, RunOK
<1>2. MissionInv /\ EventInv /\ ClaimInv /\ [Next]_vars => ClaimInv'
  <2>1. SUFFICES ASSUME MissionInv, EventInv, ClaimInv, [Next]_vars
                 PROVE  ClaimInv'
    OBVIOUS
  <2>2. rstatus \in [Tasks \X Nums -> {"none", "queued", "running"} \cup TerminalStatuses]
    BY <2>1 DEF MissionInv, MissionTypeOK
  <2>3. CASE Requests
    <3>1. PICK th \in {Create, Cancel, Override}, calls \in Seq(CallSet) :
            /\ Spawn(th, calls) /\ Idle(th)
            /\ \A i \in DOMAIN calls :
                 calls[i].op \in {"add", "begin", "drain", "cancel", "override"}
      BY <2>1, <2>3, RequestsSpawn
    <3>2. UNCHANGED <<tstatus, trun, rstatus, twice>>
      BY <2>3 DEF Requests, CreateMission, RequestCancel, RequestOverride, taskVars, runVars, faultVars
    <3>3. \A t \in Tasks : Made(t)' = Made(t)
      BY <3>2, SameRuns
    <3>4. th \in Threads
      BY ThreadFacts
    <3>5. QED
      BY <2>1, <3>1, <3>2, <3>3, <3>4, SpawnClaims
  <2>4. ASSUME NEW t \in Tasks, NEW n \in Nums, RunGoesOn(t, n)
        PROVE  ClaimInv'
    <3>1. PICK th \in {Started(t, n), Ended(t, n), Again(t, n)}, calls \in Seq(CallSet) :
           EventSpawns(th, calls, t, n)
      BY <2>1, <2>4, RunSpawns DEF EventInv
    <3>2. UNCHANGED <<tstatus, trun, twice>>
      BY <2>4 DEF RunGoesOn, RunStarts, RunEnds, RunEndsAgain, taskVars, faultVars
    <3>3. \A u \in Tasks : Made(u)' = Made(u)
      <4>1. \/ rstatus' = rstatus
            \/ \E s \in {"running"} \cup TerminalStatuses :
                 rstatus[<<t, n>>] # "none" /\ s # "none" /\ rstatus' = [rstatus EXCEPT ![<<t, n>>] = s]
        BY <3>1 DEF EventSpawns, TerminalStatuses
      <4>2. QED
        BY <2>2, <4>1, SameRuns, LiveRunMade
    <3>4. th \in Threads
      BY ThreadFacts
    <3>5. QED
      BY <2>1, <3>1, <3>2, <3>3, <3>4, SpawnClaims DEF EventSpawns
  <2>5. CASE Restart
    <3>1. \A th \in Threads : todo'[th] = IF th = Startup THEN Do("orphans") ELSE <<>>
      BY <2>5 DEF Restart
    <3>2. DOMAIN Do("orphans") = {1} /\ Do("orphans")[1].op = "orphans"
      BY DoCall DEF Ops
    <3>3. \A th \in Threads : \A i \in DOMAIN todo'[th], t \in Tasks : ~Starts(todo'[th][i], t)
      BY <3>1, <3>2, NoCalls DEF Starts
    <3>4. UNCHANGED <<tstatus, trun, rstatus, twice>>
      BY <2>5 DEF Restart
    <3>5. \A t \in Tasks : Made(t)' = Made(t)
      BY <3>4, SameRuns
    <3>6. QED
      BY <2>1, <3>3, <3>4, <3>5 DEF ClaimInv, ClaimsOK, ClaimedOnce, RunOK, Starts
  <2>6. ASSUME NEW th \in Threads, Work(th)
        PROVE  ClaimInv'
    <3>1. twice \subseteq twice'
      BY <2>6, TwiceStays DEF Next
    <3>2. ASSUME NEW t \in Tasks \ twice'
          PROVE  ClaimsOK(t)' /\ ClaimedOnce(t)' /\ RunOK(t)'
      <4>1. ClaimsOK(t) /\ ClaimedOnce(t) /\ RunOK(t)
        BY <2>1, <3>1 DEF ClaimInv
      <4>2. QED
        BY <2>1, <2>6, <4>1, WorkClaims, WorkRuns
    <3>3. QED
      BY <3>2 DEF ClaimInv
  <2>7. CASE UNCHANGED vars
    BY <2>1, <2>7 DEF vars, taskVars, runVars, faultVars, ClaimInv, ClaimsOK, ClaimedOnce, ClaimOK,
       RunOK, Made, Starts
  <2>8. QED
    BY <2>1, <2>3, <2>4, <2>5, <2>6, <2>7 DEF Next
<1>3. QED
  BY <1>1, <1>2, EventInvHolds, PTL DEF Spec

(* Of all the threads that drain the mission at once one starts a task,    *)
(* and starts it once, unless the task was given back though it had a run  *)
(* or was being started: at any number of requests, overrides, restarts    *)
(* and failures of create_run.                                             *)
THEOREM EachTaskRunsOnce == Spec => []OneRunPerTask
<1>1. ClaimInv => OneRunPerTask
  BY DEF ClaimInv, RunOK, OneRunPerTask
<1>2. QED
  BY <1>1, ClaimInvHolds, PTL
-----------------------------------------------------------------------------
(* What a step leaves of what a task shows of its run.                     *)
FollowFrame(t) ==
  /\ trun'[t] = trun[t]
  /\ trun[t] # 0 /\ RunFinal(t, trun[t])' =>
       tstatus'[t] = tstatus[t] /\ rstatus'[<<t, trun[t]>>] = rstatus[<<t, trun[t]>>]
  /\ t \in stale => t \in stale'

(* Somebody is told that the run of the task ended.                        *)
Told(th, t) ==
  \E n \in Nums : /\ n = trun[t] /\ trun'[t] = n
                  /\ \/ NewCalls(th, OnTerminalEvent(t, n))
                     \/ NewCalls(th, OnTerminalEvent(t, n) \o Do("orphans"))

(* A step that ends the run of one task.                                   *)
LEMMA EndsOne ==
  ASSUME MissionInv, NEW u \in Tasks, NEW m \in Nums, NEW s,
         rstatus' = [rstatus EXCEPT ![<<u, m>>] = s], UNCHANGED <<tstatus, trun, stale>>,
         NEW t \in Tasks, t # u \/ m # trun[t]
  PROVE  FollowFrame(t)
<1>1. trun[t] # 0 => trun[t] \in Nums
  BY DEF MissionInv, MissionTypeOK, Nums
<1>2. trun[t] # 0 => rstatus'[<<t, trun[t]>>] = rstatus[<<t, trun[t]>>]
  BY <1>1 DEF MissionInv, MissionTypeOK
<1>3. QED
  BY <1>2 DEF FollowFrame

LEMMA WorkFollowFrame ==
  ASSUME MissionInv, EventInv, NEW th \in Threads, Work(th), NEW t \in Tasks
  PROVE  \/ FollowFrame(t)
         \/ LinkRun(th) /\ t = Head(todo[th]).task
         \/ ApplyStatus(th) /\ t = Head(todo[th]).task
         \/ CreateRunFails(th) /\ t \in stale'
         \/ (CancelRun(th) \/ FailOrphan(th)) /\ Told(th, t)
<1>1. /\ tstatus \in [Tasks -> {"absent"} \cup TaskStatuses]
      /\ trun \in [Tasks -> 0 .. MaxRuns]
      /\ rstatus \in [Tasks \X Nums -> {"none", "queued", "running"} \cup TerminalStatuses]
  BY DEF MissionInv, MissionTypeOK
<1>2. TaskOK(t) /\ (tstatus[t] = "pending" => trun[t] = 0)
  BY DEF EventInv, WaitsUnlinked, MissionInv
<1>3. ASSUME UNCHANGED <<trun, rstatus, stale>>, trun[t] # 0 => tstatus'[t] = tstatus[t]
      PROVE  FollowFrame(t)
  BY <1>3 DEF FollowFrame
<1>4. CASE AddTask(th)
  <2>1. trun[t] = 0
    BY <1>4, AddingIsFirst
  <2>2. QED
    BY <1>3, <1>4, <2>1 DEF AddTask, runVars, faultVars
<1>5. CASE Drain(th)
  <2>1. tstatus'[t] = tstatus[t] \/ tstatus[t] = "pending"
    BY <1>5 DEF Drain, Ready
  <2>2. QED
    BY <1>2, <1>3, <1>5, <2>1 DEF Drain, runVars, faultVars
<1>6. CASE CreateRun(th)
  <2>1. PICK u \in Tasks, n \in Nums :
          Made(u) = 1 .. (n - 1) /\ rstatus' = [rstatus EXCEPT ![<<u, n>>] = "queued"]
    BY <1>6, CreateRunCalls
  <2>2. t # u \/ n # trun[t]
    <3>1. n \notin Made(u)
      BY <2>1 DEF Nums
    <3>2. trun[t] # 0 => trun[t] \in Made(t)
      BY <1>2 DEF TaskOK
    <3>3. n # 0
      BY DEF Nums
    <3>4. QED
      BY <3>1, <3>2, <3>3
  <2>3. UNCHANGED <<tstatus, trun, stale>>
    BY <1>6 DEF CreateRun, taskVars, faultVars
  <2>4. QED
    BY <2>1, <2>2, <2>3, EndsOne
<1>7. CASE CreateRunFails(th)
  <2>1. UNCHANGED <<trun, rstatus>>
    BY <1>7 DEF CreateRunFails, runVars
  <2>2. CASE t = Head(todo[th]).task /\ trun[t] # 0
    BY <1>7, <2>2 DEF CreateRunFails
  <2>3. CASE t # Head(todo[th]).task \/ trun[t] = 0
    <3>1. trun[t] # 0 => tstatus'[t] = tstatus[t]
      BY <1>1, <1>7, <2>3 DEF CreateRunFails
    <3>2. t \in stale => t \in stale'
      BY <1>7 DEF CreateRunFails
    <3>3. QED
      BY <2>1, <3>1, <3>2 DEF FollowFrame
  <2>4. QED
    BY <2>2, <2>3
<1>8. CASE LinkRun(th)
  <2>1. PICK u \in Tasks, n \in Nums :
           /\ u = Head(todo[th]).task /\ n = Head(todo[th]).run /\ n \in Made(u)
           /\ trun' = [trun EXCEPT ![u] = n]
           /\ mapped' = [mapped EXCEPT ![u] = @ \cup {n}]
           /\ tstatus' = [tstatus EXCEPT ![u] =
                            IF RunFinal(u, n) THEN "running" ELSE rstatus[<<u, n>>]]
           /\ NewCalls(th, Sync(u, n))
    BY <1>8, LinkHead
  <2>2. rstatus' = rstatus /\ stale' = stale
    BY <1>8 DEF LinkRun, runVars, faultVars
  <2>3. QED
    BY <1>1, <1>8, <2>1, <2>2 DEF FollowFrame
<1>9. CASE ApplyStatus(th)
  <2>1. UNCHANGED <<trun, rstatus>>
    BY <1>9 DEF ApplyStatus, runVars
  <2>2. t # Head(todo[th]).task => tstatus'[t] = tstatus[t] /\ (t \in stale => t \in stale')
    BY <1>1, <1>9 DEF ApplyStatus
  <2>3. QED
    BY <1>9, <2>1, <2>2 DEF FollowFrame
<1>10. CASE BlockMission(th) \/ CancelMission(th) \/ UnblockTasks(th)
  <2>1. UNCHANGED <<trun, rstatus, stale>>
    BY <1>10 DEF BlockMission, CancelMission, UnblockTasks, runVars, faultVars
  <2>2. trun[t] # 0 => tstatus'[t] = tstatus[t]
    BY <1>10 DEF BlockMission, CancelMission, UnblockTasks
  <2>3. QED
    BY <1>3, <2>1, <2>2
<1>11. CASE FinishMission(th)
  <2>1. UNCHANGED <<trun, rstatus, stale>>
    BY <1>11 DEF FinishMission, runVars, faultVars
  <2>2. tstatus'[t] = tstatus[t] \/ tstatus[t] = "pending"
    BY <1>11 DEF FinishMission
  <2>3. QED
    BY <1>2, <1>3, <2>1, <2>2
<1>12. CASE CancelRun(th)
  <2>1. UNCHANGED <<tstatus, trun, stale>>
    BY <1>12 DEF CancelRun, taskVars, faultVars
  <2>2. \/ rstatus' = rstatus
        \/ \E u \in Tasks, n \in Nums :
             /\ n = trun[u] /\ rstatus[<<u, n>>] \in {"queued", "running"}
             /\ rstatus' = [rstatus EXCEPT ![<<u, n>>] = "cancelled"]
             /\ NewCalls(th, OnTerminalEvent(u, n))
    BY <1>12, CancelRunCalls
  <2>3. CASE rstatus' = rstatus
    BY <1>3, <2>1, <2>3
  <2>4. ASSUME NEW u \in Tasks, NEW n \in Nums, n = trun[u], NewCalls(th, OnTerminalEvent(u, n)),
               rstatus' = [rstatus EXCEPT ![<<u, n>>] = "cancelled"]
        PROVE  FollowFrame(t) \/ Told(th, t)
    <3>1. CASE t = u /\ n = trun[t]
      BY <2>1, <2>4, <3>1 DEF Told
    <3>2. CASE t # u \/ n # trun[t]
      BY <2>1, <2>4, <3>2, EndsOne
    <3>3. QED
      BY <3>1, <3>2
  <2>5. QED
    BY <1>12, <2>2, <2>3, <2>4
<1>13. CASE FailOrphan(th)
  <2>1. UNCHANGED <<tstatus, trun, stale>>
    BY <1>13 DEF FailOrphan, taskVars, faultVars
  <2>2. PICK u \in Tasks, n \in Nums :
          /\ rstatus' = [rstatus EXCEPT ![<<u, n>>] = "failed"]
          /\ NewCalls(th, OnTerminalEvent(u, n) \o Do("orphans"))
    BY <1>13, FailOrphanCalls
  <2>3. CASE t = u /\ n = trun[t]
    BY <1>13, <2>1, <2>2, <2>3 DEF Told
  <2>4. CASE t # u \/ n # trun[t]
    BY <2>1, <2>2, <2>4, EndsOne
  <2>5. QED
    BY <2>3, <2>4
<1>14. CASE ReconcileTask(th)
  <2>1. trun[t] # 0 => tstatus'[t] = tstatus[t]
    BY <1>1, <1>14 DEF ReconcileTask, Requeued
  <2>2. QED
    BY <1>3, <1>14, <2>1 DEF ReconcileTask, runVars
<1>15. CASE UNCHANGED <<tstatus, trun, rstatus, stale>>
  BY <1>3, <1>15
<1>16. QED
  BY <1>4, <1>5, <1>6, <1>7, <1>8, <1>9, <1>10, <1>11, <1>12, <1>13, <1>14, <1>15 DEF Work,
     BeginMission, StartTask, SyncTask, EvaluateGate, JudgeGate, CheckDone, EndMission,
     RecheckMission, ApproveGates, ResumeMission, OrphansFailed, Reconcile,
     taskVars, runVars, faultVars

(* Who sees to a task goes on to do so.                                    *)
LEMMA SyncGoesOn ==
  ASSUME MissionInv, NEW th \in Threads, SyncTask(th), NEW t \in Tasks,
         t = Head(todo[th]).task, Head(todo[th]).run = trun[t], trun[t] # 0,
         RunFinal(t, trun[t])
  PROVE  SeenTo(t)'
<1>1. PICK u \in Tasks, n \in Nums :
        /\ u = Head(todo[th]).task /\ n = Head(todo[th]).run
        /\ \/ /\ n \in mapped[u] => ~RunFinal(u, n)
              /\ NewCalls(th, <<>>)
           \/ \E s \in Statuses : /\ n \in mapped[u] /\ s = rstatus[<<u, n>>]
                                  /\ NewCalls(th, <<Call("apply", u, n, s)>>)
  BY SyncTaskCalls
<1>2. u = t /\ n = trun[t] /\ n \in mapped[t]
  BY <1>1 DEF MissionInv, TaskOK
<1>3. PICK s \in Statuses : s = rstatus[<<t, n>>] /\ NewCalls(th, <<Call("apply", t, n, s)>>)
  BY <1>1, <1>2
<1>4. PICK calls : /\ NewCalls(th, calls) /\ 1 \in DOMAIN calls /\ calls[1].op = "apply"
                   /\ calls[1].task = t /\ calls[1].run = n /\ calls[1].status = s
  BY <1>3 DEF Call
<1>5. 1 \in DOMAIN todo'[th] /\ todo'[th][1] = calls[1]
  BY <1>4, CallsCome
<1>6. trun' = trun /\ rstatus' = rstatus
  BY DEF SyncTask, taskVars, runVars
<1>7. QED
  BY <1>2, <1>3, <1>4, <1>5, <1>6 DEF SeenTo, SeesTo

LEMMA WorkFollows ==
  ASSUME MissionInv, EventInv, NEW th \in Threads, Work(th), NEW t \in Tasks, Follows(t)
  PROVE  Follows(t)'
<1>1. /\ 1 \in DOMAIN todo[th] /\ Head(todo[th]) = todo[th][1] /\ Upcoming(th) = todo[th][1].op
  BY NextCall
<1>2. ASSUME NEW calls, NewCalls(th, calls), 1 \in DOMAIN calls,
             calls[1].op = "sync", calls[1].task = t, calls[1].run = trun'[t]
      PROVE  SeenTo(t)'
  <2>1. 1 \in DOMAIN todo'[th] /\ todo'[th][1] = calls[1]
    BY <1>2, CallsCome
  <2>2. QED
    BY <1>2, <2>1 DEF SeenTo, SeesTo
<1>3. CASE LinkRun(th) /\ t = Head(todo[th]).task
  <2>1. PICK u \in Tasks, n \in Nums :
           /\ u = Head(todo[th]).task /\ n = Head(todo[th]).run /\ n \in Made(u)
           /\ trun' = [trun EXCEPT ![u] = n]
           /\ mapped' = [mapped EXCEPT ![u] = @ \cup {n}]
           /\ tstatus' = [tstatus EXCEPT ![u] =
                            IF RunFinal(u, n) THEN "running" ELSE rstatus[<<u, n>>]]
           /\ NewCalls(th, Sync(u, n))
    BY <1>3, LinkHead
  <2>2. /\ 1 \in DOMAIN Sync(u, n) /\ Sync(u, n)[1].op = "sync" /\ Sync(u, n)[1].task = t
        /\ Sync(u, n)[1].run = n
    BY <1>3, <2>1, SyncCall
  <2>3. trun'[t] = n
    BY <1>3, <2>1 DEF MissionInv, MissionTypeOK
  <2>4. PICK calls : calls = Sync(u, n)
    OBVIOUS
  <2>5. QED
    BY <1>2, <2>1, <2>2, <2>3, <2>4 DEF Follows
<1>4. CASE Told(th, t)
  <2>1. PICK n \in Nums :
          /\ n = trun[t] /\ trun'[t] = n
          /\ \/ NewCalls(th, OnTerminalEvent(t, n))
             \/ NewCalls(th, OnTerminalEvent(t, n) \o Do("orphans"))
    BY <1>4 DEF Told
  <2>2. PICK a \in Seq(CallSet) :
          /\ a = OnTerminalEvent(t, n) /\ 1 \in DOMAIN a
          /\ a[1].op = "sync" /\ a[1].task = t /\ a[1].run = n
    BY EventCalls, SyncCall
  <2>3. PICK b \in Seq(CallSet) : b = Do("orphans")
    BY DoCall DEF Ops
  <2>4. 1 \in DOMAIN (a \o b) /\ (a \o b)[1] = a[1]
    BY <2>2, <2>3
  <2>5. QED
    BY <1>2, <2>1, <2>2, <2>3, <2>4 DEF Follows
<1>5. CASE ApplyStatus(th) /\ t = Head(todo[th]).task
  <2>1. PICK n, s : n = Head(todo[th]).run /\ s = Head(todo[th]).status
    OBVIOUS
  <2>2. /\ trun' = trun /\ rstatus' = rstatus /\ tstatus'[t] = s
        /\ (n = trun[t] /\ s = rstatus[<<t, n>>]) \/ t \in stale'
    BY <1>5, <2>1 DEF ApplyStatus, runVars, MissionInv, MissionTypeOK
  <2>3. QED
    BY <2>2 DEF Follows
<1>6. CASE CreateRunFails(th) /\ t \in stale'
  BY <1>6 DEF Follows
<1>7. CASE FollowFrame(t) /\ ~(ApplyStatus(th) /\ t = Head(todo[th]).task)
  <2>1. SUFFICES ASSUME trun'[t] # 0, RunFinal(t, trun[t])', tstatus'[t] # rstatus'[<<t, trun'[t]>>],
                        t \notin stale'
                 PROVE  SeenTo(t)'
    BY <1>7 DEF Follows, FollowFrame, RunFinal
  <2>2. /\ trun[t] # 0 /\ trun'[t] = trun[t] /\ tstatus'[t] = tstatus[t]
        /\ rstatus'[<<t, trun[t]>>] = rstatus[<<t, trun[t]>>] /\ t \notin stale
    BY <1>7, <2>1 DEF FollowFrame
  <2>3. RunFinal(t, trun[t])
    BY <2>1, <2>2 DEF RunFinal
  <2>4. PICK oh \in Threads : \E i \in DOMAIN todo[oh] : SeesTo(todo[oh][i], t)
    BY <2>1, <2>2, <2>3 DEF Follows, SeenTo
  <2>5. PICK i \in DOMAIN todo[oh] : SeesTo(todo[oh][i], t)
    BY <2>4
  <2>6. CASE oh # th \/ i # 1
    <3>1. PICK calls : NewCalls(th, calls)
      BY WorkCalls
    <3>2. PICK j \in DOMAIN todo'[oh] : todo'[oh][j] = todo[oh][i]
      BY <2>6, <3>1, CallsStay
    <3>3. PICK c : c = todo[oh][i] /\ c = todo'[oh][j]
      BY <3>2
    <3>4. SeesTo(c, t)'
      BY <2>2, <2>5, <3>3 DEF SeesTo
    <3>5. QED
      BY <3>3, <3>4 DEF SeenTo, SeesTo
  <2>7. CASE oh = th /\ i = 1
    <3>1. Head(todo[th]).task = t /\ Head(todo[th]).run = trun[t] /\ Upcoming(th) \in {"sync", "apply"}
      BY <1>1, <2>5, <2>7 DEF SeesTo
    <3>2. SyncTask(th)
      BY <1>7, <3>1, WorkOps
    <3>3. QED
      BY <2>2, <2>3, <3>1, <3>2, SyncGoesOn
  <2>8. QED
    BY <2>6, <2>7
<1>8. QED
  BY <1>3, <1>4, <1>5, <1>6, <1>7, WorkFollowFrame

(* Requests and run events: what was to be done is still to be done.       *)
LEMMA SpawnFollows ==
  ASSUME MissionInv, NEW th \in Threads, Idle(th), NEW calls \in Seq(CallSet), Spawn(th, calls),
         NEW t \in Tasks, FollowFrame(t), Follows(t)
  PROVE  Follows(t)'
<1>1. SUFFICES ASSUME trun'[t] # 0, RunFinal(t, trun[t])', tstatus'[t] # rstatus'[<<t, trun'[t]>>],
                      t \notin stale'
               PROVE  SeenTo(t)'
  BY DEF Follows, FollowFrame, RunFinal
<1>2. /\ trun[t] # 0 /\ trun'[t] = trun[t] /\ tstatus'[t] = tstatus[t]
      /\ rstatus'[<<t, trun[t]>>] = rstatus[<<t, trun[t]>>] /\ t \notin stale
  BY <1>1 DEF FollowFrame
<1>3. RunFinal(t, trun[t])
  BY <1>1, <1>2 DEF RunFinal
<1>4. PICK oh \in Threads : \E i \in DOMAIN todo[oh] : SeesTo(todo[oh][i], t)
  BY <1>1, <1>2, <1>3 DEF Follows, SeenTo
<1>5. PICK i \in DOMAIN todo[oh] : SeesTo(todo[oh][i], t)
  BY <1>4
<1>6. oh # th /\ todo'[oh] = todo[oh]
  BY SpawnElements
<1>7. PICK c : c = todo[oh][i] /\ c = todo'[oh][i]
  BY <1>6
<1>8. SeesTo(c, t)'
  BY <1>2, <1>5, <1>7 DEF SeesTo
<1>9. QED
  BY <1>6, <1>7, <1>8 DEF SeenTo, SeesTo

LEMMA RunFollows ==
  ASSUME MissionInv, EventInv, NEW u \in Tasks, NEW m \in Nums, RunGoesOn(u, m),
         NEW t \in Tasks, Follows(t)
  PROVE  Follows(t)'
<1>1. PICK th \in {Started(u, m), Ended(u, m), Again(u, m)}, calls \in Seq(CallSet) :
           EventSpawns(th, calls, u, m)
  BY RunSpawns DEF EventInv
<1>2. th \in Threads
  BY ThreadFacts
<1>3. UNCHANGED <<tstatus, trun, stale>>
  BY DEF RunGoesOn, RunStarts, RunEnds, RunEndsAgain, taskVars, faultVars
<1>4. CASE t = u /\ m = trun[t]
  <2>1. todo'[th] = calls
    BY <1>1, <1>2, SpawnElements DEF EventSpawns
  <2>2. SeenTo(t)'
    BY <1>1, <1>2, <1>3, <1>4, <2>1 DEF EventSpawns, SeenTo, SeesTo
  <2>3. QED
    BY <2>2 DEF Follows
<1>5. CASE t # u \/ m # trun[t]
  <2>1. FollowFrame(t)
    <3>1. CASE rstatus' = rstatus
      BY <1>3, <3>1 DEF FollowFrame
    <3>2. CASE \E s : rstatus' = [rstatus EXCEPT ![<<u, m>>] = s]
      BY <1>3, <1>5, <3>2, EndsOne
    <3>3. QED
      BY <1>1, <3>1, <3>2 DEF EventSpawns
  <2>2. QED
    BY <1>1, <1>2, <2>1, SpawnFollows DEF EventSpawns
<1>6. QED
  BY <1>4, <1>5

LEMMA FollowInvHolds == Spec => []FollowInv
<1>1. Init => FollowInv
  BY DEF Init, FollowInv, Follows
<1>2. MissionInv /\ EventInv /\ FollowInv /\ [Next]_vars => FollowInv'
  <2>1. SUFFICES ASSUME MissionInv, EventInv, FollowInv, [Next]_vars, NEW t \in Tasks
                 PROVE  Follows(t)'
    BY DEF FollowInv
  <2>2. Follows(t)
    BY <2>1 DEF FollowInv
  <2>3. CASE Requests
    <3>1. PICK th \in {Create, Cancel, Override}, calls \in Seq(CallSet) :
            /\ Spawn(th, calls) /\ Idle(th)
            /\ \A i \in DOMAIN calls :
                 calls[i].op \in {"add", "begin", "drain", "cancel", "override"}
      BY <2>1, <2>3, RequestsSpawn
    <3>2. UNCHANGED <<tstatus, trun, rstatus, stale>>
      BY <2>3 DEF Requests, CreateMission, RequestCancel, RequestOverride, taskVars, runVars, faultVars
    <3>3. FollowFrame(t) /\ th \in Threads
      BY <3>2, ThreadFacts DEF FollowFrame
    <3>4. QED
      BY <2>1, <2>2, <3>1, <3>3, SpawnFollows
  <2>4. ASSUME NEW u \in Tasks, NEW m \in Nums, RunGoesOn(u, m)
        PROVE  Follows(t)'
    BY <2>1, <2>2, <2>4, RunFollows
  <2>5. CASE Restart
    BY <2>5 DEF Restart, Follows, RunFinal
  <2>6. ASSUME NEW th \in Threads, Work(th)
        PROVE  Follows(t)'
    BY <2>1, <2>2, <2>6, WorkFollows
  <2>7. CASE UNCHANGED vars
    BY <2>2, <2>7 DEF vars, taskVars, runVars, faultVars, Follows, RunFinal, SeenTo, SeesTo
  <2>8. QED
    BY <2>1, <2>3, <2>4, <2>5, <2>6, <2>7 DEF Next
<1>3. QED
  BY <1>1, <1>2, EventInvHolds, PTL DEF Spec

(* Once every thread is through, a task shows how its run ended, unless a  *)
(* thread that had been overtaken wrote last or a stopped process did not  *)
(* come to write: whichever threads read and write the status between each *)
(* other's steps, and at any number of cancellations, overrides, restarts  *)
(* and failures of create_run.                                             *)
THEOREM TasksFollow == Spec => []TasksFollowRuns
<1>1. FollowInv => TasksFollowRuns
  <2>1. SUFFICES ASSUME FollowInv, Quiet, NEW t \in Tasks, trun[t] # 0, RunFinal(t, trun[t])
                 PROVE  tstatus[t] = rstatus[<<t, trun[t]>>] \/ t \in stale
    BY DEF TasksFollowRuns
  <2>2. \A th \in Threads : DOMAIN todo[th] = {}
    BY <2>1, NoCalls DEF Quiet, Idle
  <2>3. QED
    BY <2>1, <2>2 DEF FollowInv, Follows, SeenTo
<1>2. QED
  BY <1>1, FollowInvHolds, PTL
-----------------------------------------------------------------------------
(* The record of a gate that has a run comes from its own artifact; it is  *)
(* taken away by an approval, or when the gate is started again in vain.   *)
LEMMA NewRecords ==
  ASSUME MissionInv, NEW th \in Threads, Work(th), NEW t \in Tasks, trun[t] # 0,
         gate'[t] = "blocking"
  PROVE  gate[t] = "blocking" \/ (t \in Gated /\ verdict[t] = "blocking")
<1> USE DEF MissionInv, MissionTypeOK
<1>1. CASE CreateRunFails(th) \/ ApplyStatus(th)
  BY <1>1 DEF CreateRunFails, ApplyStatus
<1>2. CASE JudgeGate(th)
  <2>1. PICK u \in Gated : gate' = [gate EXCEPT ![u] = verdict[u]]
    BY <1>2, JudgeCalls
  <2>2. QED
    BY <2>1
<1>3. CASE BlockMission(th) \/ FinishMission(th) \/ CancelMission(th) \/ ApproveGates(th)
  BY <1>3 DEF BlockMission, FinishMission, CancelMission, ApproveGates
<1>4. CASE gate' = gate
  BY <1>4
<1>5. QED
  BY <1>1, <1>2, <1>3, <1>4 DEF Work, AddTask, BeginMission, Drain, StartTask, CreateRun, LinkRun,
     SyncTask, EvaluateGate, CheckDone, EndMission, CancelRun, RecheckMission, UnblockTasks,
     ResumeMission, FailOrphan, OrphansFailed, Reconcile, ReconcileTask, taskVars

LEMMA RecordStays ==
  ASSUME MissionInv, EventInv, ClaimInv, JudgesOK, NEW th \in Threads, Work(th), ~ApproveGates(th),
         NEW g \in Gated \ twice, trun[g] # 0, gate[g] = "blocking"
  PROVE  gate'[g] = "blocking" /\ trun'[g] # 0
<1> USE DEF MissionInv, MissionTypeOK
<1>1. g \in Tasks /\ tstatus[g] # "pending"
  BY MissionAssumption DEF EventInv, WaitsUnlinked
<1>2. /\ 1 \in DOMAIN todo[th] /\ Head(todo[th]) = todo[th][1] /\ Upcoming(th) = todo[th][1].op
  BY NextCall
<1>3. trun'[g] # 0
  <2>1. CASE LinkRun(th)
    <3>1. PICK u \in Tasks, n \in Nums : trun' = [trun EXCEPT ![u] = n]
      BY <2>1, LinkHead
    <3>2. n # 0
      BY DEF Nums
    <3>3. QED
      BY <1>1, <3>1, <3>2
  <2>2. CASE trun' = trun
    BY <2>2
  <2>3. QED
    BY <2>1, <2>2 DEF Work, AddTask, BeginMission, Drain, StartTask, CreateRun,
     CreateRunFails, SyncTask, ApplyStatus, EvaluateGate, JudgeGate, BlockMission,
     FinishMission, CheckDone, EndMission, CancelMission, CancelRun, RecheckMission, ApproveGates,
     UnblockTasks, ResumeMission, FailOrphan, OrphansFailed, Reconcile, ReconcileTask, taskVars
<1>4. CASE CreateRunFails(th)
  <2>1. Head(todo[th]).op = "create"
    BY <1>4, AtCall DEF CreateRunFails
  <2>2. ClaimsOK(g)
    BY <1>1 DEF ClaimInv
  <2>3. ~Starts(todo[th][1], g)
    BY <1>2, <2>2 DEF ClaimsOK, ClaimOK
  <2>4. Head(todo[th]).task # g
    BY <1>2, <2>1, <2>3 DEF Starts
  <2>5. QED
    BY <1>1, <1>3, <1>4, <2>4 DEF CreateRunFails
<1>5. CASE ApplyStatus(th)
  BY <1>1, <1>3, <1>5 DEF ApplyStatus
<1>6. CASE JudgeGate(th)
  <2>1. PICK t \in Gated : t = Head(todo[th]).task /\ gate' = [gate EXCEPT ![t] = verdict[t]]
    BY <1>6, JudgeCalls
  <2>2. JudgeOK(todo[th][1]) /\ todo[th][1].op = "judge"
    BY <1>2, <1>6 DEF JudgesOK, JudgeGate, At
  <2>3. t = g => verdict[t] = "blocking"
    BY <1>2, <2>1, <2>2 DEF JudgeOK
  <2>4. QED
    BY <1>1, <1>3, <2>1, <2>3
<1>7. CASE BlockMission(th) \/ FinishMission(th) \/ CancelMission(th)
  BY <1>1, <1>3, <1>7 DEF BlockMission, FinishMission, CancelMission
<1>8. CASE gate' = gate
  BY <1>3, <1>8
<1>9. QED
  BY <1>4, <1>5, <1>6, <1>7, <1>8 DEF Work, AddTask, BeginMission, Drain, StartTask, CreateRun,
     LinkRun, SyncTask, EvaluateGate, CheckDone, EndMission, CancelRun, RecheckMission,
     UnblockTasks, ResumeMission, FailOrphan, OrphansFailed, Reconcile, ReconcileTask, taskVars

LEMMA WorkJudges ==
  ASSUME MissionInv, JudgesOK, NEW th \in Threads, Work(th)
  PROVE  JudgesOK'
<1>1. verdict' = verdict
  BY WorkHistory
<1>2. PICK calls :
        /\ NewCalls(th, calls)
        /\ \A k \in DOMAIN calls : calls[k].op = "judge" => gate'[calls[k].task] # "blocking"
  <2>1. CASE EvaluateGate(th)
    <3>1. gate' = gate
      BY <2>1 DEF EvaluateGate, taskVars
    <3>2. PICK t \in Tasks :
             /\ t = Head(todo[th]).task /\ trun[t] # 0
             /\ \/ t \in Gated /\ gate[t] = "none" /\ NewCalls(th, DoTask("judge", t))
                \/ t \in Gated /\ gate[t] = "blocking" /\ NewCalls(th, Do("block"))
                \/ NewCalls(th, Do("drain"))
      BY <2>1, EvaluateCalls
    <3>3. /\ DOMAIN DoTask("judge", t) = {1} /\ DoTask("judge", t)[1].task = t
          /\ DOMAIN Do("block") = {1} /\ Do("block")[1].op = "block"
          /\ DOMAIN Do("drain") = {1} /\ Do("drain")[1].op = "drain"
      BY DoCall, DoTaskCall DEF Ops
    <3>4. QED
      BY <3>1, <3>2, <3>3
  <2>2. CASE ~EvaluateGate(th)
    <3>1. PICK calls : NewKnown(th, calls)
      BY WorkKnown
    <3>2. NewCalls(th, calls) /\ \A k \in DOMAIN calls : calls[k].op # "judge"
      BY <2>2, <3>1 DEF NewKnown, PushedBy
    <3>3. QED
      BY <3>2
  <2>3. QED
    BY <2>1, <2>2
<1>3. ASSUME NEW oh \in Threads, NEW i \in DOMAIN todo'[oh]
      PROVE  JudgeOK(todo[oh][i])'
  <2>1. CASE oh = th /\ i \in DOMAIN calls /\ todo'[oh][i] = calls[i]
    BY <1>2, <2>1 DEF JudgeOK
  <2>2. ASSUME NEW k \in DOMAIN todo[oh], todo'[oh][i] = todo[oh][k]
        PROVE  JudgeOK(todo[oh][i])'
    <3>1. PICK c \in CallSet : c = todo[oh][k] /\ CallOK(c) /\ JudgeOK(c)
      BY CallIsOK DEF JudgesOK
    <3>2. c.op = "judge" => c.task \in Tasks /\ trun[c.task] # 0
      BY <3>1, MissionAssumption DEF CallOK
    <3>3. c.op = "judge" /\ gate'[c.task] = "blocking" => verdict[c.task] = "blocking"
      BY <3>1, <3>2, NewRecords DEF JudgeOK
    <3>4. QED
      BY <1>1, <2>2, <3>1, <3>3 DEF JudgeOK
  <2>3. QED
    BY <1>2, <2>1, <2>2, NewElements
<1>4. QED
  BY <1>3 DEF JudgesOK, JudgeOK

(* Who is about to block the mission was so before, or has found a record. *)
LEMMA BlockingBefore ==
  ASSUME MissionInv, NEW th \in Threads, Work(th), Blocking'
  PROVE  Blocking \/ Blocker'
<1>1. /\ 1 \in DOMAIN todo[th] /\ Head(todo[th]) = todo[th][1] /\ Upcoming(th) = todo[th][1].op
  BY NextCall
<1>2. ASSUME NEW calls, NewCalls(th, calls), \A k \in DOMAIN calls : ~Blocks(calls[k])
      PROVE  Blocking
  <2>1. PICK oh \in Threads : \E i \in DOMAIN todo'[oh] : Blocks(todo'[oh][i])
    BY DEF Blocking, Blocks
  <2>2. PICK i \in DOMAIN todo'[oh] : Blocks(todo'[oh][i])
    BY <2>1
  <2>3. PICK k \in DOMAIN todo[oh] : todo'[oh][i] = todo[oh][k]
    BY <1>2, <2>2, NewElements
  <2>4. Blocks(todo[oh][k])
    BY <2>2, <2>3
  <2>5. QED
    BY <2>4 DEF Blocking
<1>3. CASE EvaluateGate(th)
  <2>1. gate' = gate /\ trun' = trun
    BY <1>3 DEF EvaluateGate, taskVars
  <2>2. PICK t \in Tasks :
           /\ t = Head(todo[th]).task /\ trun[t] # 0
           /\ \/ t \in Gated /\ gate[t] = "none" /\ NewCalls(th, DoTask("judge", t))
              \/ t \in Gated /\ gate[t] = "blocking" /\ NewCalls(th, Do("block"))
              \/ NewCalls(th, Do("drain"))
    BY <1>3, EvaluateCalls
  <2>3. /\ DOMAIN DoTask("judge", t) = {1} /\ DoTask("judge", t)[1].op = "judge"
        /\ DOMAIN Do("drain") = {1} /\ Do("drain")[1].op = "drain"
    BY DoCall, DoTaskCall DEF Ops
  <2>4. CASE t \in Gated /\ gate[t] = "blocking"
    BY <2>1, <2>2, <2>4 DEF Blocker
  <2>5. CASE NewCalls(th, DoTask("judge", t)) \/ NewCalls(th, Do("drain"))
    BY <1>2, <2>3, <2>5 DEF Blocks
  <2>6. QED
    BY <2>2, <2>4, <2>5
<1>4. CASE JudgeGate(th)
  <2>1. PICK t \in Gated :
           /\ t = Head(todo[th]).task /\ trun[t] # 0
           /\ gate' = [gate EXCEPT ![t] = verdict[t]] /\ judged' = judged \cup {t}
           /\ NewCalls(th, IF verdict[t] = "blocking" THEN Do("block") ELSE Do("drain"))
    BY <1>4, JudgeCalls
  <2>2. CASE verdict[t] = "blocking"
    <3>1. gate'[t] = "blocking" /\ trun' = trun
      BY <1>4, <2>1, <2>2, MissionAssumption DEF MissionInv, MissionTypeOK, JudgeGate
    <3>2. QED
      BY <2>1, <3>1 DEF Blocker
  <2>3. CASE verdict[t] # "blocking"
    <3>1. NewCalls(th, Do("drain")) /\ DOMAIN Do("drain") = {1} /\ Do("drain")[1].op = "drain"
      BY <2>1, <2>3, DoCall DEF Ops
    <3>2. QED
      BY <1>2, <3>1 DEF Blocks
  <2>4. QED
    BY <2>2, <2>3
<1>5. CASE BlockMission(th)
  BY <1>1, <1>5 DEF BlockMission, At, Blocking, Blocks
<1>6. CASE ~EvaluateGate(th) /\ ~JudgeGate(th) /\ ~BlockMission(th)
  <2>1. PICK calls : NewKnown(th, calls)
    BY WorkKnown
  <2>2. NewCalls(th, calls) /\ \A k \in DOMAIN calls : ~Blocks(calls[k])
    BY <1>6, <2>1 DEF NewKnown, PushedBy, Blocks
  <2>3. QED
    BY <1>2, <2>2
<1>7. QED
  BY <1>3, <1>4, <1>5, <1>6

LEMMA CrossedStays ==
  ASSUME Next, crossed
  PROVE  crossed'
<1>1. ASSUME NEW th \in Threads, Work(th)
      PROVE  crossed'
  <2>1. CASE BlockMission(th) \/ ApproveGates(th)
    BY <2>1 DEF BlockMission, ApproveGates
  <2>2. CASE crossed' = crossed
    BY <2>2
  <2>3. QED
    BY <1>1, <2>1, <2>2 DEF Work, AddTask, BeginMission, Drain, StartTask, CreateRun,
     CreateRunFails, LinkRun, SyncTask, ApplyStatus, EvaluateGate, JudgeGate,
     FinishMission, CheckDone, EndMission, CancelMission, CancelRun, RecheckMission,
     UnblockTasks, ResumeMission, FailOrphan, OrphansFailed, Reconcile, ReconcileTask, faultVars
<1>2. CASE Requests \/ Restart
  BY <1>2 DEF Requests, CreateMission, RequestCancel, RequestOverride, Restart, faultVars
<1>3. ASSUME NEW t \in Tasks, NEW n \in Nums, RunGoesOn(t, n)
      PROVE  crossed'
  BY <1>3 DEF RunGoesOn, RunStarts, RunEnds, RunEndsAgain, faultVars
<1>4. QED
  BY <1>1, <1>2, <1>3 DEF Next

LEMMA ExcusedStays ==
  ASSUME Next, Excused
  PROVE  Excused'
<1>1. twice \subseteq twice'
  BY TwiceStays
<1>2. QED
  BY <1>1, CrossedStays DEF Excused

(* How a mission comes to be blocked, or stays so.                         *)
LEMMA WorkMission ==
  ASSUME MissionInv, NEW th \in Threads, Work(th), mission' = "blocked"
  PROVE  \/ mission = "blocked" /\ ~ResumeMission(th)
         \/ EndMission(th) /\ Blocking
<1>1. /\ 1 \in DOMAIN todo[th] /\ Head(todo[th]) = todo[th][1] /\ Upcoming(th) = todo[th][1].op
  BY NextCall
<1>2. CASE EndMission(th)
  BY <1>1, <1>2 DEF EndMission, At, Blocking, Blocks
<1>3. CASE ResumeMission(th) \/ BeginMission(th)
  BY <1>3 DEF ResumeMission, Resumed, BeginMission
<1>4. CASE mission' = mission /\ ~ResumeMission(th)
  BY <1>4
<1>5. QED
  BY <1>2, <1>3, <1>4 DEF Work, AddTask, Drain, StartTask, CreateRun,
     CreateRunFails, LinkRun, SyncTask, ApplyStatus, EvaluateGate, JudgeGate, BlockMission,
     FinishMission, CheckDone, CancelMission, CancelRun, RecheckMission, ApproveGates,
     UnblockTasks, FailOrphan, OrphansFailed, Reconcile, ReconcileTask

(* An approval that is halfway stays so until the mission runs.            *)
LEMMA ApprovingStays ==
  ASSUME MissionInv, NEW th \in Threads, Work(th), ~ResumeMission(th), Approving
  PROVE  Approving'
<1>1. PICK calls : NewCalls(th, calls)
  BY WorkCalls
<1>2. Override \in Threads
  BY ThreadFacts
<1>3. CASE th # Override
  <2>1. todo'[Override] = todo[Override]
    BY <1>1, <1>2, <1>3, NewLength
  <2>2. QED
    BY <2>1 DEF Approving, Upcoming
<1>4. CASE th = Override
  <2>1. UnblockTasks(th)
    BY <1>4, WorkOps DEF Approving
  <2>2. NewCalls(th, Do("resume"))
    BY <2>1, OverrideCalls
  <2>3. PICK c \in Seq(CallSet) : c = Do("resume") /\ DOMAIN c = {1} /\ c[1].op = "resume"
    BY DoCall DEF Ops
  <2>4. 1 \in DOMAIN todo'[th] /\ todo'[th][1] = c[1]
    BY <2>2, <2>3, CallsCome
  <2>5. todo'[th] # <<>> /\ Head(todo'[th]) = todo'[th][1]
    BY <2>4, NoCalls
  <2>6. QED
    BY <1>4, <2>3, <2>4, <2>5 DEF Approving, Upcoming
<1>5. QED
  BY <1>3, <1>4

(* What an approval takes away it is about to make good.                   *)
LEMMA ApprovalCrosses ==
  ASSUME MissionInv, NEW th \in Threads, ApproveGates(th)
  PROVE  /\ Blocking => crossed'
         /\ Blocker => Approving'
<1>1. th = Override /\ todo[th] # <<>>
  BY OverrideCalls, AtCall DEF ApproveGates, MissionInv
<1>2. ASSUME Blocker
      PROVE  Approving'
  <2>1. \E t \in Tasks : gate[t] = "blocking"
    BY <1>2, MissionAssumption DEF Blocker
  <2>2. Then(th, Do("unblock"))
    BY <2>1 DEF ApproveGates
  <2>3. PICK c \in Seq(CallSet) : c = Do("unblock") /\ DOMAIN c = {1} /\ c[1].op = "unblock"
    BY DoCall DEF Ops
  <2>4. 1 \in DOMAIN todo'[th] /\ todo'[th][1] = c[1]
    <3>1. th \in Threads /\ todo \in [Threads -> Seq(CallSet)]
      BY DEF MissionInv, MissionTypeOK, CallSet
    <3>2. \A k \in DOMAIN c : k \in DOMAIN todo'[th] /\ todo'[th][k] = c[k]
      BY <1>1, <2>2, <2>3, <3>1, ThenElements
    <3>3. QED
      BY <2>3, <3>2
  <2>5. todo'[th] # <<>> /\ Head(todo'[th]) = todo'[th][1]
    BY <2>4, NoCalls
  <2>6. QED
    BY <1>1, <2>3, <2>4, <2>5 DEF Approving, Upcoming
<1>3. QED
  BY <1>2 DEF ApproveGates

LEMMA WorkBlocks ==
  ASSUME MissionInv, EventInv, ClaimInv, BlockInv, NEW th \in Threads, Work(th)
  PROVE  BlockInv'
<1>1. JudgesOK'
  BY WorkJudges DEF BlockInv
<1>2. Excused => Excused'
  BY ExcusedStays DEF Next
<1>3. ASSUME Blocker, ~ApproveGates(th)
      PROVE  Blocker' \/ Excused'
  <2>1. PICK g \in Gated : gate[g] = "blocking" /\ trun[g] # 0
    BY <1>3 DEF Blocker
  <2>2. CASE g \in twice
    BY <1>2, <2>2 DEF Excused
  <2>3. CASE g \notin twice
    BY <1>3, <2>1, <2>3, RecordStays DEF Blocker, BlockInv
  <2>4. QED
    BY <2>2, <2>3
<1>4. ASSUME Blocking
      PROVE  Blocker' \/ Excused'
  <2>1. Blocker \/ Excused
    BY <1>4 DEF BlockInv
  <2>2. CASE ApproveGates(th)
    BY <1>4, <2>2, ApprovalCrosses DEF Excused
  <2>3. CASE ~ApproveGates(th)
    BY <1>2, <1>3, <2>1, <2>3
  <2>4. QED
    BY <2>2, <2>3
<1>5. Blocking' => Blocker' \/ Excused'
  BY <1>4, BlockingBefore
<1>6. ASSUME mission = "blocked", ~ResumeMission(th)
      PROVE  Blocker' \/ Excused' \/ Approving'
  <2>1. Blocker \/ Excused \/ Approving
    BY <1>6 DEF BlockInv
  <2>2. CASE Approving
    BY <1>6, <2>2, ApprovingStays
  <2>3. CASE Blocker
    BY <1>3, <2>3, ApprovalCrosses
  <2>4. QED
    BY <1>2, <2>1, <2>2, <2>3
<1>7. mission' = "blocked" => Blocker' \/ Excused' \/ Approving'
  BY <1>4, <1>6, WorkMission
<1>8. QED
  BY <1>1, <1>5, <1>7 DEF BlockInv

LEMMA SpawnBlocks ==
  ASSUME MissionInv, BlockInv, NEW th \in Threads, Idle(th), NEW calls \in Seq(CallSet),
         Spawn(th, calls), \A i \in DOMAIN calls : calls[i].op \notin {"judge", "block", "end"},
         UNCHANGED <<gate, trun, verdict, twice, crossed>>, mission' \in {mission, "created"}
  PROVE  BlockInv'
<1>1. /\ todo'[th] = calls /\ \A oh \in Threads \ {th} : todo'[oh] = todo[oh]
  BY SpawnElements
<1>2. Blocker' <=> Blocker
  BY DEF Blocker
<1>3. Excused' <=> Excused
  BY DEF Excused
<1>4. ASSUME NEW oh \in Threads, NEW i \in DOMAIN todo'[oh],
             todo'[oh][i].op \in {"judge", "block", "end"}
      PROVE  todo'[oh] = todo[oh]
  BY <1>1, <1>4
<1>5. JudgesOK'
  <2>1. ASSUME NEW oh \in Threads, NEW i \in DOMAIN todo'[oh], todo'[oh][i].op = "judge"
        PROVE  JudgeOK(todo[oh][i])'
    <3>1. todo'[oh] = todo[oh] /\ JudgeOK(todo[oh][i])
      BY <1>4, <2>1 DEF BlockInv, JudgesOK
    <3>2. QED
      BY <3>1 DEF JudgeOK
  <2>2. QED
    BY <2>1 DEF JudgesOK, JudgeOK
<1>6. Blocking' => Blocking
  BY <1>4 DEF Blocking, Blocks
<1>7. Approving => Approving'
  <2>1. Override \in Threads
    BY ThreadFacts
  <2>2. Approving => todo[Override] # <<>>
    BY DEF Approving, Upcoming
  <2>3. Approving => todo'[Override] = todo[Override]
    BY <1>1, <2>1, <2>2 DEF Idle
  <2>4. QED
    BY <2>3 DEF Approving, Upcoming
<1>8. QED
  BY <1>2, <1>3, <1>5, <1>6, <1>7 DEF BlockInv

LEMMA BlockInvHolds == Spec => []BlockInv
<1>1. Init => BlockInv
  <2>1. SUFFICES ASSUME Init PROVE BlockInv
    OBVIOUS
  <2>2. \A th \in Threads : DOMAIN todo[th] = {}
    BY <2>1, NoCalls DEF Init
  <2>3. mission # "blocked" /\ JudgesOK /\ ~Blocking
    BY <2>1, <2>2 DEF Init, JudgesOK, Blocking
  <2>4. QED
    BY <2>3 DEF BlockInv
<1>2. MissionInv /\ EventInv /\ ClaimInv /\ BlockInv /\ [Next]_vars => BlockInv'
  <2>1. SUFFICES ASSUME MissionInv, EventInv, ClaimInv, BlockInv, [Next]_vars
                 PROVE  BlockInv'
    OBVIOUS
  <2>2. CASE Requests
    <3>1. PICK th \in {Create, Cancel, Override}, calls \in Seq(CallSet) :
            /\ Spawn(th, calls) /\ Idle(th)
            /\ \A i \in DOMAIN calls :
                 calls[i].op \in {"add", "begin", "drain", "cancel", "override"}
      BY <2>1, <2>2, RequestsSpawn
    <3>2. UNCHANGED <<gate, trun, verdict, twice, crossed>> /\ mission' \in {mission, "created"}
      BY <2>2 DEF Requests, CreateMission, RequestCancel, RequestOverride, taskVars, faultVars
    <3>3. th \in Threads
      BY ThreadFacts
    <3>4. QED
      BY <2>1, <3>1, <3>2, <3>3, SpawnBlocks
  <2>3. ASSUME NEW t \in Tasks, NEW n \in Nums, RunGoesOn(t, n)
        PROVE  BlockInv'
    <3>1. PICK th \in {Started(t, n), Ended(t, n), Again(t, n)}, calls \in Seq(CallSet) :
           EventSpawns(th, calls, t, n)
      BY <2>1, <2>3, RunSpawns DEF EventInv
    <3>2. UNCHANGED <<gate, trun, verdict, twice, crossed, mission>>
      BY <2>3 DEF RunGoesOn, RunStarts, RunEnds, RunEndsAgain, taskVars, faultVars
    <3>3. th \in Threads
      BY ThreadFacts
    <3>4. QED
      BY <2>1, <3>1, <3>2, <3>3, SpawnBlocks DEF EventSpawns
  <2>4. CASE Restart
    <3>1. \A th \in Threads : todo'[th] = IF th = Startup THEN Do("orphans") ELSE <<>>
      BY <2>4 DEF Restart
    <3>2. DOMAIN Do("orphans") = {1} /\ Do("orphans")[1].op = "orphans"
      BY DoCall DEF Ops
    <3>3. \A th \in Threads : \A i \in DOMAIN todo'[th] : todo'[th][i].op = "orphans"
      BY <3>1, <3>2, NoCalls
    <3>4. JudgesOK' /\ ~Blocking'
      BY <3>3 DEF JudgesOK, JudgeOK, Blocking, Blocks
    <3>5. UNCHANGED <<gate, trun, mission, twice>> /\ crossed' = (crossed \/ Approving)
      BY <2>4 DEF Restart
    <3>6. QED
      BY <2>1, <3>4, <3>5 DEF BlockInv, Blocker, Excused
  <2>5. ASSUME NEW th \in Threads, Work(th)
        PROVE  BlockInv'
    BY <2>1, <2>5, WorkBlocks
  <2>6. CASE UNCHANGED vars
    <3>1. UNCHANGED <<mission, gate, trun, verdict, todo, twice, crossed>>
      BY <2>6 DEF vars, taskVars, faultVars
    <3>2. QED
      BY <2>1, <3>1 DEF BlockInv, JudgesOK, JudgeOK, Blocking, Blocks, Blocker, Excused, Approving,
         Upcoming
  <2>7. QED
    BY <2>1, <2>2, <2>3, <2>4, <2>5, <2>6 DEF Next
<1>3. QED
  BY <1>1, <1>2, EventInvHolds, ClaimInvHolds, PTL DEF Spec

(* A blocked mission has a record that an approval can take, unless an     *)
(* approval and a block cut across each other, or a gate was started twice *)
(* and create_run failed: with any number of gates beside each other, and  *)
(* at any number of cancellations, overrides and restarts.                 *)
THEOREM BlockedHasRecord == Spec => []BlockedCanBeApproved
<1>1. BlockInv => BlockedCanBeApproved
  <2>1. SUFFICES ASSUME BlockInv, Quiet, mission = "blocked"
                 PROVE  (\E t \in Tasks : gate[t] = "blocking") \/ Excused
    BY DEF BlockedCanBeApproved, Excused
  <2>2. ~Approving
    BY <2>1, ThreadFacts DEF Approving, Upcoming, Quiet, Idle
  <2>3. QED
    BY <2>1, <2>2, MissionAssumption DEF BlockInv, Blocker
<1>2. QED
  BY <1>1, BlockInvHolds, PTL
=============================================================================
