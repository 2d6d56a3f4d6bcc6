--------------------------- MODULE SchedulingProofs ---------------------------
(***************************************************************************)
(* What the scheduler and its callers achieve together, between sections:  *)
(* drains are honoured, the capacity of the control plane is respected, no *)
(* run is forgotten, and none is executed twice at a time.  Each needs     *)
(* more of the threads than that they call the sections of the store       *)
(* properly.                                                               *)
(***************************************************************************)
EXTENDS RunSchedulerProofs, FiniteSetTheorems

(* Only the two claims raise the number of attempts, so a step that leaves *)
(* it alone gives nobody a job.                                            *)
LEMMA OnlyClaimsCount ==
  ASSUME Next, attempts' # attempts
  PROVE  (\E d \in Drainers : DrainTake(d)) \/ (\E c \in Claimers : ClaimTake(c))
<1>1. CASE ClientStep
  BY <1>1 DEF ClientStep, CreateRun, StoreCreateRun, EnqueueRun, StoreEnqueueRun,
     AnnounceQueued, RejectInput, CancelCheck, CancelJob, CancelQueuedJob, CancelDequeued, CancelHeld,
     CancelRequest, CancelAdapter, AppendEvent, queueVars
<1>2. CASE DrainStep
  BY <1>2 DEF DrainStep, HeartbeatTick, DrainEnter, DrainCheck, HeartbeatAndRecover,
     RecoverLeases, queueVars
<1>3. CASE AttemptStep
  BY <1>3 DEF AttemptStep, LocalBegin, LocalStart, LocalPrompt, LocalFinish, TurnEnd,
     TimerFire, TimerCancel, RemoteStart, RemotePrompt, RemoteFinish, RemoteStop,
     RemoteCancel, RemoteFail, RemotePost, PostTimeout, AppendPosted, AppendEvent, queueVars
<1>4. CASE ClaimStep
  BY <1>4 DEF ClaimStep, ClaimRequest, ClaimCheck, ClaimRead, ClaimRespond, HeartbeatAndRecover,
     RecoverLeases, HeartbeatWorker, queueVars
<1>5. CASE OperatorStep
  BY <1>5 DEF OperatorStep, DrainWorker, ResumeWorker, RetryWorkerRuns, RequeueRunningJobs,
     queueVars
<1>6. CASE FaultStep
  <2>1. CASE Restart
    <3>1. ASSUME NEW fs, NEW js, NEW ls, StopAndStart(fs, js, ls)
          PROVE  UNCHANGED attempts
      BY <3>1 DEF StopAndStart, FailOrphansAndRecover
    <3>2. QED
      BY <2>1, <3>1 DEF Restart, StopBetween, StopInAppend
  <2>2. CASE ~Restart
    BY <1>6, <2>2 DEF FaultStep, LeaseExpires, DaemonCrash, DaemonStart, queueVars
  <2>3. QED
    BY <2>1, <2>2
<1>7. CASE \E w \in Remote : RemoteHeartbeat(w)
  BY <1>7 DEF RemoteHeartbeat, HeartbeatAndRecover, RecoverLeases
<1>8. QED
  BY <1>1, <1>2, <1>3, <1>4, <1>5, <1>6, <1>7 DEF Next
-----------------------------------------------------------------------------
(* The record of a worker whose desired_state is to drain says so, except  *)
(* for a control plane's own record between startup, which resets it, and  *)
(* the heartbeat with which every drain of the queue begins; and what an   *)
(* operator asked is in the record until it is overwritten or pruned.      *)
DrainKnown ==
  \A w \in Workers :
    /\ desired[w] = "draining" =>
         \/ wstatus[w] = "draining"
         \/ w \in Locals /\ (w # self \/ \A d \in Drainers : drainer[d] = "idle")
    /\ told[w] = "draining" => desired[w] # "unset"

(* A heartbeat applies desired_state, and only the control plane's own can *)
(* be what a drain was waiting for.                                        *)
LEMMA BeatsKeepDrains ==
  ASSUME IInv, DrainKnown, NEW v \in Workers \cup {NoWorker},
         wstatus' = [wstatus EXCEPT ![v] = BeatStatus(v)],
         UNCHANGED <<desired, told, self>>, UNCHANGED drainer \/ v = self
  PROVE  DrainKnown'
  BY DEF DrainKnown, BeatStatus, IInv, ThreadInv, WorkerTypeOK

(* Only startup resets the status of a worker told to drain, and no drain  *)
(* of the queue goes on across it.                                         *)
LEMMA DrainKnownStep ==
  ASSUME IInv, DrainKnown, [Next]_vars
  PROVE  DrainKnown'
<1> USE DEF IInv, ThreadInv
<1>1. CASE UNCHANGED <<wstatus, desired, told, self, drainer>>
  BY <1>1 DEF DrainKnown
<1>2. CASE ClientStep
  <2>1. UNCHANGED <<wstatus, desired, told, self, drainer>>
    BY <1>2 DEF ClientStep, CreateRun, EnqueueRun, AnnounceQueued, RejectInput, CancelCheck, CancelJob,
       CancelDequeued, CancelHeld, CancelRequest, CancelAdapter, workerVars, drainVars,
       faultVars
  <2>2. QED
    BY <1>1, <2>1
<1>3. CASE AttemptStep
  <2>1. UNCHANGED <<wstatus, desired, told, self, drainer>>
    BY <1>3 DEF AttemptStep, LocalBegin, LocalStart, LocalPrompt, LocalFinish, TurnEnd,
       TimerFire, TimerCancel, RemoteStart, RemotePrompt, RemoteFinish, RemoteStop,
       RemoteCancel, RemoteFail, RemotePost, PostTimeout, AppendPosted, workerVars,
       drainVars, faultVars
  <2>2. QED
    BY <1>1, <2>1
<1>4. CASE HeartbeatTick \/ \E d \in Drainers : DrainEnter(d)
  <2>1. self \in Workers
    BY SchedulerAssumption DEF SchedulerTypeOK
  <2>2. QED
    BY <1>4, <2>1, BeatsKeepDrains
    DEF HeartbeatTick, DrainEnter, HeartbeatAndRecover, drainVars, faultVars
<1>5. ASSUME NEW d \in Drainers, DrainCheck(d) \/ DrainTake(d)
      PROVE  DrainKnown'
  <2>1. /\ UNCHANGED <<wstatus, desired, told, self>>
        /\ \A b \in Drainers : drainer[b] = "idle" => drainer'[b] = "idle"
    BY <1>5 DEF DrainCheck, DrainTake, DrainLeave, SchedulerTypeOK, workerVars, faultVars
  <2>2. QED
    BY <2>1 DEF DrainKnown
<1>6. CASE ClaimStep
  <2>1. ASSUME NEW c \in Claimers, NEW w \in Remote, ClaimRequest(c, w)
        PROVE  DrainKnown'
    BY <2>1, BeatsKeepDrains
    DEF ClaimRequest, HeartbeatAndRecover, Remote, drainVars, faultVars
  <2>2. ASSUME NEW c \in Claimers, ClaimCheck(c) \/ ClaimTake(c) \/ ClaimRead(c)
        PROVE  DrainKnown'
    BY <1>1, <2>2 DEF ClaimCheck, ClaimTake, ClaimRead, workerVars, drainVars, faultVars
  <2>3. ASSUME NEW c \in Claimers, ClaimRespond(c)
        PROVE  DrainKnown'
    <3>1. claim[c].seen \in {"unset", "active", "draining"}
      BY DEF SchedulerTypeOK, ClaimStates
    <3>2. QED
      BY <2>3, <3>1
      DEF ClaimRespond, HeartbeatWorker, MetadataMerged, DrainKnown, WorkerTypeOK,
          drainVars, faultVars
  <2>4. QED
    BY <1>6, <2>1, <2>2, <2>3 DEF ClaimStep
<1>7. CASE OperatorStep
  BY <1>7 DEF OperatorStep, DrainWorker, ResumeWorker, RetryWorkerRuns, SetWorkerState,
     DrainKnown, WorkerTypeOK, workerVars, drainVars, faultVars
<1>8. CASE Restart
  <2>0. PICK fs \in Firsts, js \in JobSets, ls \in Leases : StopAndStart(fs, js, ls)
    BY <1>8, StopLeaves
  <2>1. PICK w \in Locals, stale \in SUBSET Workers :
          self' = w /\ RegisterAndPrune(w, stale)
    BY <2>0 DEF StopAndStart
  <2>2. \A d \in Drainers : drainer'[d] = "idle"
    BY <2>0 DEF StopAndStart
  <2>3. QED
    BY <2>1, <2>2 DEF RegisterAndPrune, DrainKnown
<1>9. CASE FaultStep /\ ~Restart
  <2>1. UNCHANGED <<wstatus, desired, told, self, drainer>>
    BY <1>9 DEF FaultStep, LeaseExpires, DaemonCrash, DaemonStart, workerVars, drainVars,
       faultVars
  <2>2. QED
    BY <1>1, <2>1
<1>10. CASE \E w \in Remote : RemoteHeartbeat(w)
  BY <1>10, BeatsKeepDrains
  DEF RemoteHeartbeat, HeartbeatAndRecover, Remote, drainVars, faultVars
<1>11. CASE UNCHANGED vars
  BY <1>1, <1>11 DEF vars, workerVars, drainVars, faultVars
<1>12. QED
  BY <1>2, <1>3, <1>4, <1>5, <1>6, <1>7, <1>8, <1>9, <1>10, <1>11 DEF Next, DrainStep

(* Whoever gets a job claimed it, in _drain_queue or for a daemon, and the *)
(* record it was looked up in was up to date.                              *)
LEMMA DrainStepIsHonoured ==
  ASSUME IInv, DrainKnown, [Next]_vars, NEW w \in Workers, NEW r \in Runs,
         HoldsJob(w, r)', ~HoldsJob(w, r)
  PROVE  desired[w] # "draining"
<1> USE DEF IInv, ThreadInv
<1>1. ClaimNextJob(w, r)
  BY InvStep, GainedByClaim
<1>2. wstatus[w] # "draining" /\ attempts' # attempts /\ owner'[r] = w /\ owner[r] # w
  BY <1>1, StoreAssumption DEF ClaimNextJob, Claimable, QueueInv, QueueTypeOK, LeaseCustody
<1>3. (\E d \in Drainers : DrainTake(d)) \/ (\E c \in Claimers : ClaimTake(c))
  BY <1>2, OnlyClaimsCount DEF vars, queueVars
<1>4. CASE \E d \in Drainers : DrainTake(d)
  <2>1. PICK d \in Drainers : DrainTake(d)
    BY <1>4
  <2>2. PICK q \in Runs : ClaimNextJob(self, q)
    BY <1>2, <2>1 DEF DrainTake, queueVars
  <2>3. w = self
    BY <1>2, <2>2 DEF ClaimNextJob, QueueInv, QueueTypeOK
  <2>4. drainer[d] # "idle"
    BY <2>1 DEF DrainTake
  <2>5. QED
    BY <1>2, <2>3, <2>4 DEF DrainKnown
<1>5. CASE \E c \in Claimers : ClaimTake(c)
  <2>1. PICK c \in Claimers : ClaimTake(c)
    BY <1>5
  <2>2. PICK q \in Runs : ClaimNextJob(claim[c].worker, q)
    BY <1>2, <2>1 DEF ClaimTake, queueVars
  <2>3. w = claim[c].worker
    BY <1>2, <2>2 DEF ClaimNextJob, QueueInv, QueueTypeOK
  <2>4. w \in Remote
    BY <2>1, <2>3 DEF ClaimTake, ClaimsKnow
  <2>5. QED
    BY <1>2, <2>4 DEF DrainKnown, Remote
<1>6. QED
  BY <1>3, <1>4, <1>5

(* What an operator asked of a worker and what its record says change      *)
(* together, except in the answer to a claim.                              *)
LEMMA OnlyAnswersUndo ==
  ASSUME IInv, DrainKnown, [Next]_vars, NEW w \in Workers, Undone(w)', ~Undone(w)
  PROVE  \E c \in Claimers : claim[c].worker = w /\ claim[c].seen = "active"
<1> USE DEF IInv, ThreadInv, Undone
<1>1. ~UNCHANGED <<desired, told>>
  OBVIOUS
<1>2. CASE ClientStep
  BY <1>1, <1>2 DEF ClientStep, CreateRun, EnqueueRun, AnnounceQueued, RejectInput, CancelCheck,
     CancelJob, CancelDequeued, CancelHeld, CancelRequest, CancelAdapter, workerVars
<1>3. CASE AttemptStep
  BY <1>1, <1>3 DEF AttemptStep, LocalBegin, LocalStart, LocalPrompt, LocalFinish, TurnEnd,
     TimerFire, TimerCancel, RemoteStart, RemotePrompt, RemoteFinish, RemoteStop,
     RemoteCancel, RemoteFail, RemotePost, PostTimeout, AppendPosted, workerVars
<1>4. CASE DrainStep
  BY <1>1, <1>4 DEF DrainStep, HeartbeatTick, DrainEnter, DrainCheck, DrainTake,
     HeartbeatAndRecover, workerVars
<1>5. CASE ClaimStep
  <2>1. PICK c \in Claimers : ClaimRespond(c)
    BY <1>1, <1>5 DEF ClaimStep, ClaimRequest, ClaimCheck, ClaimTake, ClaimRead,
       HeartbeatAndRecover, workerVars
  <2>2. told' = told /\ desired' = MetadataMerged(claim[c].worker, claim[c].seen)
    BY <2>1 DEF ClaimRespond, HeartbeatWorker
  <2>3. claim[c].worker = w /\ claim[c].seen = "active"
    BY <2>2 DEF MetadataMerged, WorkerTypeOK
  <2>4. QED
    BY <2>3
<1>6. CASE OperatorStep
  BY <1>1, <1>6 DEF OperatorStep, DrainWorker, ResumeWorker, RetryWorkerRuns, SetWorkerState,
     WorkerTypeOK, workerVars
<1>7. CASE Restart
  <2>1. PICK fs \in Firsts, js \in JobSets, ls \in Leases : StopAndStart(fs, js, ls)
    BY <1>7, StopLeaves
  <2>2. PICK v \in Locals, stale \in SUBSET Workers : RegisterAndPrune(v, stale)
    BY <2>1 DEF StopAndStart
  <2>3. QED
    BY <2>2 DEF RegisterAndPrune
<1>8. CASE FaultStep /\ ~Restart
  BY <1>1, <1>8 DEF FaultStep, LeaseExpires, DaemonCrash, DaemonStart, workerVars
<1>9. CASE \E v \in Remote : RemoteHeartbeat(v)
  BY <1>1, <1>9 DEF RemoteHeartbeat, HeartbeatAndRecover
<1>10. CASE UNCHANGED vars
  BY <1>1, <1>10 DEF vars, workerVars
<1>11. QED
  BY <1>2, <1>3, <1>4, <1>5, <1>6, <1>7, <1>8, <1>9, <1>10 DEF Next

(* A worker told to drain is given no job until it is resumed, or its      *)
(* record is pruned, or the answer to a claim has put back what it read    *)
(* before: claim_next_job looks at the record under the lock, and every    *)
(* claim comes after a heartbeat that applied desired_state.               *)
THEOREM DrainsAreHonoured == Spec => DrainIsHonoured
<1>1. Init => DrainKnown
  BY DEF Init, DrainKnown
<1>2. IInv /\ DrainKnown /\ [Next]_vars => DrainKnown'
  BY DrainKnownStep
<1>3. ASSUME IInv, DrainKnown, [Next]_vars
      PROVE  [\A w \in Workers :
                /\ told[w] = "draining" /\ ~Undone(w) =>
                     \A r \in Runs : HoldsJob(w, r)' => HoldsJob(w, r)
                /\ Undone(w)' =>
                     \/ Undone(w)
                     \/ \E c \in Claimers : claim[c].worker = w /\ claim[c].seen = "active"]_vars
  <2>1. ASSUME NEW w \in Workers, told[w] = "draining", ~Undone(w), NEW r \in Runs,
               HoldsJob(w, r)', ~HoldsJob(w, r)
        PROVE  FALSE
    <3>1. desired[w] = "draining"
      BY <1>3, <2>1 DEF Undone, DrainKnown, IInv, ThreadInv, WorkerTypeOK
    <3>2. QED
      BY <1>3, <2>1, <3>1, DrainStepIsHonoured
  <2>2. QED
    BY <1>3, <2>1, OnlyAnswersUndo
<1>4. QED
  BY <1>1, <1>2, <1>3, Invariance, PTL DEF Spec, DrainIsHonoured
-----------------------------------------------------------------------------
(* The thread inside _drain_queue is alone with the lock, and between its  *)
(* count and its claim the count does not grow.                            *)
Held(w) == {r \in Runs : HoldsJob(w, r)}

DrainerKnows ==
  \A d \in Drainers :
    /\ drainer[d] # "idle" => schedulerLock = d
    /\ drainer[d] = "take" => ActiveJobCount(self) < Capacity[self]

CapacityInv == LocalCapacity /\ DrainerKnows

(* The jobs of a worker can be counted.                                    *)
LEMMA CountIsNat == ASSUME NEW w PROVE ActiveJobCount(w) \in Nat /\ IsFiniteSet(Held(w))
  BY StoreAssumption, FS_Subset, FS_CardinalityType DEF ActiveJobCount, Held

(* A worker that is given no job has no more of them than before.          *)
LEMMA NoClaimNoGrowth ==
  ASSUME IInv, [Next]_vars, NEW w \in Workers, self' = w,
         \A r \in Runs : HoldsJob(w, r)' => HoldsJob(w, r)
  PROVE  ActiveJobCount(self)' <= ActiveJobCount(w)
<1>1. Held(w)' \subseteq Held(w)
  BY DEF Held
<1>2. Cardinality(Held(w)') <= Cardinality(Held(w))
  BY <1>1, CountIsNat, FS_Subset
<1>3. Cardinality(Held(w)) = ActiveJobCount(w)
  BY DEF Held, ActiveJobCount
<1>4. Cardinality(Held(w)') = ActiveJobCount(self)'
  BY DEF Held, ActiveJobCount
<1>5. QED
  BY <1>2, <1>3, <1>4

(* The process changes only in a restart, and only a restart or a thread   *)
(* in _drain_queue touches the lock and the program counters there.        *)
LEMMA OthersLeaveDrainers ==
  ASSUME [Next]_vars, ~Restart, ~\E d \in Drainers : DrainTake(d)
  PROVE  /\ UNCHANGED self
         /\ UNCHANGED drainVars \/ \E d \in Drainers : DrainEnter(d) \/ DrainCheck(d)
<1> USE DEF faultVars
<1>1. CASE ClientStep
  BY <1>1 DEF ClientStep, CreateRun, EnqueueRun, AnnounceQueued, RejectInput, CancelCheck, CancelJob,
     CancelDequeued, CancelHeld, CancelRequest, CancelAdapter
<1>2. CASE DrainStep
  BY <1>2 DEF DrainStep, HeartbeatTick, DrainEnter, DrainCheck
<1>3. CASE AttemptStep
  BY <1>3 DEF AttemptStep, LocalBegin, LocalStart, LocalPrompt, LocalFinish, TurnEnd,
     TimerFire, TimerCancel, RemoteStart, RemotePrompt, RemoteFinish, RemoteStop,
     RemoteCancel, RemoteFail, RemotePost, PostTimeout, AppendPosted
<1>4. CASE ClaimStep
  BY <1>4 DEF ClaimStep, ClaimRequest, ClaimCheck, ClaimTake, ClaimRead, ClaimRespond
<1>5. CASE OperatorStep
  BY <1>5 DEF OperatorStep, DrainWorker, ResumeWorker, RetryWorkerRuns
<1>6. CASE FaultStep
  BY <1>6 DEF FaultStep, LeaseExpires, DaemonCrash, DaemonStart
<1>7. CASE \E w \in Remote : RemoteHeartbeat(w)
  BY <1>7 DEF RemoteHeartbeat
<1>8. CASE UNCHANGED vars
  BY <1>8 DEF vars
<1>9. QED
  BY <1>1, <1>2, <1>3, <1>4, <1>5, <1>6, <1>7, <1>8 DEF Next

(* The lock is held across count and claim, a restart leaves the process   *)
(* without jobs, and nothing else gives the process a job.                 *)
LEMMA CapacityStep ==
  ASSUME IInv, CapacityInv, [Next]_vars
  PROVE  CapacityInv'
<1> USE DEF IInv, ThreadInv
<1>1. self \in Workers /\ self \notin Remote /\ Capacity[self] \in Nat
  BY SchedulerAssumption DEF SchedulerTypeOK, Remote
<1>2. ActiveJobCount(self) \in Nat /\ ActiveJobCount(self)' \in Nat
  <2>1. IsFiniteSet(Held(self)')
    BY StoreAssumption, FS_Subset DEF Held
  <2>2. ActiveJobCount(self)' = Cardinality(Held(self)')
    BY DEF Held, ActiveJobCount
  <2>3. QED
    BY <1>1, <2>1, <2>2, CountIsNat, FS_CardinalityType
<1>3. CASE Restart
  <2>0. PICK fs \in Firsts, js \in JobSets, ls \in Leases :
          StopAndStart(fs, js, ls) /\ Left(fs, js, ls)
    BY <1>3, StopLeaves
  <2>1. PICK w \in Locals,
             late \in SUBSET {r \in Runs : lease[r] = "live" /\ attempts[r] < MaxAttempts} :
          self' = w /\ FailOrphansAndRecover(w, late, fs, js, ls)
    BY <2>0 DEF StopAndStart
  <2>2. \A r \in Runs : ~HoldsJob(w, r)'
    BY <2>0, <2>1, SchedulerAssumption, StoreAssumption
    DEF Left, FailOrphansAndRecover, HoldsJob, OrphanFate, Taken, OwnersWithout, QueueInv,
        QueueTypeOK, Final, FinalStatuses
  <2>3. ActiveJobCount(self)' = 0
    BY <2>1, <2>2, FS_EmptySet DEF ActiveJobCount
  <2>4. Capacity[self'] \in Nat
    BY <2>1, SchedulerAssumption
  <2>5. DrainerKnows'
    BY <2>0 DEF StopAndStart, DrainerKnows
  <2>6. QED
    BY <2>3, <2>4, <2>5 DEF CapacityInv, LocalCapacity
<1>4. ASSUME NEW d \in Drainers, DrainTake(d)
      PROVE  CapacityInv'
  <2> drainer[d] = "take" /\ UNCHANGED self
    BY <1>4 DEF DrainTake, faultVars
  <2> schedulerLock = d /\ ActiveJobCount(self) < Capacity[self]
    BY DEF CapacityInv, DrainerKnows
  <2>1. \A b \in Drainers \ {d} : drainer[b] = "idle" /\ drainer'[b] = "idle"
    <3>1. \A b \in Drainers \ {d} : drainer[b] = "idle"
      BY DEF CapacityInv, DrainerKnows
    <3>2. drainer' = [drainer EXCEPT ![d] = "idle"] \/ drainer' = [drainer EXCEPT ![d] = "check"]
      BY <1>4 DEF DrainTake, DrainLeave
    <3>3. QED
      BY <3>1, <3>2 DEF SchedulerTypeOK
  <2>2. CASE DrainLeave(d) /\ UNCHANGED <<queueVars, by, pc>>
    <3>1. ActiveJobCount(self)' = ActiveJobCount(self)
      BY <2>1, <2>2 DEF ActiveJobCount, HoldsJob, queueVars
    <3>2. \A b \in Drainers : drainer'[b] = "idle"
      BY <2>1, <2>2 DEF DrainLeave, SchedulerTypeOK
    <3>3. QED
      BY <1>2, <2>1, <3>1, <3>2 DEF CapacityInv, LocalCapacity, DrainerKnows
  <2>3. ASSUME NEW q \in Runs, ClaimNextJob(self, q), UNCHANGED schedulerLock,
               drainer' = [drainer EXCEPT ![d] = "check"]
        PROVE  CapacityInv'
    <3>1. Held(self)' \subseteq Held(self) \cup {q}
      BY <2>1, <2>3 DEF Held, HoldsJob, ClaimNextJob, QueueInv, QueueTypeOK
    <3>2. /\ IsFiniteSet(Held(self) \cup {q})
          /\ Cardinality(Held(self) \cup {q}) <= ActiveJobCount(self) + 1
      BY <1>2, CountIsNat, FS_AddElement DEF Held, ActiveJobCount
    <3>3. Cardinality(Held(self)') <= Cardinality(Held(self) \cup {q})
      BY <3>1, <3>2, FS_Subset
    <3>4. Cardinality(Held(self)') = ActiveJobCount(self)'
      BY DEF Held, ActiveJobCount
    <3>5. Cardinality(Held(self) \cup {q}) \in Nat
      BY <3>2, FS_CardinalityType
    <3>6. ActiveJobCount(self)' <= Capacity[self]
      BY <1>1, <1>2, <2>1, <3>2, <3>3, <3>4, <3>5
    <3>7. DrainerKnows'
      BY <2>1, <2>3 DEF DrainerKnows, SchedulerTypeOK
    <3>8. QED
      BY <2>1, <3>6, <3>7 DEF CapacityInv, LocalCapacity
  <2>4. QED
    BY <1>4, <2>2, <2>3 DEF DrainTake
<1>5. CASE ~Restart /\ ~\E d \in Drainers : DrainTake(d)
  <2> PICK w \in Workers : w = self
    BY <1>1
  <2>1. UNCHANGED self
    BY <1>5, OthersLeaveDrainers
  <2>2. ASSUME NEW r \in Runs, HoldsJob(w, r)', ~HoldsJob(w, r)
        PROVE  FALSE
    <3>1. ClaimNextJob(w, r)
      BY <2>2, InvStep, GainedByClaim
    <3>2. attempts' # attempts /\ owner'[r] = w
      BY <3>1 DEF ClaimNextJob, Claimable, QueueInv, QueueTypeOK
    <3>3. PICK c \in Claimers : ClaimTake(c)
      BY <1>5, <3>2, OnlyClaimsCount DEF vars, queueVars
    <3>4. PICK q \in Runs : ClaimNextJob(claim[c].worker, q)
      BY <3>2, <3>3 DEF ClaimTake, queueVars
    <3>5. w = claim[c].worker
      BY <2>2, <3>2, <3>4 DEF ClaimNextJob, QueueInv, QueueTypeOK, HoldsJob
    <3>6. QED
      BY <1>1, <3>3, <3>5 DEF ClaimTake, ClaimsKnow
  <2>3. ActiveJobCount(self)' <= ActiveJobCount(w)
    BY <1>1, <2>1, <2>2, NoClaimNoGrowth
  <2>4. DrainerKnows'
    <3> USE DEF CapacityInv, DrainerKnows, SchedulerTypeOK
    <3>1. CASE UNCHANGED drainVars
      BY <1>1, <1>2, <2>1, <2>3, <3>1 DEF drainVars
    <3>2. ASSUME NEW d \in Drainers, DrainEnter(d)
          PROVE  DrainerKnows'
      <4>1. \A b \in Drainers : drainer[b] = "idle"
        BY <3>2, SchedulerAssumption DEF DrainEnter, SchedulerFree
      <4>2. QED
        BY <3>2, <4>1 DEF DrainEnter
    <3>3. ASSUME NEW d \in Drainers, DrainCheck(d)
          PROVE  DrainerKnows'
      <4>1. schedulerLock = d /\ \A b \in Drainers \ {d} : drainer[b] = "idle"
        BY <3>3 DEF DrainCheck
      <4>2. ActiveJobCount(self)' = ActiveJobCount(self)
        BY <2>1, <3>3 DEF DrainCheck, ActiveJobCount, HoldsJob, queueVars
      <4>3. QED
        BY <2>1, <3>3, <4>1, <4>2 DEF DrainCheck, DrainLeave
    <3>4. QED
      BY <1>5, <3>1, <3>2, <3>3, OthersLeaveDrainers
  <2>5. QED
    BY <1>1, <1>2, <2>1, <2>3, <2>4 DEF CapacityInv, LocalCapacity
<1>6. QED
  BY <1>3, <1>4, <1>5

(* The control plane never holds more jobs than its capacity: the count    *)
(* and the claim of _drain_queue are two sections under _scheduler_lock,   *)
(* and a restart fails what the process before it had running.             *)
THEOREM CapacityIsKept == Spec => []LocalCapacity
<1>1. ASSUME Init PROVE CapacityInv
  <2>1. ActiveJobCount(self) = 0
    BY <1>1, FS_EmptySet DEF Init, StoreInit, ActiveJobCount, HoldsJob
  <2>2. Capacity[self] \in Nat
    BY <1>1, SchedulerAssumption DEF Init
  <2>3. QED
    BY <1>1, <2>1, <2>2 DEF Init, CapacityInv, LocalCapacity, DrainerKnows
<1>2. IInv /\ CapacityInv /\ [Next]_vars => CapacityInv'
  BY CapacityStep
<1>3. CapacityInv => LocalCapacity
  BY DEF CapacityInv
<1>4. QED
  BY <1>1, <1>2, <1>3, Invariance, PTL DEF Spec
-----------------------------------------------------------------------------
(* A section that neither makes a run or its job nor cancels a job leaves  *)
(* an undecided run the work it had, or its job the way it was, unless it  *)
(* is torn by the end of the process.                                      *)
LEMMA QuietKeepsWork ==
  ASSUME QueueInv, QuietStep, NEW r \in Runs, ~Final(r)'
  PROVE  /\ ~Final(r)
         /\ Unfinished(r) => Unfinished(r)' \/ (job'[r] \in FinalStatuses /\ r \in torn')
         /\ ~Unfinished(r) => job'[r] = job[r]
         /\ r \in torn => r \in torn'
<1> DEFINE Kept == /\ ~Final(r)
                   /\ Unfinished(r) => Unfinished(r)' \/ (job'[r] \in FinalStatuses /\ r \in torn')
                   /\ ~Unfinished(r) => job'[r] = job[r]
                   /\ r \in torn => r \in torn'
<1> USE DEF QueueInv, QueueTypeOK, Final, FinalStatuses, HoldsJob, Unfinished
<1>1. CASE UNCHANGED queueVars
  BY <1>1 DEF queueVars
<1>2. ASSUME NEW q \in Runs, NEW e \in StatusEvents \cup InputEvents, AppendStep(q, e)
      PROVE  Kept
  BY <1>2, StatusAfterType DEF AppendStep, AppendEvent
<1>3. ASSUME NEW w \in Workers, RecoverLeases(BeatLease(w))
      PROVE  Kept
  BY <1>3 DEF RecoverLeases, Taken
<1>4. ASSUME NEW w, BeatStep(w)
      PROVE  Kept
  BY <1>4 DEF BeatStep
<1>5. ASSUME NEW w \in Workers, NEW q \in Runs, ClaimNextJob(w, q)
      PROVE  Kept
  BY <1>5 DEF ClaimNextJob, Claimable
<1>6. ASSUME NEW w \in Workers, RequeueStep(w)
      PROVE  Kept
  BY <1>6 DEF RequeueStep, RequeueRunningJobs, Taken
<1>7. ASSUME NEW w \in Workers, NEW late \in SUBSET Runs, NEW fs \in Firsts,
             NEW js \in JobSets, NEW ls \in Leases, OrphanStep(w, late, fs, js, ls)
      PROVE  Kept
  BY <1>7 DEF OrphanStep, Left, FailOrphansAndRecover, Taken, OrphanFate
<1>8. ASSUME NEW q \in Runs, ExpireStep(q)
      PROVE  Kept
  BY <1>8 DEF ExpireStep
<1>9. QED
  BY <1>1, <1>2, <1>3, <1>4, <1>5, <1>6, <1>7, <1>8 DEF QuietStep

(* A request that was cut off, or is between two sections, stays where it  *)
(* is or goes on: cancel's next section decides the run.                   *)
RequestsKept ==
  \A r \in Runs :
    /\ creating[r] \in {"created", "abandoned"} => creating'[r] \in {"created", "abandoned"}
    /\ cancelling[r] \in {"dequeued", "lost"} =>
         cancelling'[r] \in {"dequeued", "lost"} \/ Final(r)'

(* Only three sections make a run or a job, or cancel one.                 *)
LEMMA RequestsStay ==
  ASSUME IInv, Next
  PROVE  \/ \E r \in Runs : CreateRun(r) \/ EnqueueRun(r) \/ CancelJob(r)
         \/ QuietStep /\ RequestsKept
<1> DEFINE Goal == \/ \E r \in Runs : CreateRun(r) \/ EnqueueRun(r) \/ CancelJob(r)
                   \/ QuietStep /\ RequestsKept
<1> USE DEF RequestsKept, clientVars
<1>1. ASSUME NEW r \in Runs, AnnounceQueued(r)
      PROVE  Goal
  <2>1. QuietStep
    BY <1>1, AnnounceKeeps
  <2>2. RequestsKept
    BY <1>1 DEF AnnounceQueued, IInv, ThreadInv, SchedulerTypeOK
  <2>3. QED
    BY <2>1, <2>2
<1>2. ASSUME NEW r \in Runs,
             \/ CancelCheck(r) \/ CancelDequeued(r) \/ CancelHeld(r)
             \/ CancelRequest(r) \/ CancelAdapter(r)
      PROVE  Goal
  <2>1. QuietStep \/ CancelJob(r)
    BY <1>2, CancelKeeps
  <2>2. RequestsKept
    <3> USE DEF IInv, ThreadInv, SchedulerTypeOK
    <3>1. CASE CancelDequeued(r)
      <4>1. AppendEvent(r, "run.cancelled") /\ status \in [Runs -> Statuses]
        BY <3>1 DEF CancelDequeued, QueueInv, QueueTypeOK
      <4>2. StatusAfter(r, "run.cancelled") \in FinalStatuses
        BY EventStatusValue DEF StatusAfter, Final, FinalStatuses, InputEvents
      <4>3. Final(r)'
        BY <4>1, <4>2 DEF AppendEvent, Final
      <4>4. QED
        BY <3>1, <4>3 DEF CancelDequeued
    <3>2. CASE CancelCheck(r)
      BY <3>2 DEF CancelCheck
    <3>3. CASE CancelHeld(r)
      BY <3>3 DEF CancelHeld
    <3>4. CASE CancelRequest(r)
      BY <3>4 DEF CancelRequest
    <3>5. CASE CancelAdapter(r)
      BY <3>5 DEF CancelAdapter
    <3>6. QED
      BY <1>2, <3>1, <3>2, <3>3, <3>4, <3>5
  <2>3. QED
    BY <2>1, <2>2
<1>10. ASSUME NEW r \in Runs, RejectInput(r)
       PROVE  Goal
  BY <1>10, RejectKeeps DEF RejectInput
<1>3. CASE ClientStep
  BY <1>1, <1>2, <1>3, <1>10 DEF ClientStep
<1>4. CASE DrainStep
  <2>1. CASE HeartbeatTick
    BY <2>1, TickKeeps DEF HeartbeatTick
  <2>2. ASSUME NEW d \in Drainers, DrainEnter(d) \/ DrainCheck(d)
        PROVE  Goal
    BY <2>2, DrainKeeps DEF DrainEnter, DrainCheck
  <2>3. ASSUME NEW d \in Drainers, DrainTake(d)
        PROVE  Goal
    BY <2>3, DrainTakeKeeps DEF DrainTake
  <2>4. QED
    BY <1>4, <2>1, <2>2, <2>3 DEF DrainStep
<1>5. CASE AttemptStep
  <2>1. QuietStep
    BY <1>5, LocalKeeps, RemotePostKeeps, RemoteKeeps DEF AttemptStep
  <2>2. UNCHANGED <<creating, cancelling>>
    BY <1>5 DEF AttemptStep, LocalBegin, LocalStart, LocalPrompt, LocalFinish, TurnEnd,
       TimerFire, TimerCancel, RemoteStart, RemotePrompt, RemoteFinish, RemoteStop,
       RemoteCancel, RemoteFail, RemotePost, PostTimeout, AppendPosted
  <2>3. QED
    BY <2>1, <2>2
<1>6. CASE ClaimStep
  <2>1. QuietStep
    BY <1>6, ClaimKeeps, ClaimTakeKeeps DEF ClaimStep
  <2>2. UNCHANGED <<creating, cancelling>>
    BY <1>6 DEF ClaimStep, ClaimRequest, ClaimCheck, ClaimTake, ClaimRead, ClaimRespond
  <2>3. QED
    BY <2>1, <2>2
<1>7. CASE OperatorStep \/ \E w \in Remote : RemoteHeartbeat(w)
  <2>1. QuietStep
    BY <1>7, OperatorKeeps DEF OperatorStep, Remote
  <2>2. UNCHANGED <<creating, cancelling>>
    BY <1>7 DEF OperatorStep, DrainWorker, ResumeWorker, RetryWorkerRuns, RemoteHeartbeat
  <2>3. QED
    BY <2>1, <2>2
<1>8. CASE FaultStep
  <2>1. QuietStep
    BY <1>8, ExpireKeeps, DaemonCrashKeeps, DaemonStartKeeps, RestartKeeps DEF FaultStep
  <2>2. CASE Restart
    <3>1. PICK fs \in Firsts, js \in JobSets, ls \in Leases : StopAndStart(fs, js, ls)
      BY <2>2, StopLeaves
    <3>2. RequestsKept
      BY <3>1 DEF StopAndStart, IInv, ThreadInv, SchedulerTypeOK
    <3>3. QED
      BY <2>1, <3>2
  <2>3. CASE ~Restart
    <3>1. UNCHANGED <<creating, cancelling>>
      BY <1>8, <2>3 DEF FaultStep, LeaseExpires, DaemonCrash, DaemonStart
    <3>2. QED
      BY <2>1, <3>1
  <2>4. QED
    BY <2>2, <2>3
<1>9. QED
  BY <1>3, <1>4, <1>5, <1>6, <1>7, <1>8 DEF Next

(* A run keeps its job, or the request that owes it one.                   *)
LEMMA ForgottenStep ==
  ASSUME IInv, NoRunForgotten, [Next]_vars
  PROVE  NoRunForgotten'
<1> USE DEF IInv, ThreadInv
<1>1. CASE UNCHANGED vars
  BY <1>1 DEF vars, queueVars, clientVars, NoRunForgotten, Final, Unfinished
<1>2. ASSUME NEW q \in Runs, CreateRun(q)
      PROVE  NoRunForgotten'
  BY <1>2 DEF NoRunForgotten, Final, Unfinished, CreateRun, StoreCreateRun, QueueInv,
     QueueTypeOK, Beginnings, SchedulerTypeOK
<1>3. ASSUME NEW q \in Runs, EnqueueRun(q)
      PROVE  NoRunForgotten'
  BY <1>3 DEF NoRunForgotten, Final, Unfinished, EnqueueRun, StoreEnqueueRun, QueueInv,
     QueueTypeOK, SchedulerTypeOK
<1>4. ASSUME NEW q \in Runs, CancelJob(q)
      PROVE  NoRunForgotten'
  BY <1>4 DEF NoRunForgotten, Final, Unfinished, CancelJob, CancelQueuedJob, queueVars,
     QueueInv, QueueTypeOK, SchedulerTypeOK
<1>5. CASE QuietStep /\ RequestsKept
  <2> SUFFICES ASSUME NEW r \in Runs, status'[r] # "absent", ~Final(r)'
               PROVE  \/ Unfinished(r)'
                      \/ job'[r] = "none" /\ creating'[r] \in {"created", "abandoned"}
                      \/ job'[r] = "cancelled" /\ cancelling'[r] \in {"dequeued", "lost"}
                      \/ job'[r] \in FinalStatuses /\ r \in torn'
    BY DEF NoRunForgotten
  <2>1. /\ status[r] # "absent" /\ ~Final(r)
        /\ Unfinished(r) => Unfinished(r)' \/ (job'[r] \in FinalStatuses /\ r \in torn')
        /\ ~Unfinished(r) => job'[r] = job[r]
        /\ r \in torn => r \in torn'
    BY <1>5, QuietKeepsWork, QuietKeepsPresence
  <2>2. \/ Unfinished(r)
        \/ job[r] = "none" /\ creating[r] \in {"created", "abandoned"}
        \/ job[r] = "cancelled" /\ cancelling[r] \in {"dequeued", "lost"}
        \/ job[r] \in FinalStatuses /\ r \in torn
    BY <2>1 DEF NoRunForgotten
  <2>3. QED
    BY <1>5, <2>1, <2>2 DEF RequestsKept, Unfinished
<1>6. QED
  BY <1>1, <1>2, <1>3, <1>4, <1>5, RequestsStay

(* A run that is not over is queued or held by a worker, unless the        *)
(* process stopped inside the request that creates it, inside the one that *)
(* cancels it, or inside the append that ends it, after it had committed   *)
(* the job and before it committed the run.                                *)
THEOREM NoRunIsForgotten == Spec => []NoRunForgotten
<1>1. Init => NoRunForgotten
  BY DEF Init, StoreInit, NoRunForgotten
<1>2. IInv /\ NoRunForgotten /\ [Next]_vars => NoRunForgotten'
  BY ForgottenStep
<1>3. QED
  BY <1>1, <1>2, Invariance, PTL DEF Spec
-----------------------------------------------------------------------------
(* An attempt is in hand while it is executed, or while the answer that    *)
(* hands it to a daemon is on its way.                                     *)
Answering(x) == \E c \in Claimers : claim[c].attempt = x /\ claim[c].fresh

InHand(x) == Executing(x) \/ Answering(x)

(* Whoever has an attempt in hand is alive, the attempt is the last one,   *)
(* and its job can only be taken away once the run is over: the lease of a *)
(* run that is not over is not let expire by a worker that is alive.       *)
Current(x) ==
  /\ x[2] = attempts[RunOf(x)]
  /\ job[RunOf(x)] \in {"running"} \cup FinalStatuses
  /\ job[RunOf(x)] = "running" => owner[RunOf(x)] = by[x]
  /\ Final(RunOf(x)) \/ lease[RunOf(x)] # "expired"
  /\ Alive(by[x])

AnswerOK(c) ==
  claim[c].fresh =>
    /\ claim[c].worker \in Remote /\ up[claim[c].worker]
    /\ claim[c].attempt # NoAttempt =>
         claim[c].attempt \in Attempts /\ by[claim[c].attempt] = claim[c].worker

Steady ==
  /\ \A x \in Attempts : InHand(x) => Current(x)
  /\ \A c \in Claimers : AnswerOK(c)

(* As long as heartbeats arrive in time, no operator takes a running job   *)
(* from its worker, and the control plane is there to take the heartbeats. *)
ExecutionInv == Punctual /\ Operated = {} /\ restarts = 0 => Steady

(* What a section of the store leaves of a run that some thread has in     *)
(* hand, and what a step leaves of the thread.                             *)
Kept(r) ==
  /\ attempts'[r] = attempts[r] /\ owner'[r] = owner[r]
  /\ job'[r] \in {job[r]} \cup FinalStatuses
  /\ Final(r) => status'[r] \in FinalStatuses
  /\ lease'[r] \in {lease[r], "live", "none"}

Carried(x) ==
  InHand(x)' =>
    /\ InHand(x) /\ by'[x] = by[x] /\ self' = self
    /\ by[x] \in Remote /\ up[by[x]] => up'[by[x]]

(* What is still in hand after a step is as current as before.             *)
LEMMA CarriedOn ==
  ASSUME NEW x \in Attempts, InHand(x) => Current(x), InHand(x) => Kept(RunOf(x)), Carried(x)
  PROVE  InHand(x)' => Current(x)'
<1> SUFFICES ASSUME InHand(x)' PROVE Current(x)'
  OBVIOUS
<1>1. /\ Current(x) /\ Kept(RunOf(x)) /\ by'[x] = by[x] /\ self' = self
      /\ by[x] \in Remote /\ up[by[x]] => up'[by[x]]
  BY DEF Carried
<1>2. Alive(by[x])'
  BY <1>1 DEF Current, Alive
<1>3. QED
  BY <1>1, <1>2 DEF Current, Kept, Final, FinalStatuses

(* All sections keep it but a claim of the run itself, and a recovery of a *)
(* lease that expired before the run was over.                             *)
LEMMA SectionsKeep ==
  ASSUME IInv, NEW r \in Runs,
         \/ UNCHANGED queueVars
         \/ \E q \in Runs, e \in StatusEvents \cup InputEvents : AppendEvent(q, e)
         \/ \E w \in Workers : RecoverLeases(BeatLease(w)) /\ (Final(r) \/ lease[r] # "expired")
         \/ \E w \in Workers \cup {NoWorker} : BeatStep(w)
         \/ \E q \in Runs : CancelQueuedJob(q) \/ StoreCreateRun(q)
         \/ \E q \in Runs \ {r} : StoreEnqueueRun(q) \/ ExpireStep(q)
         \/ \E w \in Workers, q \in Runs \ {r} : ClaimNextJob(w, q)
  PROVE  Kept(r)
<1> USE DEF IInv, QueueInv, QueueTypeOK, Kept, Final, FinalStatuses
<1>1. CASE UNCHANGED queueVars
  BY <1>1 DEF queueVars
<1>2. ASSUME NEW q \in Runs, NEW e \in StatusEvents \cup InputEvents, AppendEvent(q, e)
      PROVE  Kept(r)
  <2>1. e \in TerminalRunEvents => StatusAfter(q, e) \in FinalStatuses
    BY EventStatusValue DEF StatusAfter, TerminalRunEvents, InputEvents
  <2>2. Final(q) => StatusAfter(q, e) \in FinalStatuses
    BY DEF StatusAfter
  <2>3. QED
    BY <1>2, <2>1, <2>2 DEF AppendEvent
<1>3. ASSUME NEW w \in Workers, RecoverLeases(BeatLease(w)), Final(r) \/ lease[r] # "expired"
      PROVE  Kept(r)
  BY <1>3 DEF RecoverLeases, BeatLease, Renewed, Taken, OwnersWithout
<1>4. ASSUME NEW w, BeatStep(w)
      PROVE  Kept(r)
  BY <1>4 DEF BeatStep, BeatLease
<1>5. ASSUME NEW q \in Runs, CancelQueuedJob(q) \/ StoreCreateRun(q)
      PROVE  Kept(r)
  BY <1>5 DEF CancelQueuedJob, StoreCreateRun
<1>6. ASSUME NEW q \in Runs \ {r}, StoreEnqueueRun(q) \/ ExpireStep(q)
      PROVE  Kept(r)
  BY <1>6 DEF StoreEnqueueRun, ExpireStep
<1>7. ASSUME NEW w \in Workers, NEW q \in Runs \ {r}, ClaimNextJob(w, q)
      PROVE  Kept(r)
  BY <1>7 DEF ClaimNextJob
<1>8. QED
  BY <1>1, <1>2, <1>3, <1>4, <1>5, <1>6, <1>7

(* A step that touches no thread of an attempt and no claim.               *)
LEMMA FramesCarry ==
  ASSUME UNCHANGED <<claim, by, pc, turn, self, up>>
  PROVE  /\ \A x \in Attempts : Carried(x)
         /\ \A c \in Claimers : AnswerOK(c) => AnswerOK(c)'
  BY DEF Carried, InHand, Executing, Answering, AnswerOK

(* Nobody has an attempt at a queued run in hand, nor at one not enqueued. *)
LEMMA QueuedIsFree ==
  ASSUME NEW x \in Attempts, InHand(x) => Current(x), InHand(x)
  PROVE  job[RunOf(x)] \notin {"queued", "none"} /\ x[2] # attempts[RunOf(x)] + 1
<1>1. x[2] \in Nat /\ x[2] = attempts[RunOf(x)] /\ job[RunOf(x)] \in {"running"} \cup FinalStatuses
  BY StoreAssumption DEF Current, Attempts
<1>2. QED
  BY <1>1 DEF FinalStatuses

(* A step of the store alone.                                              *)
LEMMA QueueOnly ==
  ASSUME Steady, UNCHANGED <<claim, by, pc, turn, self, up>>,
         \A x \in Attempts : InHand(x) => Kept(RunOf(x))
  PROVE  Steady'
<1>1. ASSUME NEW x \in Attempts PROVE InHand(x)' => Current(x)'
  BY FramesCarry, CarriedOn DEF Steady
<1>2. ASSUME NEW c \in Claimers PROVE AnswerOK(c)'
  BY FramesCarry DEF Steady
<1>3. QED
  BY <1>1, <1>2 DEF Steady

(* An attempt is one at a run.                                             *)
LEMMA RunsOfAttempts == \A x \in Attempts : RunOf(x) \in Runs
  BY DEF Attempts, RunOf

(* Heartbeats and recovery leave what is in hand alone.                    *)
LEMMA BeatsSpare ==
  ASSUME IInv, Steady, NEW w \in Workers,
         RecoverLeases(BeatLease(w)) \/ BeatStep(w) \/ UNCHANGED queueVars
  PROVE  \A x \in Attempts : InHand(x) => Kept(RunOf(x))
BY SectionsKeep, RunsOfAttempts DEF Steady, Current

(* Requests: enqueue_run meets a run that nobody has an attempt at.        *)
LEMMA ClientsSpare ==
  ASSUME IInv, Steady, ClientStep
  PROVE  Steady'
<1>1. UNCHANGED <<claim, by, pc, turn, self, up>>
  BY DEF ClientStep, CreateRun, EnqueueRun, AnnounceQueued, RejectInput, CancelCheck, CancelJob,
     CancelDequeued, CancelHeld, CancelRequest, CancelAdapter, execVars, faultVars
<1>2. PICK q \in Runs :
        \/ CreateRun(q) \/ EnqueueRun(q) \/ AnnounceQueued(q) \/ RejectInput(q)
        \/ CancelCheck(q) \/ CancelJob(q) \/ CancelDequeued(q)
        \/ CancelHeld(q) \/ CancelRequest(q) \/ CancelAdapter(q)
  BY DEF ClientStep
<1>3. CASE EnqueueRun(q)
  <2>1. job[q] = "none" /\ StoreEnqueueRun(q)
    BY <1>3 DEF EnqueueRun, IInv, ThreadInv, ClientsKnow
  <2>2. ASSUME NEW x \in Attempts, InHand(x) PROVE Kept(RunOf(x))
    <3>1. RunOf(x) \in Runs /\ RunOf(x) # q
      BY <2>1, <2>2, QueuedIsFree, RunsOfAttempts DEF Steady
    <3>2. QED
      BY <2>1, <3>1, SectionsKeep
  <2>3. QED
    BY <1>1, <2>2, QueueOnly
<1>4. CASE ~EnqueueRun(q)
  <2>1. \/ UNCHANGED queueVars
        \/ \E e \in StatusEvents \cup InputEvents : AppendEvent(q, e)
        \/ CancelQueuedJob(q) \/ StoreCreateRun(q)
    BY <1>2, <1>4 DEF CreateRun, AnnounceQueued, RejectInput, CancelCheck, CancelJob,
       CancelDequeued, CancelHeld, CancelRequest, CancelAdapter, StatusEvents, InputEvents,
       TerminalRunEvents
  <2>2. ASSUME NEW x \in Attempts PROVE Kept(RunOf(x))
    BY <2>1, SectionsKeep, RunsOfAttempts
  <2>3. QED
    BY <1>1, <2>2, QueueOnly
<1>5. QED
  BY <1>3, <1>4

(* Threads of an attempt change their own program counters only, and none  *)
(* of them begins by itself.                                               *)
LEMMA OwnThreadsCarry ==
  ASSUME Steady, NEW x \in Attempts, Executing(x)' => InHand(x),
         UNCHANGED <<claim, by, self, up>>,
         \A y \in Attempts \ {x} : pc'[y] = pc[y] /\ turn'[y] = turn[y],
         \A y \in Attempts : InHand(y) => Kept(RunOf(y))
  PROVE  Steady'
<1>1. ASSUME NEW y \in Attempts PROVE Carried(y)
  BY DEF Carried, InHand, Executing, Answering
<1>2. ASSUME NEW y \in Attempts PROVE InHand(y)' => Current(y)'
  BY <1>1, CarriedOn DEF Steady
<1>3. ASSUME NEW c \in Claimers PROVE AnswerOK(c)'
  BY DEF Steady, AnswerOK
<1>4. QED
  BY <1>2, <1>3 DEF Steady

(* The threads of an attempt, and posts.                                   *)
LEMMA AttemptsSpare ==
  ASSUME IInv, Steady, AttemptStep
  PROVE  Steady'
<1> USE DEF execVars, faultVars
<1>1. PICK x \in Attempts :
    \/ LocalBegin(x) \/ LocalStart(x) \/ LocalPrompt(x) \/ LocalFinish(x)
    \/ TurnEnd(x) \/ TimerFire(x) \/ TimerCancel(x)
    \/ RemoteStart(x) \/ RemotePrompt(x) \/ RemoteFinish(x) \/ RemoteStop(x)
    \/ RemoteCancel(x) \/ RemoteFail(x) \/ PostTimeout(x)
    \/ \E e \in StatusEvents : AppendPosted(x, e)
  BY DEF AttemptStep
<1>2. pc \in [Attempts -> ThreadStates] /\ turn \in [Attempts -> {"none", "working", "finishing", "over"}]
  BY DEF IInv, ThreadInv, SchedulerTypeOK
<1>3. /\ UNCHANGED <<claim, by, self, up>>
      /\ \A y \in Attempts \ {x} : pc'[y] = pc[y] /\ turn'[y] = turn[y]
  BY <1>1, <1>2 DEF LocalBegin, LocalStart, LocalPrompt, LocalFinish, TurnEnd, TimerFire, TimerCancel,
     RemoteStart, RemotePrompt, RemoteFinish, RemoteStop, RemoteCancel, RemoteFail, RemotePost,
     PostTimeout, AppendPosted
<1>4. UNCHANGED queueVars \/ \E e \in StatusEvents : AppendEvent(RunOf(x), e)
  BY <1>1 DEF LocalBegin, LocalStart, LocalPrompt, LocalFinish, TurnEnd, TimerFire, TimerCancel,
     RemoteStart, RemotePrompt, RemoteFinish, RemoteStop, RemoteCancel, RemoteFail, RemotePost,
     PostTimeout, AppendPosted, StatusEvents, TerminalRunEvents
<1>5. ASSUME NEW y \in Attempts PROVE Kept(RunOf(y))
  BY <1>4, SectionsKeep, RunsOfAttempts
<1>6. Executing(x)' => Executing(x)
  <2>1. CASE \/ LocalBegin(x) \/ LocalStart(x) \/ LocalPrompt(x) \/ LocalFinish(x)
             \/ TurnEnd(x) \/ TimerFire(x) \/ TimerCancel(x)
    BY <1>2, <2>1 DEF LocalBegin, LocalStart, LocalPrompt, LocalFinish, TurnEnd, TimerFire,
       TimerCancel, Executing
  <2>2. CASE \/ RemoteStart(x) \/ RemotePrompt(x) \/ RemoteFinish(x) \/ RemoteStop(x)
             \/ RemoteCancel(x) \/ RemoteFail(x) \/ PostTimeout(x)
    BY <1>2, <2>2 DEF RemoteStart, RemotePrompt, RemoteFinish, RemoteStop, RemoteCancel,
       RemoteFail, RemotePost, PostTimeout, Executing
  <2>3. CASE \E e \in StatusEvents : AppendPosted(x, e)
    BY <1>2, <2>3 DEF AppendPosted, Executing
  <2>4. QED
    BY <1>1, <2>1, <2>2, <2>3
<1>7. QED
  BY <1>3, <1>5, <1>6, OwnThreadsCarry DEF InHand
-----------------------------------------------------------------------------
(* The two claims put a new attempt in hand: of a run that was queued, so  *)
(* nobody has another attempt at it.                                       *)
LEMMA ClaimIsCurrent ==
  ASSUME IInv, Steady, NEW w \in Workers, Alive(w), NEW q \in Runs, ClaimNextJob(w, q),
         NEW z \in Attempts, z = <<q, attempts[q] + 1>>, by' = [by EXCEPT ![z] = w],
         self' = self, up' = up,
         \A x \in Attempts \ {z} : InHand(x)' => InHand(x)
  PROVE  \A x \in Attempts : InHand(x)' => Current(x)'
<1> USE DEF IInv, QueueInv, QueueTypeOK, ThreadInv, SchedulerTypeOK
<1>1. job[q] = "queued"
  BY DEF ClaimNextJob, Claimable
<1>2. Current(z)'
  <2>1. z[2] = attempts[q] + 1 /\ RunOf(z) = q /\ by'[z] = w
    BY DEF RunOf
  <2>2. Alive(w)'
    BY DEF Alive
  <2>3. QED
    BY <2>1, <2>2 DEF Current, ClaimNextJob
<1>3. ASSUME NEW x \in Attempts \ {z} PROVE InHand(x)' => Current(x)'
  <2>1. InHand(x) => RunOf(x) \in Runs /\ RunOf(x) # q
    BY <1>1, QueuedIsFree, RunsOfAttempts DEF Steady
  <2>2. InHand(x) => Kept(RunOf(x))
    BY <2>1, SectionsKeep
  <2>3. Carried(x)
    BY DEF Carried
  <2>4. QED
    BY <2>2, <2>3, CarriedOn DEF Steady
<1>4. QED
  BY <1>2, <1>3

(* There is an attempt left to claim.                                     *)
LEMMA ClaimedIsAttempt ==
  ASSUME IInv, NEW w, NEW q \in Runs, ClaimNextJob(w, q)
  PROVE  <<q, attempts[q] + 1>> \in Attempts
<1>1. attempts[q] \in 0 .. MaxAttempts /\ attempts[q] < MaxAttempts
  BY DEF IInv, QueueInv, QueueTypeOK, AttemptLeft, ClaimNextJob, Claimable
<1>2. attempts[q] + 1 \in 1 .. MaxAttempts
  BY <1>1, StoreAssumption
<1>3. QED
  BY <1>2 DEF Attempts

(* Nobody has the next attempt in hand before it is claimed.               *)
LEMMA NewIsFree ==
  ASSUME Steady, NEW q, NEW z \in Attempts, z = <<q, attempts[q] + 1>>
  PROVE  ~InHand(z)
BY QueuedIsFree DEF Steady, RunOf

(* Only a restart counts as one.                                           *)
LEMMA OthersLeaveRestarts ==
  ASSUME [Next]_vars, ~Restart
  PROVE  restarts' = restarts
<1> USE DEF faultVars
<1>1. CASE ClientStep
  BY <1>1 DEF ClientStep, CreateRun, EnqueueRun, AnnounceQueued, RejectInput, CancelCheck, CancelJob,
     CancelDequeued, CancelHeld, CancelRequest, CancelAdapter
<1>2. CASE DrainStep
  BY <1>2 DEF DrainStep, HeartbeatTick, DrainEnter, DrainCheck, DrainTake
<1>3. CASE AttemptStep
  BY <1>3 DEF AttemptStep, LocalBegin, LocalStart, LocalPrompt, LocalFinish, TurnEnd,
     TimerFire, TimerCancel, RemoteStart, RemotePrompt, RemoteFinish, RemoteStop,
     RemoteCancel, RemoteFail, RemotePost, PostTimeout, AppendPosted
<1>4. CASE ClaimStep
  BY <1>4 DEF ClaimStep, ClaimRequest, ClaimCheck, ClaimTake, ClaimRead, ClaimRespond
<1>5. CASE OperatorStep
  BY <1>5 DEF OperatorStep, DrainWorker, ResumeWorker, RetryWorkerRuns
<1>6. CASE FaultStep
  BY <1>6 DEF FaultStep, LeaseExpires, DaemonCrash, DaemonStart
<1>7. CASE \E w \in Remote : RemoteHeartbeat(w)
  BY <1>7 DEF RemoteHeartbeat
<1>8. QED
  BY <1>1, <1>2, <1>3, <1>4, <1>5, <1>6, <1>7 DEF Next, vars

(* A claim of the control plane's own.                                     *)
LEMMA DrainsSpare ==
  ASSUME IInv, Steady, NEW d \in Drainers, DrainTake(d)
  PROVE  Steady'
<1> USE DEF IInv, ThreadInv, SchedulerTypeOK, faultVars
<1>1. UNCHANGED <<claim, turn, self, up>>
  BY DEF DrainTake
<1>2. CASE UNCHANGED <<queueVars, by, pc>>
  BY <1>1, <1>2, QueueOnly, SectionsKeep, RunsOfAttempts
<1>3. CASE \E r \in Runs :
             /\ ClaimNextJob(self, r)
             /\ by' = [by EXCEPT ![<<r, attempts[r] + 1>>] = self]
             /\ pc' = [pc EXCEPT ![<<r, attempts[r] + 1>>] = "claimed"]
  <2>1. PICK r, z :
             /\ r \in Runs
             /\ z = <<r, attempts[r] + 1>>
             /\ ClaimNextJob(self, r)
             /\ by' = [by EXCEPT ![z] = self]
             /\ pc' = [pc EXCEPT ![z] = "claimed"]
    BY <1>3
  <2>2. z \in Attempts
    BY <2>1, ClaimedIsAttempt
  <2>3. self \in Workers /\ Alive(self)
    BY SchedulerAssumption DEF Alive
  <2>4. \A x \in Attempts \ {z} : InHand(x)' => InHand(x)
    BY <1>1, <2>1, <2>2 DEF InHand, Executing, Answering
  <2>5. \A x \in Attempts : InHand(x)' => Current(x)'
    BY <1>1, <2>1, <2>2, <2>3, <2>4, ClaimIsCurrent
  <2>6. ~InHand(z)
    BY <2>1, <2>2, NewIsFree
  <2>7. ASSUME NEW c \in Claimers PROVE AnswerOK(c)'
    BY <1>1, <2>1, <2>2, <2>6 DEF Steady, AnswerOK, InHand, Answering
  <2>8. QED
    BY <2>5, <2>7 DEF Steady
<1>4. QED
  BY <1>2, <1>3 DEF DrainTake

(* The answer to a claim, also to one of a daemon that has died since.     *)
LEMMA ClaimTakesSpare ==
  ASSUME IInv, Steady, NEW c \in Claimers, ClaimTake(c)
  PROVE  Steady'
<1> USE DEF IInv, ThreadInv, SchedulerTypeOK, execVars, faultVars
<1> DEFINE w == claim[c].worker
<1>1. UNCHANGED <<pc, turn, self, up>> /\ claim[c].pc = "take" /\ w \in Remote
      /\ claim[c] \in ClaimStates
  BY DEF ClaimTake, ClaimsKnow
<1>2. CASE UNCHANGED <<queueVars, by>> /\ claim' = [claim EXCEPT ![c].pc = "read"]
  <2>1. \A b \in Claimers : /\ claim'[b].attempt = claim[b].attempt
                            /\ claim'[b].fresh = claim[b].fresh
                            /\ claim'[b].worker = claim[b].worker
    BY <1>1, <1>2 DEF ClaimStates
  <2>2. \A x \in Attempts : Carried(x)
    BY <1>1, <1>2, <2>1 DEF Carried, InHand, Executing, Answering
  <2>3. \A x \in Attempts : Kept(RunOf(x))
    BY <1>2, SectionsKeep, RunsOfAttempts
  <2>4. ASSUME NEW x \in Attempts PROVE InHand(x)' => Current(x)'
    BY <2>2, <2>3, CarriedOn DEF Steady
  <2>5. ASSUME NEW b \in Claimers PROVE AnswerOK(b)'
    BY <1>1, <1>2, <2>1 DEF Steady, AnswerOK
  <2>6. QED
    BY <2>4, <2>5 DEF Steady
<1>3. CASE \E r \in Runs :
             /\ ClaimNextJob(w, r)
             /\ by' = [by EXCEPT ![<<r, attempts[r] + 1>>] = w]
             /\ claim' = [claim EXCEPT ![c].pc = "read", ![c].attempt = <<r, attempts[r] + 1>>]
  <2>1. PICK r, z :
             /\ r \in Runs
             /\ z = <<r, attempts[r] + 1>>
             /\ ClaimNextJob(w, r)
             /\ by' = [by EXCEPT ![z] = w]
             /\ claim' = [claim EXCEPT ![c].pc = "read", ![c].attempt = z]
    BY <1>3
  <2>2. z \in Attempts /\ by'[z] = w
    BY <2>1, ClaimedIsAttempt
  <2>3. ~InHand(z)
    BY <2>1, <2>2, NewIsFree
  <2>4. /\ claim'[c].attempt = z /\ claim'[c].fresh = claim[c].fresh /\ claim'[c].worker = w
        /\ \A b \in Claimers \ {c} : claim'[b] = claim[b]
    BY <1>1, <2>1 DEF ClaimStates
  <2>5. ASSUME NEW b \in Claimers PROVE AnswerOK(b)'
    <3>1. CASE b = c
      BY <1>1, <2>2, <2>4, <3>1 DEF Steady, AnswerOK
    <3>2. CASE b # c
      BY <1>1, <2>1, <2>3, <2>4, <3>2 DEF Steady, AnswerOK, InHand, Answering
    <3>3. QED
      BY <3>1, <3>2
  <2>6. \A x \in Attempts \ {z} : InHand(x)' => InHand(x)
    BY <1>1, <2>4 DEF InHand, Executing, Answering
  <2>7. CASE claim[c].fresh
    <3>1. w \in Workers /\ Alive(w)
      BY <1>1, <2>7 DEF Remote, Alive, Steady, AnswerOK
    <3>2. \A x \in Attempts : InHand(x)' => Current(x)'
      BY <1>1, <2>1, <2>2, <2>6, <3>1, ClaimIsCurrent
    <3>3. QED
      BY <2>5, <3>2 DEF Steady
  <2>8. CASE ~claim[c].fresh
    <3>1. ~InHand(z)'
      BY <1>1, <2>3, <2>4, <2>8 DEF InHand, Executing, Answering
    <3>2. ASSUME NEW x \in Attempts \ {z} PROVE InHand(x)' => Current(x)'
      <4>1. InHand(x) => RunOf(x) \in Runs \ {r}
        BY <2>1, QueuedIsFree, RunsOfAttempts DEF Steady, ClaimNextJob, Claimable
      <4>2. InHand(x) => Kept(RunOf(x))
        BY <1>1, <2>1, <4>1, SectionsKeep DEF Remote
      <4>3. Carried(x)
        BY <1>1, <2>1, <2>6 DEF Carried
      <4>4. QED
        BY <4>2, <4>3, CarriedOn DEF Steady
    <3>3. QED
      BY <2>5, <3>1, <3>2 DEF Steady
  <2>9. QED
    BY <2>7, <2>8
<1>4. QED
  BY <1>2, <1>3 DEF ClaimTake

(* The other sections of a claim request.                                  *)
LEMMA ClaimsSpare ==
  ASSUME IInv, Steady, NEW c \in Claimers,
         \/ ClaimCheck(c) \/ ClaimRead(c) \/ ClaimRespond(c)
         \/ \E w \in Remote : ClaimRequest(c, w)
  PROVE  Steady'
<1> USE DEF IInv, ThreadInv, SchedulerTypeOK, execVars, faultVars
<1>1. UNCHANGED <<by, turn, self, up>> /\ claim[c] \in ClaimStates
      /\ \A b \in Claimers \ {c} : claim'[b] = claim[b]
  BY DEF ClaimCheck, ClaimRead, ClaimRespond, ClaimRequest
<1>2. \A x \in Attempts : InHand(x) => Kept(RunOf(x))
  <2>1. CASE ClaimCheck(c) \/ ClaimRead(c)
    BY <2>1, SectionsKeep, RunsOfAttempts DEF ClaimCheck, ClaimRead
  <2>2. CASE ClaimRespond(c)
    <3>1. BeatStep(claim[c].worker) /\ claim[c].worker \in Workers \cup {NoWorker}
      BY <1>1, <2>2 DEF ClaimRespond, HeartbeatWorker, BeatStep, ClaimStates
    <3>2. QED
      BY <3>1, SectionsKeep, RunsOfAttempts
  <2>3. CASE \E w \in Remote : ClaimRequest(c, w)
    BY <2>3, BeatsSpare DEF ClaimRequest, HeartbeatAndRecover, Remote
  <2>4. QED
    BY <2>1, <2>2, <2>3
<1>3. \/ claim'[c].fresh = FALSE
      \/ /\ claim'[c].fresh = claim[c].fresh /\ claim'[c].worker = claim[c].worker
         /\ claim'[c].attempt = claim[c].attempt
      \/ /\ claim'[c].attempt = NoAttempt
         /\ claim'[c].worker \in Remote /\ up[claim'[c].worker]
  BY <1>1 DEF ClaimCheck, ClaimRead, ClaimRespond, ClaimRequest, IdleClaim, ClaimStates
<1>4. \A x \in Attempts : Answering(x)' => Answering(x)
  BY <1>1, <1>3, SchedulerAssumption DEF Answering
<1>5. \A x \in Attempts : Executing(x)' => InHand(x)
  BY <1>1 DEF ClaimCheck, ClaimRead, ClaimRespond, ClaimRequest, InHand, Executing, Answering
<1>6. ASSUME NEW x \in Attempts PROVE InHand(x)' => Current(x)'
  <2>1. Carried(x)
    BY <1>1, <1>4, <1>5 DEF Carried, InHand
  <2>2. QED
    BY <1>2, <2>1, CarriedOn DEF Steady
<1>7. ASSUME NEW b \in Claimers PROVE AnswerOK(b)'
  BY <1>1, <1>3 DEF Steady, AnswerOK
<1>8. QED
  BY <1>6, <1>7 DEF Steady
-----------------------------------------------------------------------------
(* A daemon takes what it has in hand with it; a lease expires under a     *)
(* worker that is gone or a run that is over.                              *)
LEMMA FaultsSpare ==
  ASSUME IInv, Steady, Punctual, FaultStep, ~Restart
  PROVE  Steady'
<1> USE DEF IInv, ThreadInv, SchedulerTypeOK, execVars, faultVars
<1>1. ASSUME NEW q \in Runs, LeaseExpires(q)
      PROVE  Steady'
  <2>1. UNCHANGED <<claim, by, pc, turn, self, up>> /\ (Final(q) \/ ~Alive(owner[q]))
        /\ job[q] = "running" /\ lease' = [lease EXCEPT ![q] = "expired"]
        /\ UNCHANGED <<status, job, owner, attempts>>
    BY <1>1 DEF LeaseExpires
  <2>2. ASSUME NEW x \in Attempts, InHand(x)' PROVE Current(x)'
    <3>1. InHand(x) /\ Current(x) /\ RunOf(x) \in Runs
      BY <2>1, <2>2, RunsOfAttempts DEF InHand, Executing, Answering, Steady
    <3>2. RunOf(x) = q => Final(q)
      BY <2>1, <3>1 DEF Current
    <3>3. QED
      BY <2>1, <3>1, <3>2 DEF Current, Final, Alive, QueueInv, QueueTypeOK
  <2>3. ASSUME NEW c \in Claimers PROVE AnswerOK(c)'
    BY <2>1 DEF Steady, AnswerOK
  <2>4. QED
    BY <2>2, <2>3 DEF Steady
<1>2. ASSUME NEW w \in Remote, DaemonCrash(w)
      PROVE  Steady'
  <2>1. /\ UNCHANGED <<queueVars, by, self>> /\ up' = [up EXCEPT ![w] = FALSE]
        /\ \A x \in Attempts : /\ pc'[x] = IF by[x] \in {w} /\ pc[x] # "none" THEN "gone" ELSE pc[x]
                               /\ turn'[x] = IF by[x] \in {w} /\ turn[x] # "none" THEN "over" ELSE turn[x]
        /\ \A c \in Claimers : /\ claim'[c].attempt = claim[c].attempt
                               /\ claim'[c].worker = claim[c].worker
                               /\ (claim'[c].fresh => claim[c].fresh /\ claim[c].worker # w)
    BY <1>2 DEF DaemonCrash, KillThreads
  <2>2. ASSUME NEW x \in Attempts PROVE InHand(x)' => InHand(x) /\ by[x] # w
    <3>1. Executing(x)' => Executing(x) /\ by[x] # w
      BY <2>1 DEF Executing
    <3>2. Answering(x)' => Answering(x) /\ by[x] # w
      BY <2>1, SchedulerAssumption DEF Answering, Steady, AnswerOK
    <3>3. QED
      BY <3>1, <3>2 DEF InHand
  <2>3. ASSUME NEW x \in Attempts PROVE InHand(x)' => Current(x)'
    <3>1. Carried(x)
      BY <2>1, <2>2 DEF Carried
    <3>2. Kept(RunOf(x))
      BY <2>1, SectionsKeep, RunsOfAttempts
    <3>3. QED
      BY <3>1, <3>2, CarriedOn DEF Steady
  <2>4. ASSUME NEW c \in Claimers PROVE AnswerOK(c)'
    BY <2>1 DEF Steady, AnswerOK
  <2>5. QED
    BY <2>3, <2>4 DEF Steady
<1>3. ASSUME NEW w \in Remote, DaemonStart(w)
      PROVE  Steady'
  <2>1. UNCHANGED <<queueVars, claim, by, pc, turn, self>> /\ up' = [up EXCEPT ![w] = TRUE]
    BY <1>3 DEF DaemonStart
  <2>2. ASSUME NEW x \in Attempts PROVE InHand(x)' => Current(x)'
    <3>1. Carried(x)
      BY <2>1 DEF Carried, InHand, Executing, Answering
    <3>2. Kept(RunOf(x))
      BY <2>1, SectionsKeep, RunsOfAttempts
    <3>3. QED
      BY <3>1, <3>2, CarriedOn DEF Steady
  <2>3. ASSUME NEW c \in Claimers PROVE AnswerOK(c)'
    BY <2>1 DEF Steady, AnswerOK
  <2>4. QED
    BY <2>2, <2>3 DEF Steady
<1>4. QED
  BY <1>1, <1>2, <1>3 DEF FaultStep

(* The invariant is inductive; a restart makes it vacuous.                 *)
LEMMA ExecutionStep ==
  ASSUME IInv, ExecutionInv, [Next]_vars
  PROVE  ExecutionInv'
<1>1. CASE Restart
  <2>1. PICK fs \in Firsts, js \in JobSets, ls \in Leases : StopAndStart(fs, js, ls)
    BY <1>1, StopLeaves
  <2>2. restarts' # 0
    BY <2>1 DEF StopAndStart, IInv, ThreadInv, SchedulerTypeOK
  <2>3. QED
    BY <2>2 DEF ExecutionInv
<1>2. CASE ~Restart
  <2> SUFFICES ASSUME Punctual, Operated = {}, restarts' = 0 PROVE Steady'
    BY DEF ExecutionInv
  <2>1. restarts' = restarts
    BY <1>2, OthersLeaveRestarts
  <2>2. Steady
    BY <2>1 DEF ExecutionInv
  <2>3. CASE ClientStep
    BY <2>2, <2>3, ClientsSpare
  <2>4. CASE DrainStep
    <3>1. CASE \E d \in Drainers : DrainTake(d)
      BY <2>2, <3>1, DrainsSpare
    <3>2. CASE HeartbeatTick \/ \E d \in Drainers : DrainEnter(d) \/ DrainCheck(d)
      <4>1. UNCHANGED <<claim, by, pc, turn, self, up>>
            /\ (RecoverLeases(BeatLease(self)) \/ UNCHANGED queueVars)
        BY <3>2 DEF HeartbeatTick, DrainEnter, DrainCheck, HeartbeatAndRecover, execVars, faultVars
      <4>2. self \in Workers
        BY SchedulerAssumption DEF IInv, ThreadInv, SchedulerTypeOK
      <4>3. QED
        BY <2>2, <4>1, <4>2, BeatsSpare, QueueOnly
    <3>3. QED
      BY <2>4, <3>1, <3>2 DEF DrainStep
  <2>5. CASE AttemptStep
    BY <2>2, <2>5, AttemptsSpare
  <2>6. CASE ClaimStep
    BY <2>2, <2>6, ClaimsSpare, ClaimTakesSpare DEF ClaimStep
  <2>7. CASE OperatorStep
    BY <2>7 DEF OperatorStep, DrainWorker, ResumeWorker, RetryWorkerRuns
  <2>8. CASE FaultStep
    BY <1>2, <2>2, <2>8, FaultsSpare
  <2>9. CASE \E w \in Remote : RemoteHeartbeat(w)
    <3>1. PICK w \in Remote : RemoteHeartbeat(w)
      BY <2>9
    <3>2. UNCHANGED <<claim, by, pc, turn, self, up>> /\ RecoverLeases(BeatLease(w)) /\ w \in Workers
      BY <3>1 DEF RemoteHeartbeat, HeartbeatAndRecover, execVars, faultVars, Remote
    <3>3. QED
      BY <2>2, <3>2, BeatsSpare, QueueOnly
  <2>10. CASE UNCHANGED vars
    <3>1. UNCHANGED <<queueVars, claim, by, pc, turn, self, up>>
      BY <2>10 DEF vars, execVars, faultVars
    <3>2. QED
      BY <2>2, <3>1, QueueOnly, SectionsKeep, RunsOfAttempts
  <2>11. QED
    BY <2>3, <2>4, <2>5, <2>6, <2>7, <2>8, <2>9, <2>10 DEF Next
<1>3. QED
  BY <1>1, <1>2

(* Of two attempts at one run at most one is executed, whatever daemons    *)
(* crash and come back and whichever answers are lost: as long as live     *)
(* workers' heartbeats arrive in time, no operator retries the runs of a   *)
(* worker that is alive, and the control plane is not restarted, while     *)
(* which nobody takes heartbeats and the leases of living workers run out. *)
THEOREM OneIsExecuted ==
  Spec => [](Punctual /\ Operated = {} /\ restarts = 0 => OneExecution)
<1>1. Init => ExecutionInv
  <2>1. Init => \A x \in Attempts : ~InHand(x)
    BY SchedulerAssumption DEF Init, InHand, Executing, Answering, IdleClaim
  <2>2. Init => \A c \in Claimers : AnswerOK(c)
    BY DEF Init, AnswerOK, IdleClaim
  <2>3. QED
    BY <2>1, <2>2 DEF ExecutionInv, Steady
<1>2. IInv /\ ExecutionInv /\ [Next]_vars => ExecutionInv'
  BY ExecutionStep
<1>3. ExecutionInv => (Punctual /\ Operated = {} /\ restarts = 0 => OneExecution)
  <2> SUFFICES ASSUME Steady, NEW x \in Attempts, NEW y \in Attempts, RunOf(x) = RunOf(y),
                      Executing(x), Executing(y)
               PROVE  x = y
    BY DEF ExecutionInv, OneExecution
  <2>1. x[2] = y[2]
    BY DEF Steady, InHand, Current
  <2>2. QED
    BY <2>1 DEF Attempts, RunOf
<1>4. QED
  BY <1>1, <1>2, <1>3, Invariance, PTL DEF Spec
=============================================================================
