---------------------------- MODULE RunStoreProofs ----------------------------
(***************************************************************************)
(* What the critical sections of RunStore preserve, whoever calls them and *)
(* in whatever order.  QueueStep is any of them with the little its        *)
(* callers guarantee; RunSchedulerProofs shows that every step of          *)
(* RunScheduler is one.                                                    *)
(***************************************************************************)
EXTENDS RunStore, TLAPS

(* There is no job before there is a run, and no owner or attempt before   *)
(* there is a job.                                                         *)
Beginnings ==
  \A r \in Runs :
    /\ status[r] = "absent" => job[r] = "none"
    /\ job[r] = "none" => owner[r] = NoWorker /\ attempts[r] = 0

(* The bound on attempts: a job that is or will be claimed again has one   *)
(* left.                                                                   *)
AttemptLeft ==
  \A r \in Runs :
    /\ job[r] = "queued" => attempts[r] < MaxAttempts
    /\ lease[r] = "expired" /\ ~Final(r) => attempts[r] < MaxAttempts

QueueInv ==
  QueueTypeOK /\ OutcomeIsFirstTerminal /\ LeaseCustody /\ Beginnings /\ AttemptLeft

(* The steps, with what their callers guarantee.                           *)
CreateStep(r)  == StoreCreateRun(r)
EnqueueStep(r) == StoreEnqueueRun(r) /\ status[r] # "absent" /\ job[r] = "none"

AppendStep(r, e) == AppendEvent(r, e) /\ status[r] # "absent"

BeatStep(w) ==
  /\ lease' = BeatLease(w)
  /\ UNCHANGED <<status, first, job, owner, attempts, queuedAt, clock, torn>>

RequeueStep(w) ==
  /\ RequeueRunningJobs(w)
  /\ \A r \in Runs : HoldsJob(w, r) => attempts[r] < MaxAttempts

(* What a stop in the middle of an append may leave: one more terminal     *)
(* event, and one job closed, of a run that is decided or torn.            *)
Firsts == [Runs -> FinalStatuses \cup {"none"}]
JobSets == [Runs -> Jobs]
Leases == [Runs -> {"none", "live", "expired"}]

Left(fs, js, ls) ==
  /\ torn \subseteq torn' /\ torn' \subseteq Runs
  /\ \A r \in Runs :
       /\ fs[r] # first[r] => first[r] = "none" /\ r \in torn'
       /\ \/ js[r] = job[r] /\ ls[r] = lease[r]
          \/ /\ Unfinished(r) /\ js[r] \in FinalStatuses /\ ls[r] = "none"
             /\ Final(r) \/ r \in torn'

OrphanStep(w, late, fs, js, ls) ==
  /\ FailOrphansAndRecover(w, late, fs, js, ls)
  /\ Left(fs, js, ls)
  /\ \A r \in late : attempts[r] < MaxAttempts

ExpireStep(r) ==
  /\ job[r] = "running" /\ (Final(r) \/ attempts[r] < MaxAttempts)
  /\ lease' = [lease EXCEPT ![r] = "expired"]
  /\ UNCHANGED <<status, first, job, owner, attempts, queuedAt, clock, torn>>

(* Every step but the ones that make a run or its job or cancel it.        *)
QuietStep ==
  \/ UNCHANGED queueVars
  \/ \E r \in Runs, e \in StatusEvents \cup InputEvents : AppendStep(r, e)
  \/ \E w \in Workers : RecoverLeases(BeatLease(w))
  \/ \E w \in Workers \cup {NoWorker} : BeatStep(w)
  \/ \E w \in Workers, r \in Runs : ClaimNextJob(w, r)
  \/ \E w \in Workers : RequeueStep(w)
  \/ \E w \in Workers, late \in SUBSET Runs, fs \in Firsts, js \in JobSets, ls \in Leases :
       OrphanStep(w, late, fs, js, ls)
  \/ \E r \in Runs : ExpireStep(r)

LaterStep == QuietStep \/ \E r \in Runs : CancelQueuedJob(r)

QueueStep ==
  \/ \E r \in Runs : CreateStep(r)
  \/ \E r \in Runs : EnqueueStep(r)
  \/ LaterStep
-----------------------------------------------------------------------------
(* It holds of the empty store.                                            *)
LEMMA QueueInvInit == StoreInit => QueueInv
  BY StoreAssumption
  DEF StoreInit, QueueInv, QueueTypeOK, OutcomeIsFirstTerminal, LeaseCustody, Beginnings,
      AttemptLeft, Statuses, Jobs, FinalStatuses, Final

(* The status each event names.                                            *)
LEMMA EventStatusValue ==
  /\ EventStatus("run.queued") = "queued"
  /\ EventStatus("input.rejected") = "queued"
  /\ EventStatus("run.started") = "running"
  /\ EventStatus("run.completed") = "completed"
  /\ EventStatus("run.failed") = "failed"
  /\ EventStatus("run.cancelled") = "cancelled"
  BY Zenon DEF EventStatus, InputEvents

(* A terminal event names a final status, and no other does.               *)
LEMMA EventStatusType ==
  ASSUME NEW e \in StatusEvents \cup InputEvents
  PROVE  IF e \in TerminalRunEvents THEN EventStatus(e) \in FinalStatuses
                                    ELSE EventStatus(e) \in {"queued", "running"}
  BY EventStatusValue DEF StatusEvents, InputEvents, TerminalRunEvents, FinalStatuses

(* An append leaves a decided run alone, and decides another exactly with  *)
(* a terminal event.                                                       *)
LEMMA StatusAfterType ==
  ASSUME QueueInv, NEW r \in Runs, NEW e \in StatusEvents \cup InputEvents,
         status[r] # "absent"
  PROVE  /\ StatusAfter(r, e) \in Statuses /\ StatusAfter(r, e) # "absent"
         /\ Final(r) => StatusAfter(r, e) = status[r]
         /\ ~Final(r) /\ e \in TerminalRunEvents =>
              StatusAfter(r, e) = EventStatus(e) /\ EventStatus(e) \in FinalStatuses
         /\ ~Final(r) /\ e \notin TerminalRunEvents => StatusAfter(r, e) \notin FinalStatuses
<1>1. IF e \in TerminalRunEvents THEN EventStatus(e) \in FinalStatuses
                                 ELSE EventStatus(e) \in {"queued", "running"}
  BY EventStatusType
<1>2. e \in TerminalRunEvents => e \notin InputEvents
  BY DEF TerminalRunEvents, InputEvents
<1>3. QED
  BY <1>1, <1>2 DEF StatusAfter, Final, FinalStatuses, Statuses, QueueInv, QueueTypeOK

(* Appending an event keeps the invariant: a terminal event closes the job *)
(* and decides the run unless it was decided before.                       *)
LEMMA AppendKeepsInv ==
  ASSUME QueueInv, NEW r \in Runs, NEW e \in StatusEvents \cup InputEvents, AppendStep(r, e)
  PROVE  QueueInv'
<1> DEFINE after == StatusAfter(r, e)
<1>1. /\ after \in Statuses /\ after # "absent"
      /\ Final(r) => after = status[r]
      /\ ~Final(r) /\ e \in TerminalRunEvents =>
           after = EventStatus(e) /\ EventStatus(e) \in FinalStatuses
      /\ ~Final(r) /\ e \notin TerminalRunEvents => after \notin FinalStatuses
      /\ e \in TerminalRunEvents => EventStatus(e) \in FinalStatuses
  BY StatusAfterType, EventStatusType DEF AppendStep
<1>0. status' = [status EXCEPT ![r] = after]
  BY DEF AppendStep, AppendEvent
<1> HIDE DEF after
<1>9. /\ job' = [job EXCEPT ![r] =
                   IF e \in TerminalRunEvents /\ Unfinished(r) THEN after ELSE @]
      /\ first' = [first EXCEPT ![r] = IF @ = "none" /\ e \in TerminalRunEvents
                                      THEN EventStatus(e) ELSE @]
      /\ lease' = [lease EXCEPT ![r] =
                     IF e \in TerminalRunEvents /\ Unfinished(r) THEN "none" ELSE @]
      /\ UNCHANGED <<owner, attempts, queuedAt, clock, torn>>
      /\ status[r] # "absent"
  BY DEF AppendStep, AppendEvent, after
<1> USE <1>0, <1>9 DEF Final, FinalStatuses, Unfinished, QueueInv, QueueTypeOK, Statuses, Jobs
<1>2. QueueTypeOK'
  BY <1>1
<1>3. OutcomeIsFirstTerminal'
  BY <1>1 DEF OutcomeIsFirstTerminal
<1>4. LeaseCustody'
  BY <1>1 DEF LeaseCustody
<1>5. Beginnings'
  BY <1>1 DEF Beginnings
<1>6. AttemptLeft'
  BY <1>1 DEF AttemptLeft
<1>7. QED
  BY <1>2, <1>3, <1>4, <1>5, <1>6

(* So does each of the other sections.                                     *)
LEMMA CreateKeepsInv ==
  ASSUME QueueInv, NEW r \in Runs, CreateStep(r)
  PROVE  QueueInv'
BY DEF CreateStep, StoreCreateRun, QueueInv, QueueTypeOK, Statuses, Final, FinalStatuses,
       OutcomeIsFirstTerminal, LeaseCustody, Beginnings, AttemptLeft

(* Giving a run its first job.                                             *)
LEMMA EnqueueKeepsInv ==
  ASSUME QueueInv, NEW r \in Runs, EnqueueStep(r)
  PROVE  QueueInv'
BY StoreAssumption
   DEF EnqueueStep, StoreEnqueueRun, QueueInv, QueueTypeOK, Jobs, Final,
       OutcomeIsFirstTerminal, LeaseCustody, Beginnings, AttemptLeft

(* A heartbeat renews leases of undecided runs only.                       *)
LEMMA BeatKeepsInv ==
  ASSUME QueueInv, NEW w, BeatStep(w)
  PROVE  QueueInv'
BY DEF BeatStep, BeatLease, Renewed, HoldsJob, QueueInv, QueueTypeOK, Final,
       OutcomeIsFirstTerminal, LeaseCustody, Beginnings, AttemptLeft

(* Recovery takes a job from its worker: it ends or is queued without an   *)
(* owner.                                                                  *)
LEMMA RecoverKeepsInv ==
  ASSUME QueueInv, NEW w \in Workers, RecoverLeases(BeatLease(w))
  PROVE  QueueInv'
<1> USE DEF RecoverLeases, BeatLease, Renewed, Taken, OwnersWithout, HoldsJob, Final,
            FinalStatuses, QueueInv, QueueTypeOK, Jobs, Statuses
<1>1. QueueTypeOK'
  OBVIOUS
<1>2. OutcomeIsFirstTerminal'
  BY DEF OutcomeIsFirstTerminal
<1>3. LeaseCustody'
  BY DEF LeaseCustody
<1>4. Beginnings'
  BY DEF Beginnings
<1>5. AttemptLeft'
  BY DEF AttemptLeft
<1>6. QED
  BY <1>1, <1>2, <1>3, <1>4, <1>5

(* A claim uses up one attempt, and only queued jobs are claimed.          *)
LEMMA ClaimKeepsInv ==
  ASSUME QueueInv, NEW w \in Workers, NEW r \in Runs, ClaimNextJob(w, r)
  PROVE  QueueInv'
<1> USE StoreAssumption DEF ClaimNextJob, Claimable, QueueInv, QueueTypeOK, Jobs
<1>1. QueueTypeOK' /\ AttemptLeft'
  BY DEF AttemptLeft, Final
<1>2. OutcomeIsFirstTerminal'
  BY DEF OutcomeIsFirstTerminal, Final
<1>3. LeaseCustody' /\ Beginnings'
  BY DEF LeaseCustody, Beginnings
<1>4. QED
  BY <1>1, <1>2, <1>3

(* Only queued jobs are cancelled in the queue.                            *)
LEMMA CancelKeepsInv ==
  ASSUME QueueInv, NEW r \in Runs, CancelQueuedJob(r)
  PROVE  QueueInv'
BY DEF CancelQueuedJob, QueueInv, QueueTypeOK, Jobs, Final, FinalStatuses,
       OutcomeIsFirstTerminal, LeaseCustody, Beginnings, AttemptLeft

(* An operator retries jobs that have an attempt left.                     *)
LEMMA RequeueKeepsInv ==
  ASSUME QueueInv, NEW w \in Workers, RequeueStep(w)
  PROVE  QueueInv'
<1> USE DEF RequeueStep, RequeueRunningJobs, Taken, OwnersWithout, HoldsJob, Final,
            FinalStatuses, QueueInv, QueueTypeOK, Jobs, Statuses
<1>1. QueueTypeOK'
  OBVIOUS
<1>2. OutcomeIsFirstTerminal'
  BY DEF OutcomeIsFirstTerminal
<1>3. LeaseCustody'
  BY DEF LeaseCustody
<1>4. Beginnings'
  BY DEF Beginnings
<1>5. AttemptLeft'
  BY DEF AttemptLeft
<1>6. QED
  BY <1>1, <1>2, <1>3, <1>4, <1>5

(* Startup fails the jobs of the process before it and recovers the        *)
(* others.                                                                 *)
LEMMA OrphanKeepsInv ==
  ASSUME QueueInv, NEW w \in Workers, NEW late \in SUBSET Runs, NEW fs \in Firsts,
             NEW js \in JobSets, NEW ls \in Leases, OrphanStep(w, late, fs, js, ls)
  PROVE  QueueInv'
<1> USE DEF OrphanStep, Left, Firsts, JobSets, Leases, FailOrphansAndRecover, Unfinished, Jobs, Taken, OrphanFate, OwnersWithout, HoldsJob,
            Final, FinalStatuses, QueueInv, QueueTypeOK, Jobs, Statuses
<1>1. QueueTypeOK'
  OBVIOUS
<1>2. OutcomeIsFirstTerminal'
  BY DEF OutcomeIsFirstTerminal
<1>3. LeaseCustody'
  BY DEF LeaseCustody
<1>4. Beginnings'
  BY DEF Beginnings
<1>5. AttemptLeft'
  BY DEF AttemptLeft
<1>6. QED
  BY <1>1, <1>2, <1>3, <1>4, <1>5

(* The passing of time.                                                    *)
LEMMA ExpireKeepsInv ==
  ASSUME QueueInv, NEW r \in Runs, ExpireStep(r)
  PROVE  QueueInv'
BY DEF ExpireStep, QueueInv, QueueTypeOK, Jobs, Final,
       OutcomeIsFirstTerminal, LeaseCustody, Beginnings, AttemptLeft

(* The invariant is inductive.                                             *)
LEMMA QueueInvStep ==
  ASSUME QueueInv, QueueStep
  PROVE  QueueInv'
<1>1. CASE UNCHANGED queueVars
  BY <1>1 DEF queueVars, QueueInv, QueueTypeOK, Final, OutcomeIsFirstTerminal,
              LeaseCustody, Beginnings, AttemptLeft
<1>2. CASE ~UNCHANGED queueVars
  BY <1>2, AppendKeepsInv, CreateKeepsInv, EnqueueKeepsInv, BeatKeepsInv, RecoverKeepsInv,
     ClaimKeepsInv, CancelKeepsInv, RequeueKeepsInv, OrphanKeepsInv, ExpireKeepsInv
  DEF QueueStep, LaterStep, QuietStep
<1>3. QED
  BY <1>1, <1>2
-----------------------------------------------------------------------------
(* A run or a job, once there, does not go away, and none appears but in   *)
(* its own section.                                                        *)
LEMMA LaterKeepsPresence ==
  ASSUME QueueInv, LaterStep, NEW r \in Runs
  PROVE  /\ status'[r] = "absent" <=> status[r] = "absent"
         /\ job'[r] = "none" <=> job[r] = "none"
<1> DEFINE Kept == /\ status'[r] = "absent" <=> status[r] = "absent"
                   /\ job'[r] = "none" <=> job[r] = "none"
<1> USE DEF QueueInv, QueueTypeOK, Final, FinalStatuses, HoldsJob
<1>1. CASE UNCHANGED queueVars
  BY <1>1 DEF queueVars
<1>2. ASSUME NEW q \in Runs, NEW e \in StatusEvents \cup InputEvents, AppendStep(q, e)
      PROVE  Kept
  BY <1>2, StatusAfterType DEF AppendStep, AppendEvent, Unfinished
<1>3. ASSUME NEW w \in Workers, RecoverLeases(BeatLease(w))
      PROVE  Kept
  BY <1>3 DEF RecoverLeases, Taken
<1>4. ASSUME NEW w, BeatStep(w)
      PROVE  Kept
  BY <1>4 DEF BeatStep
<1>5. ASSUME NEW w \in Workers, NEW q \in Runs, ClaimNextJob(w, q)
      PROVE  Kept
  BY <1>5 DEF ClaimNextJob, Claimable
<1>6. ASSUME NEW q \in Runs, CancelQueuedJob(q)
      PROVE  Kept
  BY <1>6 DEF CancelQueuedJob
<1>7. ASSUME NEW w \in Workers, RequeueStep(w)
      PROVE  Kept
  BY <1>7 DEF RequeueStep, RequeueRunningJobs, Taken, Beginnings
<1>8. ASSUME NEW w \in Workers, NEW late \in SUBSET Runs, NEW fs \in Firsts,
             NEW js \in JobSets, NEW ls \in Leases, OrphanStep(w, late, fs, js, ls)
      PROVE  Kept
  BY <1>8 DEF OrphanStep, Left, Firsts, JobSets, Leases, FailOrphansAndRecover, Unfinished, Jobs, Taken, OrphanFate, Beginnings
<1>9. ASSUME NEW q \in Runs, ExpireStep(q)
      PROVE  Kept
  BY <1>9 DEF ExpireStep
<1>10. QED
  BY <1>1, <1>2, <1>3, <1>4, <1>5, <1>6, <1>7, <1>8, <1>9 DEF LaterStep, QuietStep

(* What is decided stays decided, and a finished job stays finished.       *)
LEMMA DecidedStays ==
  ASSUME QueueInv, QueueStep, NEW r \in Runs
  PROVE  /\ Final(r) => status'[r] = status[r]
         /\ job[r] \in FinalStatuses => job'[r] = job[r]
<1> DEFINE Stays == /\ Final(r) => status'[r] = status[r]
                    /\ job[r] \in FinalStatuses => job'[r] = job[r]
<1> USE DEF QueueInv, QueueTypeOK, Final, FinalStatuses, HoldsJob
<1>1. CASE UNCHANGED queueVars
  BY <1>1 DEF queueVars
<1>2. ASSUME NEW q \in Runs, NEW e \in StatusEvents \cup InputEvents, AppendStep(q, e)
      PROVE  Stays
  BY <1>2 DEF AppendStep, AppendEvent, StatusAfter, Unfinished
<1>3. ASSUME NEW w \in Workers, RecoverLeases(BeatLease(w))
      PROVE  Stays
  BY <1>3 DEF RecoverLeases
<1>4. ASSUME NEW w, BeatStep(w)
      PROVE  Stays
  BY <1>4 DEF BeatStep
<1>5. ASSUME NEW w \in Workers, NEW q \in Runs, ClaimNextJob(w, q)
      PROVE  Stays
  BY <1>5 DEF ClaimNextJob, Claimable
<1>6. ASSUME NEW q \in Runs, CancelQueuedJob(q)
      PROVE  Stays
  BY <1>6 DEF CancelQueuedJob
<1>7. ASSUME NEW w \in Workers, RequeueStep(w)
      PROVE  Stays
  BY <1>7 DEF RequeueStep, RequeueRunningJobs, Taken
<1>8. ASSUME NEW w \in Workers, NEW late \in SUBSET Runs, NEW fs \in Firsts,
             NEW js \in JobSets, NEW ls \in Leases, OrphanStep(w, late, fs, js, ls)
      PROVE  Stays
  BY <1>8 DEF OrphanStep, Left, Firsts, JobSets, Leases, FailOrphansAndRecover, Unfinished, Jobs, OrphanFate
<1>9. ASSUME NEW q \in Runs, ExpireStep(q)
      PROVE  Stays
  BY <1>9 DEF ExpireStep
<1>10. ASSUME NEW q \in Runs, CreateStep(q)
       PROVE  Stays
  BY <1>10 DEF CreateStep, StoreCreateRun
<1>11. ASSUME NEW q \in Runs, EnqueueStep(q)
       PROVE  Stays
  BY <1>11 DEF EnqueueStep, StoreEnqueueRun
<1>12. QED
  BY <1>1, <1>2, <1>3, <1>4, <1>5, <1>6, <1>7, <1>8, <1>9, <1>10, <1>11
  DEF QueueStep, LaterStep, QuietStep

(* Each section is a step of the lifecycle that clients are promised, or   *)
(* changes nothing they can see.                                           *)
LEMMA LifecycleInit == StoreInit => Lifecycle!Init
  BY DEF StoreInit, Lifecycle!Init, Final, FinalStatuses

(* The one section that may decide a run and close its job in one step.    *)
LEMMA AppendIsLifecycle ==
  ASSUME QueueInv, QueueInv', NEW q \in Runs, NEW e \in StatusEvents \cup InputEvents, AppendStep(q, e),
         NEW r \in Runs
  PROVE  Lifecycle!RunStep(r) \/ Lifecycle!Idle(r)
<1>1. /\ Final(q) => StatusAfter(q, e) = status[q]
      /\ ~Final(q) /\ e \in TerminalRunEvents => StatusAfter(q, e) \in FinalStatuses
      /\ ~Final(q) /\ e \notin TerminalRunEvents => StatusAfter(q, e) \notin FinalStatuses
  BY StatusAfterType DEF AppendStep
<1> USE DEF AppendStep, AppendEvent, Unfinished, QueueInv, QueueTypeOK,
            Final, FinalStatuses, Lifecycle!FinalStatuses
<1>2. CASE r # q
  BY <1>2 DEF Lifecycle!Idle
<1>3. CASE r = q /\ ~Final(r) /\ e \in TerminalRunEvents
  BY <1>1, <1>3 DEF Lifecycle!RunStep, Lifecycle!Decide, Jobs
<1>4. CASE r = q /\ e \notin TerminalRunEvents
  <2>1. UNCHANGED <<job, owner>> /\ (Final(r)' <=> Final(r)) /\ (Final(r) => status'[r] = status[r])
    BY <1>1, <1>4
  <2>2. status[r] # "absent" /\ status'[r] # "absent"
    BY <1>4, StatusAfterType
  <2>3. QED
    BY <2>1, <2>2, StoreAssumption DEF Lifecycle!Idle, Jobs
<1>6. CASE r = q /\ Final(r) /\ e \in TerminalRunEvents
  BY <1>1, <1>6, StoreAssumption, LaterKeepsPresence
  DEF Lifecycle!RunStep, Lifecycle!Release, Lifecycle!Idle, Jobs, LeaseCustody, Beginnings
<1>5. QED
  BY <1>2, <1>3, <1>4, <1>6

(* And the others.                                                         *)
LEMMA StepIsLifecycle ==
  ASSUME QueueInv, QueueInv', QueueStep, NEW r \in Runs
  PROVE  Lifecycle!RunStep(r) \/ Lifecycle!Idle(r)
<1> DEFINE Promised == Lifecycle!RunStep(r) \/ Lifecycle!Idle(r)
<1> USE StoreAssumption
    DEF QueueInv, QueueTypeOK, Jobs, Statuses, Final, FinalStatuses, HoldsJob,
        Lifecycle!FinalStatuses, Lifecycle!RunStep, Lifecycle!Idle
<1>1. CASE UNCHANGED queueVars
  BY <1>1 DEF queueVars
<1>2. ASSUME NEW q \in Runs, NEW e \in StatusEvents \cup InputEvents, AppendStep(q, e)
      PROVE  Promised
  BY <1>2, AppendIsLifecycle
<1>3. ASSUME NEW w \in Workers, RecoverLeases(BeatLease(w))
      PROVE  Promised
  BY <1>3 DEF RecoverLeases, Taken, OwnersWithout, LeaseCustody, Beginnings,
              Lifecycle!Release
<1>4. ASSUME NEW w, BeatStep(w)
      PROVE  Promised
  BY <1>4 DEF BeatStep
<1>5. ASSUME NEW w \in Workers, NEW q \in Runs, ClaimNextJob(w, q)
      PROVE  Promised
  BY <1>5 DEF ClaimNextJob, Claimable, Beginnings, Lifecycle!Lease
<1>6. ASSUME NEW q \in Runs, CancelQueuedJob(q)
      PROVE  Promised
  BY <1>6 DEF CancelQueuedJob
<1>7. ASSUME NEW w \in Workers, RequeueStep(w)
      PROVE  Promised
  BY <1>7 DEF RequeueStep, RequeueRunningJobs, Taken, OwnersWithout, LeaseCustody,
              Beginnings, Lifecycle!Release
<1>8. ASSUME NEW w \in Workers, NEW late \in SUBSET Runs, NEW fs \in Firsts,
             NEW js \in JobSets, NEW ls \in Leases, OrphanStep(w, late, fs, js, ls)
      PROVE  Promised
  <2>1. CASE HoldsJob(w, r)
    BY <1>8, <2>1 DEF OrphanStep, Left, Firsts, JobSets, Leases, FailOrphansAndRecover, Unfinished, Jobs, OrphanFate, LeaseCustody,
                      Beginnings, Lifecycle!Release, Lifecycle!Decide
  <2>2. CASE ~HoldsJob(w, r)
    BY <1>8, <2>2 DEF OrphanStep, Left, Firsts, JobSets, Leases, FailOrphansAndRecover, Unfinished, Jobs, Taken, OwnersWithout,
                      LeaseCustody, Beginnings, Lifecycle!Release
  <2>3. QED
    BY <2>1, <2>2
<1>9. ASSUME NEW q \in Runs, ExpireStep(q)
      PROVE  Promised
  BY <1>9 DEF ExpireStep
<1>10. ASSUME NEW q \in Runs, CreateStep(q)
       PROVE  Promised
  BY <1>10 DEF CreateStep, StoreCreateRun, Beginnings, Lifecycle!Create
<1>11. ASSUME NEW q \in Runs, EnqueueStep(q)
       PROVE  Promised
  BY <1>11 DEF EnqueueStep, StoreEnqueueRun, Beginnings, Lifecycle!Enqueue
<1>12. QED
  BY <1>1, <1>2, <1>3, <1>4, <1>5, <1>6, <1>7, <1>8, <1>9, <1>10, <1>11
  DEF QueueStep, LaterStep, QuietStep

(* So the store takes steps of the lifecycle, for all runs at once.        *)
LEMMA LifecycleStep ==
  ASSUME QueueInv, QueueInv', QueueStep
  PROVE  Lifecycle!Next
<1>1. \A r \in Runs : Lifecycle!RunStep(r) \/ Lifecycle!Idle(r)
  BY StepIsLifecycle
<1>2. QED
  BY <1>1 DEF Lifecycle!Next, Lifecycle!FinalStatuses, FinalStatuses, Final, QueueInv,
              QueueTypeOK

(* A worker gets a job in no other way than by claiming it.                *)
LEMMA GainedByClaim ==
  ASSUME QueueInv, QueueStep, NEW w \in Workers, NEW r \in Runs,
         HoldsJob(w, r)', ~HoldsJob(w, r)
  PROVE  ClaimNextJob(w, r)
<1> DEFINE NotGained == HoldsJob(w, r)' => HoldsJob(w, r)
<1> USE DEF QueueInv, QueueTypeOK, HoldsJob, Final, FinalStatuses
<1>1. CASE UNCHANGED queueVars
  BY <1>1 DEF queueVars
<1>2. ASSUME NEW q \in Runs, NEW e \in StatusEvents \cup InputEvents, AppendStep(q, e)
      PROVE  NotGained
  BY <1>2, StatusAfterType DEF AppendStep, AppendEvent, Statuses, Unfinished
<1>3. ASSUME NEW v \in Workers, RecoverLeases(BeatLease(v))
      PROVE  NotGained
  BY <1>3 DEF RecoverLeases, Taken, OwnersWithout
<1>4. ASSUME NEW v, BeatStep(v)
      PROVE  NotGained
  BY <1>4 DEF BeatStep
<1>5. ASSUME NEW v \in Workers, NEW q \in Runs, ClaimNextJob(v, q)
      PROVE  ClaimNextJob(w, r)
  <2>1. CASE q # r
    BY <1>5, <2>1 DEF ClaimNextJob
  <2>2. CASE q = r
    BY <1>5, <2>2 DEF ClaimNextJob
  <2>3. QED
    BY <2>1, <2>2
<1>6. ASSUME NEW q \in Runs, CancelQueuedJob(q)
      PROVE  NotGained
  BY <1>6 DEF CancelQueuedJob
<1>7. ASSUME NEW v \in Workers, RequeueStep(v)
      PROVE  NotGained
  BY <1>7 DEF RequeueStep, RequeueRunningJobs, Taken, OwnersWithout
<1>8. ASSUME NEW v \in Workers, NEW late \in SUBSET Runs, NEW fs \in Firsts,
             NEW js \in JobSets, NEW ls \in Leases, OrphanStep(v, late, fs, js, ls)
      PROVE  NotGained
  BY <1>8 DEF OrphanStep, Left, Firsts, JobSets, Leases, FailOrphansAndRecover, Unfinished, Jobs, Taken, OrphanFate, OwnersWithout
<1>9. ASSUME NEW q \in Runs, ExpireStep(q)
      PROVE  NotGained
  BY <1>9 DEF ExpireStep
<1>10. ASSUME NEW q \in Runs, CreateStep(q)
       PROVE  NotGained
  BY <1>10 DEF CreateStep, StoreCreateRun
<1>11. ASSUME NEW q \in Runs, EnqueueStep(q)
       PROVE  NotGained
  BY <1>11 DEF EnqueueStep, StoreEnqueueRun
<1>12. QED
  BY <1>1, <1>2, <1>3, <1>4, <1>5, <1>6, <1>7, <1>8, <1>9, <1>10, <1>11
  DEF QueueStep, LaterStep, QuietStep
=============================================================================
