-------------------------- MODULE RunSchedulerProofs --------------------------
(***************************************************************************)
(* What RunScheduler guarantees for any number of runs, workers, threads,  *)
(* crashes and restarts.  Every step of it is one section of RunStore      *)
(* (QueueStep) plus what the threads remember between sections, so the     *)
(* results about the queue come from RunStoreProofs, and what is proved    *)
(* here is that the threads call the sections as QueueStep demands.        *)
(***************************************************************************)
EXTENDS RunScheduler, RunStoreProofs

(* What a thread remembers is about a run that exists: nobody cancels,     *)
(* executes or posts for a run before create_run has stored it, and a run  *)
(* that is not yet enqueued has no job.                                    *)
ClientsKnow ==
  \A r \in Runs :
    /\ creating[r] = "no" <=> status[r] = "absent"
    /\ creating[r] = "created" => job[r] = "none"
    /\ cancelling[r] # "idle" => status[r] # "absent"

AttemptsKnow ==
  \A x \in Attempts :
    /\ by[x] # NoWorker => status[RunOf(x)] # "absent"
    /\ pc[x] # "none" \/ turn[x] # "none" \/ timer[x] # "off" => by[x] # NoWorker
    /\ \A e \in StatusEvents : <<x, e>> \in posts => by[x] # NoWorker

ClaimsKnow ==
  \A c \in Claimers :
    /\ claim[c].pc # "idle" => claim[c].worker \in Remote
    /\ claim[c].attempt # NoAttempt => by[claim[c].attempt] # NoWorker

ThreadInv ==
  /\ WorkerTypeOK /\ SchedulerTypeOK
  /\ ClientsKnow /\ AttemptsKnow /\ ClaimsKnow

IInv == QueueInv /\ ThreadInv
-----------------------------------------------------------------------------
(* The control plane starts with no run and no thread.                     *)
LEMMA InvInit == Init => IInv
<1> SUFFICES ASSUME Init PROVE IInv
  OBVIOUS
<1> USE StoreAssumption, SchedulerAssumption DEF Init
<1>1. QueueInv
  BY QueueInvInit
<1>2. WorkerTypeOK /\ SchedulerTypeOK
  BY DEF WorkerTypeOK, SchedulerTypeOK, ClaimStates, ThreadStates, IdleClaim
<1>3. ClientsKnow /\ AttemptsKnow /\ ClaimsKnow
  BY DEF ClientsKnow, AttemptsKnow, ClaimsKnow, StoreInit, IdleClaim
<1>4. QED
  BY <1>1, <1>2, <1>3 DEF IInv, ThreadInv

(* A step that neither creates a run nor gives it its job only has to      *)
(* account for what it changes itself.                                     *)
LEMMA CreateKeeps ==
  ASSUME IInv, NEW r \in Runs, CreateRun(r)
  PROVE  QueueStep /\ ThreadInv'
<1> USE DEF IInv, ThreadInv, CreateRun, StoreCreateRun, workerVars, drainVars, execVars, faultVars
<1>1. QueueStep
  BY DEF QueueStep, CreateStep
<1>2. WorkerTypeOK' /\ SchedulerTypeOK'
  BY DEF WorkerTypeOK, SchedulerTypeOK
<1>3. ClientsKnow'
  BY DEF ClientsKnow, SchedulerTypeOK, QueueInv, QueueTypeOK, Beginnings
<1>4. AttemptsKnow' /\ ClaimsKnow'
  BY DEF AttemptsKnow, ClaimsKnow, QueueInv, QueueTypeOK, SchedulerTypeOK, Attempts, RunOf
<1>5. QED
  BY <1>1, <1>2, <1>3, <1>4

(* create_run goes on to enqueue_run only once it has made the run.        *)
LEMMA EnqueueKeeps ==
  ASSUME IInv, NEW r \in Runs, EnqueueRun(r)
  PROVE  QueueStep /\ ThreadInv'
<1> USE DEF IInv, ThreadInv, EnqueueRun, workerVars, drainVars, execVars, faultVars
<1>1. EnqueueStep(r)
  BY DEF EnqueueStep, ClientsKnow
<1>2. QueueStep
  BY <1>1 DEF QueueStep
<1>3. WorkerTypeOK' /\ SchedulerTypeOK'
  BY DEF WorkerTypeOK, SchedulerTypeOK
<1>4. ClientsKnow' /\ AttemptsKnow' /\ ClaimsKnow'
  BY DEF ClientsKnow, AttemptsKnow, ClaimsKnow, SchedulerTypeOK, StoreEnqueueRun,
         QueueInv, QueueTypeOK
<1>5. QED
  BY <1>2, <1>3, <1>4
-----------------------------------------------------------------------------
(* The steps of a client's request.                                        *)
LEMMA QuietKeepsPresence ==
  ASSUME QueueInv, QuietStep, NEW r \in Runs
  PROVE  /\ status'[r] = "absent" <=> status[r] = "absent"
         /\ job'[r] = "none" <=> job[r] = "none"
  BY LaterKeepsPresence DEF LaterStep

(* run.queued follows in a section of its own.                             *)
LEMMA AnnounceKeeps ==
  ASSUME IInv, NEW r \in Runs, AnnounceQueued(r)
  PROVE  QuietStep /\ ThreadInv'
<1> USE DEF IInv, ThreadInv, AnnounceQueued, workerVars, drainVars, execVars, faultVars
<1>1. AppendStep(r, "run.queued")
  BY DEF AppendStep, ClientsKnow
<1>2. QuietStep
  BY <1>1 DEF QuietStep, StatusEvents
<1>3. WorkerTypeOK' /\ SchedulerTypeOK'
  BY DEF WorkerTypeOK, SchedulerTypeOK
<1>4. ClientsKnow' /\ AttemptsKnow' /\ ClaimsKnow'
  BY <1>2, QuietKeepsPresence
  DEF ClientsKnow, AttemptsKnow, ClaimsKnow, SchedulerTypeOK, Attempts, RunOf
<1>5. QED
  BY <1>2, <1>3, <1>4

(* A refused input.                                                        *)
LEMMA RejectKeeps ==
  ASSUME IInv, NEW r \in Runs, RejectInput(r)
  PROVE  QuietStep /\ ThreadInv'
<1> USE DEF IInv, ThreadInv, RejectInput, workerVars, clientVars, drainVars, execVars, faultVars
<1>1. AppendStep(r, "input.rejected")
  BY DEF AppendStep
<1>2. QuietStep
  BY <1>1 DEF QuietStep, InputEvents
<1>3. WorkerTypeOK' /\ SchedulerTypeOK'
  BY DEF WorkerTypeOK, SchedulerTypeOK
<1>4. ClientsKnow' /\ AttemptsKnow' /\ ClaimsKnow'
  BY <1>2, QuietKeepsPresence
  DEF ClientsKnow, AttemptsKnow, ClaimsKnow, SchedulerTypeOK, Attempts, RunOf
<1>5. QED
  BY <1>2, <1>3, <1>4

(* The sections of cancel: all but cancel_job are quiet.                   *)
LEMMA CancelKeeps ==
  ASSUME IInv, NEW r \in Runs,
         \/ CancelCheck(r) \/ CancelJob(r) \/ CancelDequeued(r)
         \/ CancelHeld(r) \/ CancelRequest(r) \/ CancelAdapter(r)
  PROVE  /\ QuietStep \/ CancelJob(r)
         /\ LaterStep /\ ThreadInv'
<1> USE DEF IInv, ThreadInv
<1>1. LaterStep /\ (QuietStep \/ CancelJob(r))
  <2>1. CASE CancelCheck(r) \/ CancelHeld(r) \/ CancelRequest(r)
    BY <2>1 DEF LaterStep, QuietStep, CancelCheck, CancelHeld, CancelRequest
  <2>2. CASE CancelJob(r)
    BY <2>2 DEF LaterStep, QuietStep, CancelJob
  <2>3. CASE CancelDequeued(r) \/ CancelAdapter(r)
    <3>1. AppendStep(r, "run.cancelled")
      BY <2>3 DEF AppendStep, ClientsKnow, CancelDequeued, CancelAdapter
    <3>2. QED
      BY <3>1 DEF LaterStep, QuietStep, StatusEvents, TerminalRunEvents
  <2>4. QED
    BY <2>1, <2>2, <2>3
<1>2. /\ cancelling' \in [Runs -> {"idle", "checked", "dequeued", "held", "request",
                                  "adapter", "done", "lost"}]
      /\ asked' \in [Runs -> BOOLEAN] /\ wake' \in BOOLEAN
      /\ stopped' \subseteq Workers \X Runs
      /\ UNCHANGED <<workerVars, creating, drainVars, claim, by, pc, turn, timer, posts,
                     faultVars>>
      /\ \A q \in Runs : cancelling'[q] # "idle" => cancelling[q] # "idle" \/ status[q] # "absent"
  <2> USE DEF SchedulerTypeOK, workerVars, drainVars, execVars, faultVars
  <2>1. CASE CancelCheck(r)
    BY <2>1 DEF CancelCheck
  <2>2. CASE CancelJob(r)
    BY <2>2 DEF CancelJob
  <2>3. CASE CancelDequeued(r)
    BY <2>3 DEF CancelDequeued
  <2>4. CASE CancelHeld(r)
    BY <2>4 DEF CancelHeld
  <2>5. CASE CancelRequest(r)
    BY <2>5 DEF CancelRequest
  <2>6. CASE CancelAdapter(r)
    BY <2>6, SchedulerAssumption DEF CancelAdapter
  <2>7. QED
    BY <2>1, <2>2, <2>3, <2>4, <2>5, <2>6
<1>3. WorkerTypeOK' /\ SchedulerTypeOK'
  BY <1>2 DEF WorkerTypeOK, SchedulerTypeOK, workerVars, drainVars, faultVars
<1>4. ClientsKnow' /\ AttemptsKnow' /\ ClaimsKnow'
  BY <1>1, <1>2, LaterKeepsPresence
  DEF ClientsKnow, AttemptsKnow, ClaimsKnow, SchedulerTypeOK, Attempts, RunOf
<1>5. QED
  BY <1>1, <1>3, <1>4
-----------------------------------------------------------------------------
(* The scheduler's steps.                                                  *)
LEMMA BeatTypes ==
  ASSUME WorkerTypeOK, NEW w, wstatus' = [wstatus EXCEPT ![w] = BeatStatus(w)],
         UNCHANGED <<desired, told>>
  PROVE  WorkerTypeOK'
  BY DEF WorkerTypeOK, BeatStatus

(* _drain_queue claims for the process and starts a thread for the         *)
(* attempt.                                                                *)
LEMMA DrainTakeKeeps ==
  ASSUME IInv, NEW d \in Drainers, DrainTake(d)
  PROVE  QuietStep /\ ThreadInv'
<1> USE DEF IInv, ThreadInv, workerVars, clientVars, faultVars
<1>1. QuietStep
  BY SchedulerAssumption DEF DrainTake, QuietStep, SchedulerTypeOK
<1>2. /\ drainer' \in [Drainers -> {"idle", "check", "take"}]
      /\ schedulerLock' \in Drainers \cup {NoDrainer}
      /\ by' \in [Attempts -> Workers \cup {NoWorker}]
      /\ pc' \in [Attempts -> ThreadStates]
      /\ \A x \in Attempts :
           /\ by[x] # NoWorker => by'[x] # NoWorker
           /\ by'[x] # NoWorker => by[x] # NoWorker \/ status[RunOf(x)] # "absent"
           /\ pc'[x] # "none" => pc[x] # "none" \/ by'[x] # NoWorker
  <2> USE DEF SchedulerTypeOK
  <2>1. CASE ~CanClaim(self) /\ DrainLeave(d) /\ UNCHANGED <<queueVars, by, pc>>
    BY <2>1 DEF DrainLeave
  <2>2. ASSUME NEW r \in Runs, ClaimNextJob(self, r),
               by' = [by EXCEPT ![<<r, attempts[r] + 1>>] = self],
               pc' = [pc EXCEPT ![<<r, attempts[r] + 1>>] = "claimed"],
               drainer' = [drainer EXCEPT ![d] = "check"], UNCHANGED schedulerLock
        PROVE  <1>2
    <3>1. status[r] # "absent"
      BY <2>2 DEF ClaimNextJob, Claimable, QueueInv, Beginnings
    <3>2. self \in Workers /\ self # NoWorker
      BY StoreAssumption, SchedulerAssumption
    <3> DEFINE y == <<r, attempts[r] + 1>>
    <3>3. RunOf(y) = r
      BY DEF RunOf
    <3>4. /\ by' = [by EXCEPT ![y] = self]
          /\ pc' = [pc EXCEPT ![y] = "claimed"]
      BY <2>2
    <3> HIDE DEF y
    <3>5. /\ drainer' \in [Drainers -> {"idle", "check", "take"}]
          /\ schedulerLock' \in Drainers \cup {NoDrainer}
      BY <2>2
    <3>6. /\ by' \in [Attempts -> Workers \cup {NoWorker}]
          /\ \A x \in Attempts :
               /\ by[x] # NoWorker => by'[x] # NoWorker
               /\ by'[x] # NoWorker => by[x] # NoWorker \/ status[RunOf(x)] # "absent"
      BY <3>1, <3>2, <3>3, <3>4
    <3>7. /\ pc' \in [Attempts -> ThreadStates]
          /\ \A x \in Attempts : pc'[x] # "none" => pc[x] # "none" \/ by'[x] # NoWorker
      BY <3>2, <3>4 DEF ThreadStates
    <3>8. QED
      BY <3>5, <3>6, <3>7
  <2>3. QED
    BY <2>1, <2>2 DEF DrainTake
<1>3. UNCHANGED <<workerVars, clientVars, claim, turn, timer, posts, stopped, faultVars>>
  BY DEF DrainTake
<1>4. WorkerTypeOK' /\ SchedulerTypeOK'
  BY <1>2, <1>3 DEF WorkerTypeOK, SchedulerTypeOK
<1>5. ClientsKnow'
  BY <1>1, <1>3, QuietKeepsPresence DEF ClientsKnow
<1>6. AttemptsKnow'
  BY <1>1, <1>2, <1>3, QuietKeepsPresence DEF AttemptsKnow, Attempts, RunOf
<1>7. ClaimsKnow'
  BY <1>2, <1>3 DEF ClaimsKnow, SchedulerTypeOK, ClaimStates
<1>8. QED
  BY <1>1, <1>4, <1>5, <1>6, <1>7

(* The heartbeat thread.                                                   *)
LEMMA TickKeeps ==
  ASSUME IInv, HeartbeatTick
  PROVE  QuietStep /\ ThreadInv'
<1> USE DEF IInv, ThreadInv, HeartbeatTick
<1>1. QuietStep
  BY SchedulerAssumption DEF HeartbeatAndRecover, QuietStep, SchedulerTypeOK
<1>2. WorkerTypeOK' /\ SchedulerTypeOK'
  BY BeatTypes DEF HeartbeatAndRecover, SchedulerTypeOK, drainVars, execVars, faultVars
<1>3. ClientsKnow' /\ AttemptsKnow' /\ ClaimsKnow'
  BY <1>1, QuietKeepsPresence
  DEF ClientsKnow, AttemptsKnow, ClaimsKnow, execVars, Attempts, RunOf
<1>4. QED
  BY <1>1, <1>2, <1>3

(* _drain_queue up to its claim.                                           *)
LEMMA DrainKeeps ==
  ASSUME IInv, NEW d \in Drainers, DrainEnter(d) \/ DrainCheck(d)
  PROVE  QuietStep /\ ThreadInv'
<1> USE DEF IInv, ThreadInv
<1>1. QuietStep
  BY SchedulerAssumption
  DEF DrainEnter, DrainCheck, HeartbeatAndRecover, QuietStep, SchedulerTypeOK
<1>2. /\ WorkerTypeOK'
      /\ wake' \in BOOLEAN
      /\ drainer' \in [Drainers -> {"idle", "check", "take"}]
      /\ schedulerLock' \in Drainers \cup {NoDrainer}
      /\ UNCHANGED <<creating, cancelling, asked, claim, by, execVars, faultVars>>
  <2> USE DEF SchedulerTypeOK, clientVars, drainVars
  <2>1. CASE DrainEnter(d)
    BY <2>1, BeatTypes DEF DrainEnter, HeartbeatAndRecover
  <2>2. CASE DrainCheck(d)
    BY <2>2 DEF DrainCheck, DrainLeave, workerVars, WorkerTypeOK
  <2>3. QED
    BY <2>1, <2>2
<1>3. WorkerTypeOK' /\ SchedulerTypeOK'
  BY <1>2 DEF SchedulerTypeOK, execVars, faultVars
<1>4. ClientsKnow' /\ AttemptsKnow' /\ ClaimsKnow'
  BY <1>1, <1>2, QuietKeepsPresence
  DEF ClientsKnow, AttemptsKnow, ClaimsKnow, execVars, faultVars, Attempts, RunOf
<1>5. QED
  BY <1>1, <1>3, <1>4
-----------------------------------------------------------------------------
(* The steps of an attempt change what is remembered of that attempt only. *)
AttemptFrame(x) ==
  /\ pc' \in [Attempts -> ThreadStates]
  /\ turn' \in [Attempts -> {"none", "working", "finishing", "over"}]
  /\ timer' \in [Attempts -> {"off", "armed", "fired"}]
  /\ posts' \subseteq Attempts \X StatusEvents
  /\ stopped' \subseteq Workers \X Runs
  /\ wake' \in BOOLEAN
  /\ \A y \in Attempts \ {x} :
       pc'[y] = pc[y] /\ turn'[y] = turn[y] /\ timer'[y] = timer[y]
  /\ \A y \in Attempts \ {x}, e \in StatusEvents : <<y, e>> \in posts' => <<y, e>> \in posts
  /\ UNCHANGED <<workerVars, creating, cancelling, asked, drainVars, claim, by, faultVars>>

(* Such a step keeps the invariant when its section is quiet.              *)
LEMMA FrameKeeps ==
  ASSUME IInv, QuietStep, NEW x \in Attempts, by[x] # NoWorker, AttemptFrame(x)
  PROVE  ThreadInv'
<1> USE DEF IInv, ThreadInv, AttemptFrame
<1>1. WorkerTypeOK' /\ SchedulerTypeOK'
  BY DEF WorkerTypeOK, SchedulerTypeOK, workerVars, drainVars, faultVars
<1>2. ClientsKnow'
  BY QuietKeepsPresence DEF ClientsKnow
<1>3. AttemptsKnow'
  BY QuietKeepsPresence DEF AttemptsKnow, Attempts, RunOf
<1>4. ClaimsKnow'
  BY DEF ClaimsKnow
<1>5. QED
  BY <1>1, <1>2, <1>3, <1>4

(* A thread of an attempt appends to a run that exists.                    *)
LEMMA AttemptAppends ==
  ASSUME IInv, NEW x \in Attempts, by[x] # NoWorker, NEW e \in StatusEvents,
         AppendEvent(RunOf(x), e)
  PROVE  QuietStep
<1>1. RunOf(x) \in Runs
  BY DEF Attempts, RunOf
<1>2. AppendStep(RunOf(x), e)
  BY DEF AppendStep, IInv, ThreadInv, AttemptsKnow
<1>3. QED
  BY <1>1, <1>2 DEF QuietStep

(* The threads of this process, its watchdogs, and every prompt thread.    *)
LEMMA LocalKeeps ==
  ASSUME IInv, NEW x \in Attempts,
         \/ LocalBegin(x) \/ LocalStart(x) \/ LocalPrompt(x) \/ LocalFinish(x)
         \/ TurnEnd(x) \/ TimerFire(x) \/ TimerCancel(x)
  PROVE  QuietStep /\ ThreadInv'
<1> USE DEF IInv, ThreadInv
<1>1. by[x] # NoWorker
  BY DEF AttemptsKnow, LocalBegin, LocalStart, LocalPrompt, LocalFinish, TurnEnd,
         TimerFire, TimerCancel
<1>2. RunOf(x) \in Runs /\ by[x] \in Workers
  BY <1>1 DEF Attempts, RunOf, SchedulerTypeOK
<1>3. QuietStep
  BY <1>1, AttemptAppends
  DEF QuietStep, LocalBegin, LocalStart, LocalPrompt, LocalFinish, TurnEnd, TimerFire,
      TimerCancel, StatusEvents, TerminalRunEvents
<1>4. AttemptFrame(x)
  <2> USE DEF AttemptFrame, SchedulerTypeOK, ThreadStates, clientVars
  <2>1. CASE LocalBegin(x)
    BY <2>1 DEF LocalBegin
  <2>2. CASE LocalStart(x)
    BY <2>2 DEF LocalStart
  <2>3. CASE LocalPrompt(x)
    BY <2>3 DEF LocalPrompt
  <2>4. CASE LocalFinish(x)
    BY <2>4 DEF LocalFinish
  <2>5. CASE TurnEnd(x)
    BY <2>5 DEF TurnEnd
  <2>6. CASE TimerFire(x)
    BY <2>6 DEF TimerFire
  <2>7. CASE TimerCancel(x)
    BY <1>2, <2>7 DEF TimerCancel
  <2>8. QED
    BY <2>1, <2>2, <2>3, <2>4, <2>5, <2>6, <2>7
<1>5. QED
  BY <1>1, <1>3, <1>4, FrameKeeps

(* The posts of a daemon.                                                  *)
LEMMA RemotePostKeeps ==
  ASSUME IInv, NEW x \in Attempts, RemoteStart(x) \/ RemoteCancel(x) \/ RemoteFail(x)
  PROVE  QuietStep /\ ThreadInv'
<1> USE DEF IInv, ThreadInv
<1>1. PICK at \in {"claimed", "cancelling", "failing"}, e \in StatusEvents,
           refused \in {"failing", "gone"} : RemotePost(x, at, e, refused)
  BY DEF RemoteStart, RemoteCancel, RemoteFail, StatusEvents, TerminalRunEvents
<1>2. by[x] # NoWorker
  BY <1>1 DEF AttemptsKnow, RemotePost
<1>3. QuietStep
  BY <1>1 DEF QuietStep, RemotePost
<1>4. AttemptFrame(x)
  BY <1>1 DEF AttemptFrame, SchedulerTypeOK, ThreadStates, RemotePost, Post, clientVars
<1>5. QED
  BY <1>2, <1>3, <1>4, FrameKeeps

(* The other steps of a daemon, and the appends it is owed.                *)
LEMMA RemoteKeeps ==
  ASSUME IInv, NEW x \in Attempts,
         \/ RemotePrompt(x) \/ RemoteFinish(x) \/ RemoteStop(x) \/ PostTimeout(x)
         \/ \E e \in StatusEvents : AppendPosted(x, e)
  PROVE  QuietStep /\ ThreadInv'
<1> USE DEF IInv, ThreadInv
<1>1. by[x] # NoWorker
  BY DEF AttemptsKnow, RemotePrompt, RemoteFinish, RemoteStop, PostTimeout, AppendPosted
<1>2. RunOf(x) \in Runs /\ by[x] \in Workers
  BY <1>1 DEF Attempts, RunOf, SchedulerTypeOK
<1>3. QuietStep
  BY <1>1, AttemptAppends
  DEF QuietStep, RemotePrompt, RemoteFinish, RemoteStop, PostTimeout, AppendPosted
<1>4. AttemptFrame(x)
  <2> USE DEF AttemptFrame, SchedulerTypeOK, ThreadStates, clientVars
  <2>1. CASE RemotePrompt(x)
    BY <2>1 DEF RemotePrompt
  <2>2. CASE RemoteFinish(x)
    BY <2>2 DEF RemoteFinish, Post, StatusEvents, TerminalRunEvents
  <2>3. CASE RemoteStop(x)
    BY <1>2, <2>3 DEF RemoteStop
  <2>4. CASE PostTimeout(x)
    BY <2>4 DEF PostTimeout
  <2>5. ASSUME NEW e \in StatusEvents, AppendPosted(x, e)
        PROVE  AttemptFrame(x)
    <3>1. CASE e \in TerminalRunEvents /\ wake' = TRUE /\ pc' = [pc EXCEPT ![x] = "gone"]
      BY <2>5, <3>1 DEF AppendPosted
    <3>2. CASE /\ e = "run.started"
               /\ pc' = [pc EXCEPT ![x] = IF @ = "posted" THEN "started" ELSE @]
               /\ UNCHANGED wake
      BY <2>5, <3>2 DEF AppendPosted
    <3>3. QED
      BY <2>5, <3>1, <3>2 DEF AppendPosted
  <2>6. QED
    BY <2>1, <2>2, <2>3, <2>4, <2>5
<1>5. QED
  BY <1>1, <1>3, <1>4, FrameKeeps
-----------------------------------------------------------------------------
(* The steps of a claim request, and a heartbeat.                          *)
LEMMA ClaimKeeps ==
  ASSUME IInv, NEW c \in Claimers,
         \/ \E w \in Remote : ClaimRequest(c, w)
         \/ ClaimCheck(c) \/ ClaimRead(c) \/ ClaimRespond(c)
  PROVE  QuietStep /\ ThreadInv'
<1> USE DEF IInv, ThreadInv
<1>1. QuietStep
  <2>1. ASSUME NEW w \in Remote, ClaimRequest(c, w)
        PROVE  QuietStep
    BY <2>1 DEF ClaimRequest, HeartbeatAndRecover, QuietStep, Remote
  <2>2. CASE ClaimCheck(c)
    BY <2>2 DEF ClaimCheck, QuietStep
  <2>5. CASE ClaimRead(c)
    BY <2>5 DEF ClaimRead, QuietStep
  <2>3. CASE ClaimRespond(c)
    <3>1. claim[c].worker \in Workers \cup {NoWorker}
      BY DEF SchedulerTypeOK, ClaimStates
    <3>2. BeatStep(claim[c].worker)
      BY <2>3 DEF ClaimRespond, HeartbeatWorker, BeatStep
    <3>3. QED
      BY <3>1, <3>2 DEF QuietStep
  <2>4. QED
    BY <2>1, <2>2, <2>3, <2>5
<1>2. /\ WorkerTypeOK'
      /\ claim' \in [Claimers -> ClaimStates]
      /\ ClaimsKnow'
      /\ pc' \in [Attempts -> ThreadStates]
      /\ \A x \in Attempts : pc'[x] # "none" => pc[x] # "none" \/ by[x] # NoWorker
      /\ UNCHANGED <<clientVars, drainVars, by, turn, timer, posts, stopped, faultVars>>
  <2> USE DEF SchedulerTypeOK, ClaimStates, ThreadStates, ClaimsKnow, IdleClaim, execVars
  <2>1. ASSUME NEW w \in Remote, ClaimRequest(c, w)
        PROVE  <1>2
    BY <2>1, BeatTypes DEF ClaimRequest, HeartbeatAndRecover, Remote
  <2>2. CASE ClaimCheck(c)
    <3>1. CASE claim' = [claim EXCEPT ![c] = IdleClaim]
      BY <2>2, <3>1 DEF ClaimCheck, WorkerTypeOK, workerVars
    <3>2. CASE claim' = [claim EXCEPT ![c].pc = "take"] /\ claim[c].pc = "check"
      BY <2>2, <3>2 DEF ClaimCheck, WorkerTypeOK, workerVars
    <3>3. QED
      BY <2>2, <3>1, <3>2 DEF ClaimCheck
  <2>5. CASE ClaimRead(c)
    <3>1. claim[c].worker \in Workers
      BY <2>5 DEF ClaimRead, Remote
    <3> DEFINE seen == desired[claim[c].worker]
    <3>2. /\ seen \in {"unset", "active", "draining"}
          /\ claim' = [claim EXCEPT ![c] = [@ EXCEPT !.pc = "respond", !.seen = seen]]
          /\ claim[c].pc = "read"
      BY <2>5, <3>1 DEF ClaimRead, WorkerTypeOK
    <3>3. UNCHANGED <<workerVars, clientVars, drainVars, by, execVars, faultVars>>
      BY <2>5 DEF ClaimRead
    <3> HIDE DEF seen
    <3>4. /\ claim[c] \in ClaimStates
          /\ claim'[c] = [claim[c] EXCEPT !.pc = "respond", !.seen = seen]
          /\ \A b \in Claimers \ {c} : claim'[b] = claim[b]
      BY <3>2
    <3>7. /\ claim'[c] \in ClaimStates
          /\ claim'[c].worker = claim[c].worker /\ claim'[c].attempt = claim[c].attempt
      BY <3>2, <3>4
    <3>5. claim' \in [Claimers -> ClaimStates] /\ ClaimsKnow'
      BY <3>2, <3>3, <3>4, <3>7
    <3>6. QED
      BY <3>3, <3>5 DEF WorkerTypeOK, workerVars
  <2>3. CASE ClaimRespond(c)
    <3>1. WorkerTypeOK'
      BY <2>3 DEF ClaimRespond, HeartbeatWorker, MetadataMerged, WorkerTypeOK
    <3>2. QED
      BY <2>3, <3>1 DEF ClaimRespond, HeartbeatWorker
  <2>4. QED
    BY <2>1, <2>2, <2>3, <2>5
<1>3. WorkerTypeOK' /\ SchedulerTypeOK'
  BY <1>2 DEF SchedulerTypeOK, clientVars, drainVars, faultVars
<1>4. ClientsKnow'
  BY <1>1, <1>2, QuietKeepsPresence DEF ClientsKnow, clientVars
<1>5. AttemptsKnow'
  BY <1>1, <1>2, QuietKeepsPresence DEF AttemptsKnow, Attempts, RunOf
<1>6. QED
  BY <1>1, <1>2, <1>3, <1>4, <1>5

(* claim_remote_run claims for a daemon that has yet to hear of it.        *)
LEMMA ClaimTakeKeeps ==
  ASSUME IInv, NEW c \in Claimers, ClaimTake(c)
  PROVE  QuietStep /\ ThreadInv'
<1> USE DEF IInv, ThreadInv
<1> DEFINE w == claim[c].worker
<1>1. w \in Workers /\ w # NoWorker
  BY StoreAssumption DEF ClaimTake, ClaimsKnow, Remote
<1> HIDE DEF w
<1>2. CASE /\ claim' = [claim EXCEPT ![c].pc = "read"]
           /\ UNCHANGED <<queueVars, by>>
  <2>1. QuietStep
    BY <1>2 DEF QuietStep
  <2>2. UNCHANGED <<workerVars, clientVars, drainVars, execVars, faultVars>>
    BY DEF ClaimTake
  <2>3. claim' \in [Claimers -> ClaimStates] /\ ClaimsKnow'
    BY <1>2 DEF ClaimStates, ClaimsKnow, SchedulerTypeOK, ClaimTake
  <2>4. WorkerTypeOK' /\ SchedulerTypeOK'
    BY <1>2, <2>2, <2>3 DEF WorkerTypeOK, SchedulerTypeOK, workerVars, clientVars,
                            drainVars, execVars, faultVars
  <2>5. ClientsKnow' /\ AttemptsKnow'
    BY <1>2, <2>2 DEF ClientsKnow, AttemptsKnow, queueVars, clientVars, execVars
  <2>6. QED
    BY <2>1, <2>3, <2>4, <2>5
<1>3. ASSUME NEW r \in Runs, ClaimNextJob(w, r),
             by' = [by EXCEPT ![<<r, attempts[r] + 1>>] = w],
             claim' = [claim EXCEPT ![c].pc = "read",
                                    ![c].attempt = <<r, attempts[r] + 1>>]
      PROVE  QuietStep /\ ThreadInv'
  <2> DEFINE y == <<r, attempts[r] + 1>>
  <2>1. QuietStep
    BY <1>1, <1>3 DEF QuietStep
  <2>2. status[r] # "absent" /\ attempts[r] < MaxAttempts
    BY <1>3 DEF ClaimNextJob, Claimable, QueueInv, Beginnings, AttemptLeft
  <2>3. y \in Attempts /\ RunOf(y) = r
    BY <2>2, StoreAssumption DEF Attempts, RunOf, QueueInv, QueueTypeOK
  <2>4. /\ by' = [by EXCEPT ![y] = w]
        /\ claim' = [claim EXCEPT ![c].pc = "read", ![c].attempt = y]
    BY <1>3
  <2> HIDE DEF y
  <2>5. UNCHANGED <<workerVars, clientVars, drainVars, execVars, faultVars>>
    BY DEF ClaimTake
  <2>6. /\ by' \in [Attempts -> Workers \cup {NoWorker}]
        /\ by'[y] # NoWorker /\ \A x \in Attempts : by[x] # NoWorker => by'[x] # NoWorker
    BY <1>1, <2>3, <2>4 DEF SchedulerTypeOK
  <2>7. /\ claim' \in [Claimers -> ClaimStates]
        /\ claim'[c].worker = w /\ claim'[c].attempt = y
        /\ \A b \in Claimers \ {c} : claim'[b] = claim[b]
    <3>1. /\ claim[c] \in ClaimStates
          /\ claim'[c] = [claim[c] EXCEPT !.pc = "read", !.attempt = y]
          /\ \A b \in Claimers \ {c} : claim'[b] = claim[b]
      BY <2>4 DEF SchedulerTypeOK
    <3>2. claim'[c] \in ClaimStates /\ claim'[c].worker = w /\ claim'[c].attempt = y
      BY <2>3, <3>1 DEF ClaimStates, w
    <3>3. QED
      BY <2>4, <3>1, <3>2 DEF SchedulerTypeOK
  <2>8. WorkerTypeOK' /\ SchedulerTypeOK'
    BY <2>5, <2>6, <2>7 DEF WorkerTypeOK, SchedulerTypeOK, workerVars, clientVars,
                            drainVars, execVars, faultVars
  <2>9. ClientsKnow'
    BY <2>1, <2>5, QuietKeepsPresence DEF ClientsKnow, clientVars
  <2>10. AttemptsKnow'
    BY <1>1, <2>1, <2>2, <2>3, <2>4, <2>5, QuietKeepsPresence
    DEF AttemptsKnow, SchedulerTypeOK, execVars, Attempts, RunOf
  <2>11. ClaimsKnow'
    BY <2>3, <2>6, <2>7 DEF ClaimsKnow, SchedulerTypeOK, ClaimStates, ClaimTake, w
  <2>12. QED
    BY <2>1, <2>8, <2>9, <2>10, <2>11
<1>4. QED
  BY <1>2, <1>3 DEF ClaimTake, w

(* Heartbeats, operators and the passing of time touch no thread.          *)
LEMMA OperatorKeeps ==
  ASSUME IInv, NEW w \in Workers,
         RemoteHeartbeat(w) \/ DrainWorker(w) \/ ResumeWorker(w) \/ RetryWorkerRuns(w)
  PROVE  QuietStep /\ ThreadInv'
<1> USE DEF IInv, ThreadInv
<1>1. QuietStep
  <2>1. CASE RemoteHeartbeat(w)
    BY <2>1 DEF RemoteHeartbeat, HeartbeatAndRecover, QuietStep
  <2>2. CASE DrainWorker(w) \/ ResumeWorker(w)
    BY <2>2 DEF DrainWorker, ResumeWorker, QuietStep
  <2>3. CASE RetryWorkerRuns(w)
    BY <2>3 DEF RetryWorkerRuns, RequeueStep, QuietStep
  <2>4. QED
    BY <2>1, <2>2, <2>3
<1>2. /\ WorkerTypeOK'
      /\ wake' \in BOOLEAN
      /\ UNCHANGED <<creating, cancelling, asked, drainVars, claim, by, execVars, faultVars>>
  <2> USE DEF SchedulerTypeOK, WorkerTypeOK, workerVars, clientVars
  <2>1. CASE RemoteHeartbeat(w)
    BY <2>1, BeatTypes DEF RemoteHeartbeat, HeartbeatAndRecover
  <2>2. CASE DrainWorker(w)
    BY <2>2 DEF DrainWorker, SetWorkerState
  <2>3. CASE ResumeWorker(w)
    BY <2>3 DEF ResumeWorker, SetWorkerState
  <2>4. CASE RetryWorkerRuns(w)
    BY <2>4 DEF RetryWorkerRuns
  <2>5. QED
    BY <2>1, <2>2, <2>3, <2>4
<1>3. WorkerTypeOK' /\ SchedulerTypeOK'
  BY <1>2 DEF SchedulerTypeOK, drainVars, execVars, faultVars
<1>4. ClientsKnow' /\ AttemptsKnow' /\ ClaimsKnow'
  BY <1>1, <1>2, QuietKeepsPresence
  DEF ClientsKnow, AttemptsKnow, ClaimsKnow, execVars, Attempts, RunOf
<1>5. QED
  BY <1>1, <1>3, <1>4
-----------------------------------------------------------------------------
(* The passing of time, crashes and restarts.                              *)
LEMMA ExpireKeeps ==
  ASSUME IInv, NEW r \in Runs, LeaseExpires(r)
  PROVE  QuietStep /\ ThreadInv'
<1> USE DEF IInv, ThreadInv, LeaseExpires
<1>1. ExpireStep(r)
  BY DEF ExpireStep
<1>2. QuietStep
  BY <1>1 DEF QuietStep
<1>3. WorkerTypeOK' /\ SchedulerTypeOK'
  BY DEF WorkerTypeOK, SchedulerTypeOK, workerVars, clientVars, drainVars, execVars, faultVars
<1>4. ClientsKnow' /\ AttemptsKnow' /\ ClaimsKnow'
  BY DEF ClientsKnow, AttemptsKnow, ClaimsKnow, clientVars, execVars
<1>5. QED
  BY <1>2, <1>3, <1>4

(* A daemon that comes back knows of nothing.                              *)
LEMMA DaemonStartKeeps ==
  ASSUME IInv, NEW w \in Remote, DaemonStart(w)
  PROVE  QuietStep /\ ThreadInv'
<1> USE DEF IInv, ThreadInv, DaemonStart
<1>1. QuietStep
  BY DEF QuietStep
<1>2. WorkerTypeOK' /\ SchedulerTypeOK'
  BY DEF WorkerTypeOK, SchedulerTypeOK, workerVars, clientVars, drainVars, execVars
<1>3. ClientsKnow' /\ AttemptsKnow' /\ ClaimsKnow'
  BY DEF ClientsKnow, AttemptsKnow, ClaimsKnow, queueVars, clientVars, execVars
<1>4. QED
  BY <1>1, <1>2, <1>3

(* A crash ends threads and starts none.                                   *)
LEMMA DaemonCrashKeeps ==
  ASSUME IInv, NEW w \in Remote, DaemonCrash(w)
  PROVE  QuietStep /\ ThreadInv'
<1> USE DEF IInv, ThreadInv
<1>1. QuietStep
  BY DEF DaemonCrash, QuietStep
<1>2. up' \in [Remote -> BOOLEAN] /\ crashes' \in 0 .. MaxCrashes
  BY SchedulerAssumption DEF SchedulerTypeOK, DaemonCrash
<1>3. UNCHANGED <<queueVars, workerVars, clientVars, drainVars, by, timer, posts, self,
                  restarts>>
  BY DEF DaemonCrash
<1>4. claim' \in [Claimers -> ClaimStates] /\ ClaimsKnow'
  <2>1. ASSUME NEW c \in Claimers
        PROVE  /\ claim'[c] \in ClaimStates
               /\ claim'[c].pc = claim[c].pc
               /\ claim'[c].worker = claim[c].worker
               /\ claim'[c].attempt = claim[c].attempt
    BY DEF SchedulerTypeOK, ClaimStates, DaemonCrash
  <2>2. QED
    BY <1>3, <2>1 DEF ClaimsKnow, DaemonCrash
<1>5. /\ pc' \in [Attempts -> ThreadStates]
      /\ turn' \in [Attempts -> {"none", "working", "finishing", "over"}]
      /\ stopped' \subseteq Workers \X Runs
      /\ \A x \in Attempts : /\ pc'[x] # "none" => pc[x] # "none"
                             /\ turn'[x] # "none" => turn[x] # "none"
  BY DEF SchedulerTypeOK, ThreadStates, DaemonCrash, KillThreads
<1>6. WorkerTypeOK' /\ SchedulerTypeOK'
  BY <1>2, <1>3, <1>4, <1>5 DEF WorkerTypeOK, SchedulerTypeOK, workerVars, clientVars,
                                drainVars
<1>7. ClientsKnow'
  BY <1>3 DEF ClientsKnow, queueVars, clientVars
<1>8. AttemptsKnow'
  BY <1>3, <1>5 DEF AttemptsKnow, queueVars
<1>9. QED
  BY <1>1, <1>4, <1>6, <1>7, <1>8

(* What a stop leaves in the database, between two sections or inside one. *)
LEMMA StopLeaves ==
  ASSUME IInv, Restart
  PROVE  \E fs \in Firsts, js \in JobSets, ls \in Leases :
           StopAndStart(fs, js, ls) /\ Left(fs, js, ls)
<1> USE DEF IInv, QueueInv, QueueTypeOK, Firsts, JobSets, Leases
<1>1. CASE StopBetween
  BY <1>1 DEF StopBetween, Left
<1>2. ASSUME NEW r \in Runs, NEW e \in TerminalRunEvents, NEW closed \in BOOLEAN,
             StopInAppend(r, e, closed)
      PROVE  \E fs \in Firsts, js \in JobSets, ls \in Leases :
               StopAndStart(fs, js, ls) /\ Left(fs, js, ls)
  <2> DEFINE fs == CutFirst(r, e)
             js == CutJob(r, e, closed)
             ls == CutLease(r, closed)
  <2>1. EventStatus(e) \in FinalStatuses /\ StatusAfter(r, e) \in FinalStatuses
    BY EventStatusType DEF StatusEvents, InputEvents, TerminalRunEvents, StatusAfter, Final
  <2>2. fs \in Firsts /\ js \in JobSets /\ ls \in Leases
    BY <2>1 DEF CutFirst, CutJob, CutLease, Jobs
  <2>3. first[r] = "none" => ~Final(r)
    BY DEF OutcomeIsFirstTerminal
  <2>4. torn' = CutTorn(r) /\ StopAndStart(fs, js, ls)
    BY <1>2 DEF StopInAppend
  <2>5. Left(fs, js, ls)
    BY <2>1, <2>3, <2>4 DEF Left, CutFirst, CutJob, CutLease, CutTorn
  <2>6. QED
    BY <2>2, <2>4, <2>5
<1>3. QED
  BY <1>1, <1>2 DEF Restart

(* A restart ends the threads of the control plane and starts none.        *)
LEMMA RestartKeeps ==
  ASSUME IInv, Restart
  PROVE  QuietStep /\ ThreadInv'
<1> USE DEF IInv, ThreadInv
<1>1. PICK fs \in Firsts, js \in JobSets, ls \in Leases :
        StopAndStart(fs, js, ls) /\ Left(fs, js, ls)
  BY StopLeaves
<1>0. PICK w \in Locals,
           late \in SUBSET {r \in Runs : lease[r] = "live" /\ attempts[r] < MaxAttempts},
           stale \in SUBSET Workers :
        self' = w /\ FailOrphansAndRecover(w, late, fs, js, ls) /\ RegisterAndPrune(w, stale)
  BY <1>1 DEF StopAndStart
<1>2. QuietStep
  <2>1. w \in Workers /\ late \in SUBSET Runs /\ OrphanStep(w, late, fs, js, ls)
    BY <1>0, <1>1, SchedulerAssumption DEF OrphanStep
  <2>2. QED
    BY <2>1 DEF QuietStep
<1>3. /\ WorkerTypeOK' /\ self' \in Locals
      /\ restarts' \in 0 .. MaxRestarts /\ wake' \in BOOLEAN
      /\ schedulerLock' \in Drainers \cup {NoDrainer}
      /\ drainer' \in [Drainers -> {"idle", "check", "take"}]
  BY <1>0, <1>1, SchedulerAssumption DEF StopAndStart, WorkerTypeOK, SchedulerTypeOK, RegisterAndPrune
<1>4. /\ creating' \in [Runs -> {"no", "created", "enqueued", "done", "abandoned"}]
      /\ cancelling' \in [Runs -> {"idle", "checked", "dequeued", "held", "request",
                                  "adapter", "done", "lost"}]
      /\ \A r \in Runs : /\ creating'[r] = "no" <=> creating[r] = "no"
                         /\ creating'[r] # "created"
                         /\ cancelling'[r] # "idle" => cancelling[r] # "idle"
  BY <1>1 DEF StopAndStart, SchedulerTypeOK
<1>5. claim' \in [Claimers -> ClaimStates] /\ ClaimsKnow'
  BY <1>1 DEF StopAndStart, ClaimStates, IdleClaim, ClaimsKnow
<1>6. /\ pc' \in [Attempts -> ThreadStates]
      /\ \A x \in Attempts : pc'[x] # "none" => pc[x] # "none"
  BY <1>1 DEF StopAndStart, SchedulerTypeOK, ThreadStates
<1>7. /\ turn' \in [Attempts -> {"none", "working", "finishing", "over"}]
      /\ timer' = [x \in Attempts |-> "off"]
      /\ stopped' \subseteq Workers \X Runs /\ posts' = {}
      /\ \A x \in Attempts : turn'[x] # "none" => turn[x] # "none"
  BY <1>1 DEF StopAndStart, SchedulerTypeOK
<1>8. up' \in [Remote -> BOOLEAN] /\ UNCHANGED <<asked, by, crashes>>
  BY <1>1 DEF StopAndStart, SchedulerTypeOK
<1>9. SchedulerTypeOK'
  BY <1>3, <1>4, <1>5, <1>6, <1>7, <1>8 DEF SchedulerTypeOK
<1>10. ClientsKnow'
  <2>1. \A r \in Runs : status'[r] = "absent" <=> status[r] = "absent"
    BY <1>2, QuietKeepsPresence
  <2>2. QED
    BY <1>4, <2>1 DEF ClientsKnow
<1>11. AttemptsKnow'
  BY <1>2, <1>6, <1>7, <1>8, QuietKeepsPresence DEF AttemptsKnow, Attempts, RunOf
<1>12. QED
  BY <1>2, <1>3, <1>5, <1>9, <1>10, <1>11
-----------------------------------------------------------------------------
(* Every step is a section of the store, and keeps the invariant.          *)
LEMMA StepKeeps ==
  ASSUME IInv, Next
  PROVE  QueueStep /\ ThreadInv'
<1>1. CASE ClientStep
  BY <1>1, CreateKeeps, EnqueueKeeps, AnnounceKeeps, RejectKeeps, CancelKeeps
  DEF ClientStep, QueueStep, LaterStep
<1>2. CASE DrainStep
  <2>1. CASE HeartbeatTick
    BY <2>1, TickKeeps DEF QueueStep, LaterStep
  <2>2. ASSUME NEW d \in Drainers, DrainEnter(d) \/ DrainCheck(d) \/ DrainTake(d)
        PROVE  QueueStep /\ ThreadInv'
    BY <2>2, DrainKeeps, DrainTakeKeeps DEF QueueStep, LaterStep
  <2>3. QED
    BY <1>2, <2>1, <2>2 DEF DrainStep
<1>3. CASE AttemptStep
  BY <1>3, LocalKeeps, RemotePostKeeps, RemoteKeeps DEF AttemptStep, QueueStep, LaterStep
<1>4. CASE ClaimStep
  BY <1>4, ClaimKeeps, ClaimTakeKeeps DEF ClaimStep, QueueStep, LaterStep
<1>5. CASE OperatorStep
  BY <1>5, OperatorKeeps DEF OperatorStep, QueueStep, LaterStep
<1>6. CASE FaultStep
  BY <1>6, ExpireKeeps, DaemonCrashKeeps, DaemonStartKeeps, RestartKeeps
  DEF FaultStep, QueueStep, LaterStep
<1>7. CASE \E w \in Remote : RemoteHeartbeat(w)
  BY <1>7, OperatorKeeps DEF Remote, QueueStep, LaterStep
<1>8. QED
  BY <1>1, <1>2, <1>3, <1>4, <1>5, <1>6, <1>7 DEF Next

(* Nor does doing nothing.                                                 *)
LEMMA StutterKeeps ==
  ASSUME IInv, UNCHANGED vars
  PROVE  QueueStep /\ ThreadInv'
<1> USE DEF vars, workerVars, clientVars, drainVars, execVars, faultVars
<1>1. QueueStep
  BY DEF QueueStep, LaterStep, QuietStep
<1>2. WorkerTypeOK' /\ SchedulerTypeOK'
  BY DEF IInv, ThreadInv, WorkerTypeOK, SchedulerTypeOK
<1>3. ClientsKnow' /\ AttemptsKnow' /\ ClaimsKnow'
  BY DEF IInv, ThreadInv, ClientsKnow, AttemptsKnow, ClaimsKnow, queueVars
<1>4. QED
  BY <1>1, <1>2, <1>3 DEF ThreadInv

(* The invariant is inductive.                                             *)
LEMMA InvStep ==
  ASSUME IInv, [Next]_vars
  PROVE  QueueStep /\ IInv'
<1>1. QueueStep /\ ThreadInv'
  BY StepKeeps, StutterKeeps
<1>2. QED
  BY <1>1, QueueInvStep DEF IInv

(* At all times the queue is consistent and the threads know only runs     *)
(* that exist.                                                             *)
THEOREM Invariance == Spec => []IInv
<1>1. IInv /\ [Next]_vars => IInv'
  BY InvStep
<1>2. QED
  BY InvInit, <1>1, PTL DEF Spec
-----------------------------------------------------------------------------
(* Every variable of the store and of the threads keeps its type.          *)
THEOREM TypeCorrect == Spec => []TypeOK
<1>1. IInv => TypeOK
  BY DEF IInv, ThreadInv, QueueInv, TypeOK, StoreTypeOK
<1>2. QED
  BY <1>1, Invariance, PTL

(* The first terminal event decides a run, whoever posts the others.       *)
THEOREM FirstTerminalDecides == Spec => []OutcomeIsFirstTerminal
<1>1. IInv => OutcomeIsFirstTerminal
  BY DEF IInv, QueueInv
<1>2. QED
  BY <1>1, Invariance, PTL

(* Jobs, owners and leases agree.                                          *)
THEOREM LeasesAreKept == Spec => []LeaseCustody
<1>1. IInv => LeaseCustody
  BY DEF IInv, QueueInv
<1>2. QED
  BY <1>1, Invariance, PTL

(* Nothing revives a decided run or a finished job.                        *)
THEOREM OutcomesAreFinal == Spec => OutcomeIsFinal
<1>1. ASSUME IInv, [Next]_vars
      PROVE  [\A r \in Runs : /\ Final(r) => status'[r] = status[r]
                              /\ job[r] \in FinalStatuses => job'[r] = job[r]]_vars
  BY <1>1, InvStep, DecidedStays DEF IInv
<1>2. QED
  BY <1>1, Invariance, PTL DEF Spec, OutcomeIsFinal

(* The scheduler, its threads, daemons, crashes and restarts implement the *)
(* lifecycle that clients are promised.                                    *)
THEOREM Refinement == Spec => ImplementsLifecycle
<1>1. Init => Lifecycle!Init
  BY LifecycleInit DEF Init
<1>2. ASSUME IInv, [Next]_vars
      PROVE  [Lifecycle!Next]_(Lifecycle!vars)
  BY <1>2, InvStep, LifecycleStep DEF IInv
<1>3. QED
  BY <1>1, <1>2, Invariance, PTL DEF Spec, ImplementsLifecycle, Lifecycle!Spec
=============================================================================
