---------------------------- MODULE RunScheduler ----------------------------
(***************************************************************************)
(* RunManager's scheduling (runtime/cloud_agents_runtime/manager.py) and   *)
(* the remote worker daemon (worker.py) over the run queue of RunStore:    *)
(* who may run a run, who may say how it ended, and what is left of both   *)
(* when threads interleave, leases expire, daemons crash and the control   *)
(* plane restarts.                                                         *)
(*                                                                         *)
(* One action is one critical section under RunStore._lock together with   *)
(* the thread-local code around it.  A thread that passes several sections *)
(* carries a program counter: client requests (creating, cancelling), the  *)
(* scheduler (drainer), claim requests (claim), and, for every attempt at  *)
(* a run, its run thread (pc), its adapter's prompt thread (turn), its     *)
(* timeout watchdog (timer) and the event posts that the control plane has *)
(* accepted but not yet appended (posts).                                  *)
(***************************************************************************)
EXTENDS RunStore

CONSTANTS
  Locals,      \* worker ids of control-plane processes
  Capacity,    \* worker_capacity of every worker
  Timed,       \* runs that may outlast timeout_seconds (a daemon's default, too)
  Drainers,    \* threads that may call _drain_queue at the same time
  NoDrainer,
  Claimers,    \* server threads that may serve a claim at the same time
  NoAttempt,
  Punctual,    \* heartbeats of a live worker always arrive before the TTL
  Cancels,     \* runs a client may cancel
  Operated,    \* workers an operator may drain, resume and retry
  Revives,     \* a crashed daemon is started again under its worker id
  MaxCrashes,  \* bound on daemon crashes
  MaxRestarts  \* bound on control-plane restarts

Remote   == Workers \ Locals
Attempts == Runs \X (1 .. MaxAttempts)

ASSUME SchedulerAssumption ==
  /\ Locals \subseteq Workers /\ Locals # {}
  /\ Capacity \in [Workers -> Nat]
  /\ Timed \subseteq Runs /\ Cancels \subseteq Runs /\ Operated \subseteq Workers
  /\ Matches \subseteq Workers \X Runs
  /\ Locals \X Runs \subseteq Matches  \* _drain_queue claims without a predicate
  /\ NoDrainer \notin Drainers
  /\ NoAttempt \notin Attempts
  /\ {Punctual, Revives} \subseteq BOOLEAN
  /\ MaxCrashes \in Nat /\ MaxRestarts \in Nat

VARIABLES
  self,          \* RunManager.worker_id of the current process
  wake,          \* a thread is on its way into _drain_queue
  schedulerLock, \* RunManager._scheduler_lock
  drainer,       \* _drain_queue, per calling thread
  creating,      \* create_run, per run
  cancelling,    \* cancel, one request per run
  asked,         \* run.cancel_requested is in the run's log
  claim,         \* claim_remote_run, per serving thread
  by,            \* the worker an attempt was leased to
  pc, turn, timer, posts,
  stopped,       \* adapter._cancelled, per worker process
  up,            \* the remote daemons that are running
  crashes, restarts

clientVars == <<wake, creating, cancelling, asked>>
drainVars  == <<schedulerLock, drainer>>
execVars   == <<pc, turn, timer, posts, stopped>>
faultVars  == <<self, up, crashes, restarts>>
vars == <<queueVars, workerVars, clientVars, drainVars, claim, by, execVars, faultVars>>

RunOf(x) == x[1]

(* seen is the desired_state in the metadata a claim has read.             *)
IdleClaim == [pc |-> "idle", worker |-> NoWorker, attempt |-> NoAttempt,
              fresh |-> FALSE, seen |-> "unset"]

ClaimStates == [pc      : {"idle", "check", "take", "read", "respond"},
                worker  : Workers \cup {NoWorker},
                attempt : Attempts \cup {NoAttempt},
                fresh   : BOOLEAN,
                seen    : {"unset", "active", "draining"}]

ThreadStates == {"none", "claimed", "starting", "started", "running",
                 "posted", "cancelling", "failing", "gone"}

SchedulerTypeOK ==
  /\ self \in Locals
  /\ wake \in BOOLEAN
  /\ schedulerLock \in Drainers \cup {NoDrainer}
  /\ drainer \in [Drainers -> {"idle", "check", "take"}]
  /\ creating \in [Runs -> {"no", "created", "enqueued", "done", "abandoned"}]
  /\ cancelling \in [Runs -> {"idle", "checked", "dequeued", "held", "request",
                              "adapter", "done", "lost"}]
  /\ asked \in [Runs -> BOOLEAN]
  /\ claim \in [Claimers -> ClaimStates]
  /\ by \in [Attempts -> Workers \cup {NoWorker}]
  /\ pc \in [Attempts -> ThreadStates]
  /\ turn \in [Attempts -> {"none", "working", "finishing", "over"}]
  /\ timer \in [Attempts -> {"off", "armed", "fired"}]
  /\ posts \subseteq Attempts \X StatusEvents
  /\ stopped \subseteq Workers \X Runs
  /\ up \in [Remote -> BOOLEAN]
  /\ crashes \in 0 .. MaxCrashes
  /\ restarts \in 0 .. MaxRestarts

TypeOK == StoreTypeOK /\ SchedulerTypeOK

Init ==
  /\ StoreInit
  /\ self \in Locals
  /\ wstatus = [w \in Workers |-> IF w = self THEN "active" ELSE "unknown"]
  /\ desired = [w \in Workers |-> "unset"]
  /\ told = [w \in Workers |-> "active"]
  /\ wake = TRUE
  /\ schedulerLock = NoDrainer
  /\ drainer = [d \in Drainers |-> "idle"]
  /\ creating = [r \in Runs |-> "no"]
  /\ cancelling = [r \in Runs |-> "idle"]
  /\ asked = [r \in Runs |-> FALSE]
  /\ claim = [c \in Claimers |-> IdleClaim]
  /\ by = [x \in Attempts |-> NoWorker]
  /\ pc = [x \in Attempts |-> "none"]
  /\ turn = [x \in Attempts |-> "none"]
  /\ timer = [x \in Attempts |-> "off"]
  /\ posts = {}
  /\ stopped = {}
  /\ up = [w \in Remote |-> TRUE]
  /\ crashes = 0
  /\ restarts = 0
-----------------------------------------------------------------------------
(* RunManager.create_run: store.create_run, then enqueue_run's locked part,*)
(* then run.queued and a drain.                                            *)
CreateRun(r) ==
  /\ creating[r] = "no"
  /\ StoreCreateRun(r)
  /\ creating' = [creating EXCEPT ![r] = "created"]
  /\ UNCHANGED <<workerVars, wake, cancelling, asked, drainVars, claim, by,
                 execVars, faultVars>>

EnqueueRun(r) ==
  /\ creating[r] = "created"
  /\ StoreEnqueueRun(r)
  /\ creating' = [creating EXCEPT ![r] = "enqueued"]
  /\ UNCHANGED <<workerVars, wake, cancelling, asked, drainVars, claim, by,
                 execVars, faultVars>>

AnnounceQueued(r) ==
  /\ creating[r] = "enqueued"
  /\ AppendEvent(r, "run.queued")
  /\ creating' = [creating EXCEPT ![r] = "done"]
  /\ wake' = TRUE
  /\ UNCHANGED <<workerVars, cancelling, asked, drainVars, claim, by,
                 execVars, faultVars>>

(* send_input refuses a run that is not running, and the refusal moves a   *)
(* run that create_run has not queued yet.                                 *)
RejectInput(r) ==
  /\ status[r] \notin {"absent", "running"}
  /\ AppendEvent(r, "input.rejected")
  /\ UNCHANGED <<workerVars, clientVars, drainVars, claim, by, execVars, faultVars>>
-----------------------------------------------------------------------------
(* RunManager.cancel.  is_terminal, cancel_job, get_job and the append are *)
(* four sections; between any two of them the run may be claimed, requeued *)
(* or finished.                                                            *)
CancelCheck(r) ==
  /\ r \in Cancels /\ cancelling[r] = "idle" /\ status[r] # "absent"
  /\ cancelling' = [cancelling EXCEPT ![r] = IF IsTerminal(r) THEN "done" ELSE "checked"]
  /\ UNCHANGED <<queueVars, workerVars, wake, creating, asked, drainVars, claim, by,
                 execVars, faultVars>>

CancelJob(r) ==
  /\ cancelling[r] = "checked"
  /\ \/ /\ CancelQueuedJob(r)
        /\ cancelling' = [cancelling EXCEPT ![r] = "dequeued"]
     \/ /\ job[r] # "queued"
        /\ cancelling' = [cancelling EXCEPT ![r] = "held"]
        /\ UNCHANGED queueVars
  /\ UNCHANGED <<workerVars, wake, creating, asked, drainVars, claim, by,
                 execVars, faultVars>>

CancelDequeued(r) ==
  /\ cancelling[r] = "dequeued"
  /\ AppendEvent(r, "run.cancelled")
  /\ cancelling' = [cancelling EXCEPT ![r] = "done"]
  /\ wake' = TRUE
  /\ UNCHANGED <<workerVars, creating, asked, drainVars, claim, by, execVars, faultVars>>

CancelHeld(r) ==
  /\ cancelling[r] = "held"
  /\ cancelling' = [cancelling EXCEPT ![r] =
       IF job[r] = "running" /\ owner[r] # self THEN "request" ELSE "adapter"]
  /\ UNCHANGED <<queueVars, workerVars, wake, creating, asked, drainVars, claim, by,
                 execVars, faultVars>>

CancelRequest(r) ==
  /\ cancelling[r] = "request"
  /\ asked' = [asked EXCEPT ![r] = TRUE]
  /\ cancelling' = [cancelling EXCEPT ![r] = "done"]
  /\ UNCHANGED <<queueVars, workerVars, wake, creating, drainVars, claim, by,
                 execVars, faultVars>>

CancelAdapter(r) ==
  /\ cancelling[r] = "adapter"
  /\ stopped' = stopped \cup {<<self, r>>}
  /\ AppendEvent(r, "run.cancelled")
  /\ cancelling' = [cancelling EXCEPT ![r] = "done"]
  /\ wake' = TRUE
  /\ UNCHANGED <<workerVars, creating, asked, drainVars, claim, by,
                 pc, turn, timer, posts, faultVars>>
-----------------------------------------------------------------------------
(* _drain_queue, under _scheduler_lock: heartbeat and recovery, then one   *)
(* claim per free slot.  Every handler that ends in a drain sets wake, and *)
(* so does the heartbeat thread after a heartbeat and recovery of its own. *)
HeartbeatTick ==
  /\ HeartbeatAndRecover(self)
  /\ wake' = TRUE
  /\ UNCHANGED <<creating, cancelling, asked, drainVars, claim, by, execVars, faultVars>>

(* Mutant: _drain_queue without _scheduler_lock. *)
LockIgnored   == TRUE

SchedulerFree == schedulerLock = NoDrainer

DrainEnter(d) ==
  /\ wake /\ drainer[d] = "idle"
  /\ Capacity[self] > 0
  /\ SchedulerFree
  /\ schedulerLock' = d
  /\ drainer' = [drainer EXCEPT ![d] = "check"]
  /\ wake' = FALSE
  /\ HeartbeatAndRecover(self)
  /\ UNCHANGED <<creating, cancelling, asked, claim, by, execVars, faultVars>>

DrainLeave(d) ==
  /\ drainer' = [drainer EXCEPT ![d] = "idle"]
  /\ schedulerLock' = NoDrainer

DrainCheck(d) ==
  /\ drainer[d] = "check"
  /\ \/ /\ ActiveJobCount(self) < Capacity[self]
        /\ drainer' = [drainer EXCEPT ![d] = "take"]
        /\ UNCHANGED schedulerLock
     \/ /\ ActiveJobCount(self) >= Capacity[self]
        /\ DrainLeave(d)
  /\ UNCHANGED <<queueVars, workerVars, clientVars, claim, by, execVars, faultVars>>

(* The claimed run gets a thread of its own, _start_claimed_run.           *)
DrainTake(d) ==
  /\ drainer[d] = "take"
  /\ \/ \E r \in Runs :
          LET x == <<r, attempts[r] + 1>> IN
          /\ ClaimNextJob(self, r)
          /\ by' = [by EXCEPT ![x] = self]
          /\ pc' = [pc EXCEPT ![x] = "claimed"]
          /\ drainer' = [drainer EXCEPT ![d] = "check"]
          /\ UNCHANGED schedulerLock
     \/ /\ ~CanClaim(self)
        /\ DrainLeave(d)
        /\ UNCHANGED <<queueVars, by, pc>>
  /\ UNCHANGED <<workerVars, clientVars, claim, turn, timer, posts, stopped, faultVars>>
-----------------------------------------------------------------------------
(* _start_claimed_run and the fake adapter's threads, in this process.     *)
Local(x) == by[x] \in Locals

LocalBegin(x) ==
  /\ pc[x] = "claimed" /\ Local(x)
  /\ pc' = [pc EXCEPT ![x] = IF IsTerminal(RunOf(x)) THEN "gone" ELSE "starting"]
  /\ timer' = [timer EXCEPT ![x] =
                 IF ~IsTerminal(RunOf(x)) /\ RunOf(x) \in Timed THEN "armed" ELSE @]
  /\ UNCHANGED <<queueVars, workerVars, clientVars, drainVars, claim, by,
                 turn, posts, stopped, faultVars>>

LocalStart(x) ==
  /\ pc[x] = "starting"
  /\ AppendEvent(RunOf(x), "run.started")
  /\ pc' = [pc EXCEPT ![x] = "started"]
  /\ UNCHANGED <<workerVars, clientVars, drainVars, claim, by,
                 turn, timer, posts, stopped, faultVars>>

LocalPrompt(x) ==
  /\ pc[x] = "started" /\ Local(x)
  /\ pc' = [pc EXCEPT ![x] = "gone"]
  /\ turn' = [turn EXCEPT ![x] = IF IsTerminal(RunOf(x)) THEN @ ELSE "working"]
  /\ UNCHANGED <<queueVars, workerVars, clientVars, drainVars, claim, by,
                 timer, posts, stopped, faultVars>>

(* _complete_prompt's last look at _cancelled, then its terminal event:    *)
(* run.completed here, and run.failed for an adapter whose prompt can fail *)
(* (adapters/qwen.py).                                                     *)
TurnEnd(x) ==
  /\ turn[x] = "working"
  /\ turn' = [turn EXCEPT ![x] = IF <<by[x], RunOf(x)>> \in stopped
                                 THEN "over" ELSE "finishing"]
  /\ UNCHANGED <<queueVars, workerVars, clientVars, drainVars, claim, by,
                 pc, timer, posts, stopped, faultVars>>

LocalFinish(x) ==
  /\ turn[x] = "finishing" /\ Local(x)
  /\ \E e \in {"run.completed", "run.failed"} : AppendEvent(RunOf(x), e)
  /\ turn' = [turn EXCEPT ![x] = "over"]
  /\ wake' = TRUE
  /\ UNCHANGED <<workerVars, creating, cancelling, asked, drainVars, claim, by,
                 pc, timer, posts, stopped, faultVars>>

(* _timeout_watchdog: the deadline passes after an is_terminal look, and   *)
(* the adapter is told to cancel without a second one.                     *)
TimerFire(x) ==
  /\ timer[x] = "armed"
  /\ timer' = [timer EXCEPT ![x] = IF IsTerminal(RunOf(x)) THEN "off" ELSE "fired"]
  /\ UNCHANGED <<queueVars, workerVars, clientVars, drainVars, claim, by,
                 pc, turn, posts, stopped, faultVars>>

TimerCancel(x) ==
  /\ timer[x] = "fired"
  /\ timer' = [timer EXCEPT ![x] = "off"]
  /\ stopped' = stopped \cup {<<by[x], RunOf(x)>>}
  /\ AppendEvent(RunOf(x), "run.cancelled")
  /\ wake' = TRUE
  /\ UNCHANGED <<workerVars, creating, cancelling, asked, drainVars, claim, by,
                 pc, turn, posts, faultVars>>
-----------------------------------------------------------------------------
(* claim_remote_run, as a daemon's claim_once calls it.  The daemon waits  *)
(* for the answer, so a second claim of the same worker id is served at    *)
(* the same time only when the first daemon died waiting.                  *)
LiveThreads(w) == {x \in Attempts : by[x] = w /\ pc[x] \notin {"none", "gone"}}
Asking(w)      == \E c \in Claimers : claim[c].worker = w /\ claim[c].fresh

ClaimRequest(c, w) ==
  /\ claim[c].pc = "idle"
  /\ up[w] /\ ~Asking(w)
  /\ Cardinality(LiveThreads(w)) < Capacity[w]
  /\ HeartbeatAndRecover(w)
  /\ claim' = [claim EXCEPT ![c] =
       [pc |-> "check", worker |-> w, attempt |-> NoAttempt, fresh |-> TRUE,
        seen |-> "unset"]]
  /\ UNCHANGED <<clientVars, drainVars, by, execVars, faultVars>>

ClaimCheck(c) ==
  LET w == claim[c].worker IN
  /\ claim[c].pc = "check"
  /\ IF wstatus[w] = "draining" \/ ActiveJobCount(w) >= Capacity[w]
     THEN claim' = [claim EXCEPT ![c] = IdleClaim]
     ELSE claim' = [claim EXCEPT ![c].pc = "take"]
  /\ UNCHANGED <<queueVars, workerVars, clientVars, drainVars, by, execVars, faultVars>>

ClaimTake(c) ==
  LET w == claim[c].worker IN
  /\ claim[c].pc = "take"
  /\ \/ \E r \in Runs :
          LET x == <<r, attempts[r] + 1>> IN
          /\ ClaimNextJob(w, r)
          /\ by' = [by EXCEPT ![x] = w]
          /\ claim' = [claim EXCEPT ![c].pc = "read", ![c].attempt = x]
     \/ /\ ~CanClaim(w)
        /\ claim' = [claim EXCEPT ![c].pc = "read"]
        /\ UNCHANGED <<queueVars, by>>
  /\ UNCHANGED <<workerVars, clientVars, drainVars, execVars, faultVars>>

(* worker.metadata, evaluated for the answer's heartbeat before it locks.  *)
ClaimRead(c) ==
  /\ claim[c].pc = "read"
  /\ claim' = [claim EXCEPT ![c].pc = "respond", ![c].seen = desired[claim[c].worker]]
  /\ UNCHANGED <<queueVars, workerVars, clientVars, drainVars, by, execVars, faultVars>>

(* The second heartbeat of the request; the answer reaches the daemon only *)
(* if it is still the one that asked.                                      *)
ClaimRespond(c) ==
  LET x == claim[c].attempt IN
  /\ claim[c].pc = "respond"
  /\ HeartbeatWorker(claim[c].worker, claim[c].seen)
  /\ pc' = IF x = NoAttempt THEN pc
           ELSE [pc EXCEPT ![x] = IF claim[c].fresh THEN "claimed" ELSE "gone"]
  /\ claim' = [claim EXCEPT ![c] = IdleClaim]
  /\ UNCHANGED <<clientVars, drainVars, by, turn, timer, posts, stopped, faultVars>>

(* remote_worker_heartbeat.                                                *)
RemoteHeartbeat(w) ==
  /\ up[w]
  /\ HeartbeatAndRecover(w)
  /\ UNCHANGED <<clientVars, drainVars, claim, by, execVars, faultVars>>
-----------------------------------------------------------------------------
(* _execute_run and the adapter's threads, in a remote daemon.  Every event*)
(* is posted: _require_worker_job looks at the lease, the append follows   *)
(* in a section of its own.  A refused post raises in the posting thread.  *)
OnRemote(x)  == by[x] \in Remote
HoldsLease(x) == HoldsJob(by[x], RunOf(x))

Post(x, e) == posts' = posts \cup {<<x, e>>}

RemotePost(x, at, e, refused) ==
  /\ pc[x] = at /\ OnRemote(x)
  /\ \/ HoldsLease(x) /\ Post(x, e) /\ pc' = [pc EXCEPT ![x] = "posted"]
     \/ ~HoldsLease(x) /\ pc' = [pc EXCEPT ![x] = refused] /\ UNCHANGED posts
  /\ UNCHANGED <<queueVars, workerVars, clientVars, drainVars, claim, by,
                 turn, timer, stopped, faultVars>>

RemoteStart(x)  == RemotePost(x, "claimed", "run.started", "failing")
RemoteCancel(x) == RemotePost(x, "cancelling", "run.cancelled", "failing")
RemoteFail(x)   == RemotePost(x, "failing", "run.failed", "gone")

(* send_input's own first post is input.accepted.                          *)
RemotePrompt(x) ==
  /\ pc[x] = "started" /\ OnRemote(x)
  /\ \/ /\ HoldsLease(x)
        /\ pc' = [pc EXCEPT ![x] = "running"]
        /\ turn' = [turn EXCEPT ![x] = "working"]
     \/ /\ ~HoldsLease(x)
        /\ pc' = [pc EXCEPT ![x] = "failing"]
        /\ UNCHANGED turn
  /\ UNCHANGED <<queueVars, workerVars, clientVars, drainVars, claim, by,
                 timer, posts, stopped, faultVars>>

(* The prompt thread dies of a refused post; the run thread waits on.      *)
RemoteFinish(x) ==
  /\ turn[x] = "finishing" /\ OnRemote(x)
  /\ turn' = [turn EXCEPT ![x] = "over"]
  /\ \/ /\ HoldsLease(x)
        /\ \E e \in {"run.completed", "run.failed"} : Post(x, e)
     \/ /\ ~HoldsLease(x)
        /\ UNCHANGED posts
  /\ UNCHANGED <<queueVars, workerVars, clientVars, drainVars, claim, by,
                 pc, timer, stopped, faultVars>>

(* append_event of an accepted post, and its answer.                       *)
AppendPosted(x, e) ==
  /\ <<x, e>> \in posts
  /\ posts' = posts \ {<<x, e>>}
  /\ AppendEvent(RunOf(x), e)
  /\ \/ /\ e \in TerminalRunEvents
        /\ wake' = TRUE
        /\ pc' = [pc EXCEPT ![x] = "gone"]
     \/ /\ e = "run.started"
        /\ pc' = [pc EXCEPT ![x] = IF @ = "posted" THEN "started" ELSE @]
        /\ UNCHANGED wake
  /\ UNCHANGED <<workerVars, creating, cancelling, asked, drainVars, claim, by,
                 turn, timer, stopped, faultVars>>

(* The daemon gives up on an unanswered post while the server still works. *)
PostTimeout(x) ==
  /\ ~Punctual /\ pc[x] = "posted"
  /\ pc' = [pc EXCEPT ![x] = IF <<x, "run.failed">> \in posts THEN "gone" ELSE "failing"]
  /\ UNCHANGED <<queueVars, workerVars, clientVars, drainVars, claim, by,
                 turn, timer, posts, stopped, faultVars>>

(* A cancel request seen in /control, or the deadline of the run, which a  *)
(* run thread whose prompt thread is gone always reaches: adapter.cancel.  *)
RemoteStop(x) ==
  /\ pc[x] = "running"
  /\ \/ asked[RunOf(x)] /\ HoldsLease(x) /\ ~Final(RunOf(x))
     \/ RunOf(x) \in Timed
     \/ turn[x] = "over"
  /\ pc' = [pc EXCEPT ![x] = "cancelling"]
  /\ stopped' = stopped \cup {<<by[x], RunOf(x)>>}
  /\ UNCHANGED <<queueVars, workerVars, clientVars, drainVars, claim, by,
                 turn, timer, posts, faultVars>>
-----------------------------------------------------------------------------
(* What operators do: drain_worker, resume_worker, retry_worker_runs.      *)
DrainWorker(w) ==
  /\ w \in Operated
  /\ SetWorkerState(w, "draining")
  /\ UNCHANGED <<queueVars, clientVars, drainVars, claim, by, execVars, faultVars>>

ResumeWorker(w) ==
  /\ w \in Operated
  /\ SetWorkerState(w, "active")
  /\ wake' = TRUE
  /\ UNCHANGED <<queueVars, creating, cancelling, asked, drainVars, claim, by,
                 execVars, faultVars>>

RetryWorkerRuns(w) ==
  /\ w \in Operated
  /\ \A r \in Runs : HoldsJob(w, r) => attempts[r] < MaxAttempts
  /\ RequeueRunningJobs(w)
  /\ wake' = TRUE
  /\ UNCHANGED <<workerVars, creating, cancelling, asked, drainVars, claim, by,
                 execVars, faultVars>>
-----------------------------------------------------------------------------
(* Time: a lease passes its expiry.  A live worker's heartbeats keep the   *)
(* leases of runs that are not terminal ahead of it when Punctual.         *)
Alive(w) == w = self \/ (w \in Remote /\ up[w])

LeaseExpires(r) ==
  /\ job[r] = "running" /\ lease[r] = "live"
  /\ Final(r) \/ attempts[r] < MaxAttempts
  /\ Final(r) \/ ~Punctual \/ ~Alive(owner[r])
  /\ lease' = [lease EXCEPT ![r] = "expired"]
  /\ UNCHANGED <<status, first, job, owner, attempts, queuedAt, clock, torn, workerVars,
                 clientVars, drainVars, claim, by, execVars, faultVars>>

(* Its run and prompt threads die with a process.                          *)
KillThreads(W) ==
  /\ pc' = [x \in Attempts |-> IF by[x] \in W /\ pc[x] # "none" THEN "gone" ELSE pc[x]]
  /\ turn' = [x \in Attempts |-> IF by[x] \in W /\ turn[x] # "none" THEN "over" ELSE turn[x]]
  /\ stopped' = {s \in stopped : s[1] \notin W}

(* A daemon dies, also of an exception claim_once let through.             *)
DaemonCrash(w) ==
  /\ up[w] /\ crashes < MaxCrashes
  /\ crashes' = crashes + 1
  /\ up' = [up EXCEPT ![w] = FALSE]
  /\ claim' = [c \in Claimers |->
                 [pc      |-> claim[c].pc,
                  worker  |-> claim[c].worker,
                  attempt |-> claim[c].attempt,
                  fresh   |-> claim[c].fresh /\ claim[c].worker # w,
                  seen    |-> claim[c].seen]]
  /\ KillThreads({w})
  /\ UNCHANGED <<queueVars, workerVars, clientVars, drainVars, by, timer, posts,
                 self, restarts>>

(* systemd starts it again under the same RUN_WORKER_ID.                   *)
DaemonStart(w) ==
  /\ Revives /\ ~up[w]
  /\ up' = [up EXCEPT ![w] = TRUE]
  /\ UNCHANGED <<queueVars, workerVars, clientVars, drainVars, claim, by, execVars,
                 self, crashes, restarts>>

(* The terminal events that some thread of the control plane may be        *)
(* appending to a run's log when it stops: of a cancellation, of a prompt  *)
(* thread, of a watchdog, of an accepted post, and of a startup that fails *)
(* the orphans of its worker id.                                           *)
Ending(r) ==
  {e \in TerminalRunEvents :
     \/ e = "run.cancelled" /\ cancelling[r] \in {"dequeued", "adapter"}
     \/ e = "run.failed" /\ job[r] = "running" /\ owner[r] \in Locals /\ ~Final(r)
     \/ \E x \in Attempts :
          /\ RunOf(x) = r
          /\ \/ e # "run.cancelled" /\ turn[x] = "finishing" /\ Local(x)
             \/ e = "run.cancelled" /\ timer[x] = "fired"
             \/ <<x, e>> \in posts}

(* The control plane stops and starts again, maybe under another worker    *)
(* id: every thread and request of the old process is gone,                *)
(* RunManager.__init__ fails what it had running, registers, recovers and  *)
(* prunes, and drains.  A daemon whose claim is cut off dies of it.  fs,   *)
(* js and ls are what the old process leaves in the database.              *)
StopAndStart(fs, js, ls) ==
  /\ restarts < MaxRestarts
  /\ restarts' = restarts + 1
  /\ \E w \in Locals,
        late \in SUBSET {r \in Runs : lease[r] = "live" /\ attempts[r] < MaxAttempts},
        stale \in SUBSET Workers :
       /\ w \notin stale
       /\ self' = w
       /\ FailOrphansAndRecover(w, late, fs, js, ls)
       /\ \A v \in stale, r \in Runs : ~HoldsJob(v, r)'
       /\ RegisterAndPrune(w, stale)
  /\ wake' = TRUE
  /\ schedulerLock' = NoDrainer
  /\ drainer' = [d \in Drainers |-> "idle"]
  /\ creating' = [r \in Runs |-> IF creating[r] = "created" THEN "abandoned"
                                 ELSE IF creating[r] = "enqueued" THEN "done"
                                 ELSE creating[r]]
  /\ cancelling' = [r \in Runs |-> IF cancelling[r] \in {"idle", "lost"} THEN cancelling[r]
                                   ELSE IF cancelling[r] = "dequeued" THEN "lost" ELSE "done"]
  /\ claim' = [c \in Claimers |-> IdleClaim]
  /\ up' = [w \in Remote |-> up[w] /\ ~Asking(w)]
  /\ LET cut == Locals \cup {w \in Remote : Asking(w)} IN
     /\ pc' = [x \in Attempts |->
                 IF by[x] \in cut /\ pc[x] # "none" THEN "gone"
                 ELSE IF pc[x] = "posted"
                      THEN IF <<x, "run.failed">> \in posts THEN "gone" ELSE "failing"
                      ELSE pc[x]]
     /\ turn' = [x \in Attempts |-> IF by[x] \in cut /\ turn[x] # "none"
                                    THEN "over" ELSE turn[x]]
     /\ stopped' = {s \in stopped : s[1] \notin cut}
  /\ timer' = [x \in Attempts |-> "off"]
  /\ posts' = {}
  /\ UNCHANGED <<asked, by, crashes>>

(* It stops between two sections, or between the commits of an append.     *)
StopBetween == StopAndStart(first, job, lease) /\ UNCHANGED torn

StopInAppend(r, e, closed) ==
  /\ e \in Ending(r)
  /\ StopAndStart(CutFirst(r, e), CutJob(r, e, closed), CutLease(r, closed))
  /\ torn' = CutTorn(r)

Restart ==
  \/ StopBetween
  \/ \E r \in Runs, e \in TerminalRunEvents, closed \in BOOLEAN : StopInAppend(r, e, closed)
-----------------------------------------------------------------------------
ClientStep ==
  \E r \in Runs :
    \/ CreateRun(r) \/ EnqueueRun(r) \/ AnnounceQueued(r) \/ RejectInput(r)
    \/ CancelCheck(r) \/ CancelJob(r) \/ CancelDequeued(r)
    \/ CancelHeld(r) \/ CancelRequest(r) \/ CancelAdapter(r)

DrainStep ==
  \/ HeartbeatTick
  \/ \E d \in Drainers : DrainEnter(d) \/ DrainCheck(d) \/ DrainTake(d)

AttemptStep ==
  \E x \in Attempts :
    \/ LocalBegin(x) \/ LocalStart(x) \/ LocalPrompt(x) \/ LocalFinish(x)
    \/ TurnEnd(x) \/ TimerFire(x) \/ TimerCancel(x)
    \/ RemoteStart(x) \/ RemotePrompt(x) \/ RemoteFinish(x) \/ RemoteStop(x)
    \/ RemoteCancel(x) \/ RemoteFail(x) \/ PostTimeout(x)
    \/ \E e \in StatusEvents : AppendPosted(x, e)

ClaimStep ==
  \E c \in Claimers :
    \/ \E w \in Remote : ClaimRequest(c, w)
    \/ ClaimCheck(c) \/ ClaimTake(c) \/ ClaimRead(c) \/ ClaimRespond(c)

OperatorStep ==
  \E w \in Workers : DrainWorker(w) \/ ResumeWorker(w) \/ RetryWorkerRuns(w)

FaultStep ==
  \/ \E r \in Runs : LeaseExpires(r)
  \/ \E w \in Remote : DaemonCrash(w) \/ DaemonStart(w)
  \/ Restart

Next ==
  \/ ClientStep \/ DrainStep \/ AttemptStep \/ ClaimStep \/ OperatorStep \/ FaultStep
  \/ \E w \in Remote : RemoteHeartbeat(w)

Spec == Init /\ [][Next]_vars

(* Every started thread goes on, every daemon that runs keeps polling and  *)
(* heartbeating, and time passes.  Clients, operators and faults are free. *)
Fairness ==
  /\ WF_vars(HeartbeatTick)
  /\ \A d \in Drainers : WF_vars(DrainEnter(d) \/ DrainCheck(d) \/ DrainTake(d))
  /\ \A r \in Runs :
       /\ WF_vars(EnqueueRun(r) \/ AnnounceQueued(r))
       /\ WF_vars(\/ CancelJob(r) \/ CancelDequeued(r) \/ CancelHeld(r)
                  \/ CancelRequest(r) \/ CancelAdapter(r))
       /\ WF_vars(LeaseExpires(r))
  /\ \A c \in Claimers :
       /\ WF_vars(ClaimCheck(c) \/ ClaimTake(c) \/ ClaimRead(c) \/ ClaimRespond(c))
       /\ \A w \in Remote : WF_vars(ClaimRequest(c, w))
  /\ \A w \in Remote : WF_vars(RemoteHeartbeat(w)) /\ WF_vars(DaemonStart(w))
  /\ \A x \in Attempts :
       /\ WF_vars(\/ LocalBegin(x) \/ LocalStart(x) \/ LocalPrompt(x)
                  \/ RemoteStart(x) \/ RemotePrompt(x) \/ RemoteStop(x)
                  \/ RemoteCancel(x) \/ RemoteFail(x))
       /\ WF_vars(TurnEnd(x) \/ LocalFinish(x) \/ RemoteFinish(x))
       /\ \A e \in StatusEvents : WF_vars(AppendPosted(x, e))

LiveSpec == Spec /\ Fairness
-----------------------------------------------------------------------------
(* No run is forgotten: a run that is not over still has a job somebody    *)
(* will claim or holds.  The only exceptions are left by a process that    *)
(* stops: create_run before enqueue_run, cancel between cancel_job and     *)
(* run.cancelled, and an append that closed the job and did not commit the *)
(* run.                                                                    *)
NoRunForgotten ==
  \A r \in Runs :
    status[r] # "absent" /\ ~Final(r) =>
      \/ Unfinished(r)
      \/ job[r] = "none" /\ creating[r] \in {"created", "abandoned"}
      \/ job[r] = "cancelled" /\ cancelling[r] \in {"dequeued", "lost"}
      \/ job[r] \in FinalStatuses /\ r \in torn

(* The control plane never runs more jobs than worker_capacity: the count  *)
(* and the claim of _drain_queue are separate sections, so this is the     *)
(* work of _scheduler_lock and of failing orphans at startup.              *)
LocalCapacity == ActiveJobCount(self) <= Capacity[self]

(* Of two attempts at one run at most one is still being executed, as long *)
(* as live workers' heartbeats arrive in time and no operator retries.     *)
Executing(x) == pc[x] \notin {"none", "gone"} \/ turn[x] \in {"working", "finishing"}

OneExecution ==
  \A x, y \in Attempts :
    RunOf(x) = RunOf(y) /\ Executing(x) /\ Executing(y) => x = y

(* A finished job is never queued or leased again, and a decided run       *)
(* never gets another status: neither a retry nor a recovered lease nor a  *)
(* restart revives it.                                                     *)
OutcomeIsFinal ==
  [][\A r \in Runs :
       /\ Final(r) => status'[r] = status[r]
       /\ job[r] \in FinalStatuses => job'[r] = job[r]]_vars

(* A worker an operator told to drain is given no job until it is resumed, *)
(* although every heartbeat and every startup re-registers it as active    *)
(* first.  There are two exceptions: prune_stale_workers forgets the       *)
(* request, and the answer to a claim writes back the desired_state it has *)
(* read before, which undoes a request made in between.                    *)
Undone(w) == told[w] = "draining" /\ desired[w] = "active"

DrainIsHonoured ==
  [][\A w \in Workers :
       /\ told[w] = "draining" /\ ~Undone(w) =>
            \A r \in Runs : HoldsJob(w, r)' => HoldsJob(w, r)
       /\ Undone(w)' => \/ Undone(w)
                        \/ \E c \in Claimers : claim[c].worker = w /\ claim[c].seen = "active"]_vars

(* Every run ends once it has been created.                                *)
EveryRunEnds == \A r \in Runs : creating[r] = "created" ~> Final(r)

(* A run that is over gives its worker slot back, also when it was         *)
(* cancelled before it was enqueued and claimed after it was over.         *)
FinishedRunsLeaveNoJob ==
  \A r \in Runs : Final(r) /\ creating[r] = "done" ~> ~Unfinished(r)

(* What the docs say and the code does not do.                             *)

(* An event of a worker that no longer holds the run's lease never reaches *)
(* the log, append_remote_worker_event having checked the lease; a post    *)
(* that a restart of the control plane cuts off is not appended at all.    *)
EventsComeFromLeaseHolder ==
  [][restarts' = restarts =>
       \A p \in posts \ posts' : HoldsLease(p[1])]_vars

(* A worker that is told to drain claims no new run until it is resumed    *)
(* (operation-manual.md).                                                  *)
DrainedWorkersClaimNothing ==
  [][\A w \in Workers : told[w] = "draining" =>
       \A r \in Runs : HoldsJob(w, r)' => HoldsJob(w, r)]_vars

(* A running job whose executing process is gone does not stay leased to   *)
(* it for ever: it is failed or queued again once that worker restarts.    *)
Orphaned(x) == HoldsLease(x) /\ attempts[RunOf(x)] = x[2] /\ ~Executing(x)

OrphanedJobsAreRecovered == \A x \in Attempts : Orphaned(x) ~> ~Orphaned(x)

(* A recorded run.cancel_requested is pulled by the worker that executes   *)
(* the run, so that worker is one that polls /control.                     *)
CancelRequestReachesWorker ==
  \A r \in Runs : asked[r] /\ job[r] = "running" /\ ~Final(r) => owner[r] \in Remote

(* A run is created once, its lease passes from worker to worker only      *)
(* through the queue, and its first outcome is final (RunLifecycle).       *)
ImplementsLifecycle == Lifecycle!Spec
=============================================================================
