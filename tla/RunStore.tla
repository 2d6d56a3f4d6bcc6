------------------------------ MODULE RunStore ------------------------------
(***************************************************************************)
(* The run queue of RunStore (runtime/cloud_agents_runtime/store.py): the  *)
(* runs, their jobs and leases, and the workers.  Every operator below is  *)
(* one critical section under RunStore._lock; RunScheduler interleaves     *)
(* them.  Of the event log only what decides a run's status is kept: the   *)
(* first terminal event.  Timestamps are reduced to the order of queueing  *)
(* and to whether a lease has passed its expiry time.  What a section      *)
(* commits piece by piece matters when the process stops inside it: see    *)
(* CutAppend.                                                              *)
(***************************************************************************)
EXTENDS Naturals, FiniteSets

CONSTANTS
  Runs,        \* the runs clients submit
  Workers,     \* worker ids: control-plane processes and remote daemons
  NoWorker,    \* worker_id = None
  Matches,     \* <<w, r>>: worker_matches_run accepts r for w
  MaxAttempts  \* bound: a lease at this attempt neither expires nor is retried

ASSUME StoreAssumption ==
  /\ IsFiniteSet(Runs)
  /\ NoWorker \notin Workers
  /\ MaxAttempts \in Nat \ {0}

VARIABLES
  status,    \* RunState.status, "absent" before create_run
  first,     \* outcome named by the first terminal event of the log, or "none"
  job,       \* RunJob.status, "none" before enqueue_run
  owner,     \* RunJob.worker_id
  lease,     \* RunJob.lease_expires_at: "none", in the future or in the past
  attempts,  \* RunJob.attempts
  queuedAt,  \* RunJob.queued_at
  clock,     \* the last queued_at handed out
  torn,      \* history: runs whose terminal event was committed without
             \* the status it should have given them
  wstatus,   \* WorkerState.status, "unknown" when there is no record
  desired,   \* WorkerState.metadata["desired_state"], "unset" when absent
  told       \* history: what an operator last asked of the worker

queueVars  == <<status, first, job, owner, lease, attempts, queuedAt, clock, torn>>
workerVars == <<wstatus, desired, told>>

FinalStatuses == {"completed", "failed", "cancelled"}
Statuses      == {"absent", "created", "queued", "running"} \cup FinalStatuses
Jobs          == {"none", "queued", "running"} \cup FinalStatuses

(* TERMINAL_RUN_EVENTS (events.py) and the other events that move a run.   *)
(* Of the input.* events the refusal stands for all: they move a run that  *)
(* has only been created.                                                  *)
TerminalRunEvents == {"run.completed", "run.failed", "run.cancelled"}
InputEvents       == {"input.rejected"}
StatusEvents      == TerminalRunEvents \cup {"run.queued", "run.started"}

(* Mutant: a status the rest of the store does not know. *)
EventStatusMisspelt(e) ==
  CASE e \in InputEvents \cup {"run.queued"} -> "queued"
    [] e = "run.started"   -> "running"
    [] e = "run.completed" -> "completed"
    [] e = "run.failed"    -> "error"
    [] e = "run.cancelled" -> "cancelled"

EventStatus(e) ==
  CASE e \in InputEvents \cup {"run.queued"} -> "queued"
    [] e = "run.started"   -> "running"
    [] e = "run.completed" -> "completed"
    [] e = "run.failed"    -> "failed"
    [] e = "run.cancelled" -> "cancelled"

QueueTypeOK ==
  /\ status \in [Runs -> Statuses]
  /\ first \in [Runs -> FinalStatuses \cup {"none"}]
  /\ job \in [Runs -> Jobs]
  /\ owner \in [Runs -> Workers \cup {NoWorker}]
  /\ lease \in [Runs -> {"none", "live", "expired"}]
  /\ attempts \in [Runs -> 0 .. MaxAttempts]
  /\ queuedAt \in [Runs -> Nat]
  /\ clock \in Nat
  /\ torn \subseteq Runs

WorkerTypeOK ==
  /\ wstatus \in [Workers -> {"unknown", "active", "draining"}]
  /\ desired \in [Workers -> {"unset", "active", "draining"}]
  /\ told \in [Workers -> {"active", "draining"}]

StoreTypeOK == QueueTypeOK /\ WorkerTypeOK

StoreInit ==
  /\ status   = [r \in Runs |-> "absent"]
  /\ first    = [r \in Runs |-> "none"]
  /\ job      = [r \in Runs |-> "none"]
  /\ owner    = [r \in Runs |-> NoWorker]
  /\ lease    = [r \in Runs |-> "none"]
  /\ attempts = [r \in Runs |-> 0]
  /\ queuedAt = [r \in Runs |-> 0]
  /\ clock    = 0
  /\ torn     = {}

Final(r)      == status[r] \in FinalStatuses
IsTerminal(r) == Final(r) \/ first[r] # "none"
Unfinished(r) == job[r] \in {"queued", "running"}

HoldsJob(w, r)    == job[r] = "running" /\ owner[r] = w
ActiveJobCount(w) == Cardinality({r \in Runs : HoldsJob(w, r)})
-----------------------------------------------------------------------------
(* create_run: the run, its files and run.created in one section.          *)
StoreCreateRun(r) ==
  /\ status[r] = "absent"
  /\ status' = [status EXCEPT ![r] = "created"]
  /\ UNCHANGED <<first, job, owner, lease, attempts, queuedAt, clock, torn>>

(* enqueue_run, its locked part: the job is claimable from here on, though *)
(* run.queued is appended only afterwards.  Two jobs queued in the same    *)
(* millisecond get the same queued_at.                                     *)
StoreEnqueueRun(r) ==
  \E now \in {clock, clock + 1} :
    /\ clock' = now
    /\ queuedAt' = [queuedAt EXCEPT ![r] = now]
    /\ job' = [job EXCEPT ![r] = "queued"]
    /\ UNCHANGED <<status, first, owner, lease, attempts, torn>>

(* append_event with _finish_job.  A terminal run keeps its status, yet    *)
(* the event is logged all the same, and a terminal event closes the job   *)
(* with the status the run has by then.                                    *)
StatusAlways(r, e) == EventStatus(e)  \* mutant: no already_terminal

StatusAfter(r, e) ==
  IF Final(r) \/ (e \in InputEvents /\ status[r] # "created") THEN status[r]
  ELSE EventStatus(e)

AppendEvent(r, e) ==
  LET closes == e \in TerminalRunEvents /\ Unfinished(r)
  IN  /\ status' = [status EXCEPT ![r] = StatusAfter(r, e)]
      /\ first' = [first EXCEPT ![r] =
                     IF @ = "none" /\ e \in TerminalRunEvents
                     THEN EventStatus(e) ELSE @]
      /\ job' = [job EXCEPT ![r] = IF closes THEN StatusAfter(r, e) ELSE @]
      /\ lease' = [lease EXCEPT ![r] = IF closes THEN "none" ELSE @]
      /\ UNCHANGED <<owner, attempts, queuedAt, clock, torn>>

(* append_event stopped halfway.  Its three commits are not one            *)
(* transaction: the event, then the job, then the run, so a process that   *)
(* dies in between leaves the event alone, or the event and a closed job,  *)
(* under a run that keeps its status.                                      *)
CutFirst(r, e) == [first EXCEPT ![r] = IF @ = "none" THEN EventStatus(e) ELSE @]

CutJob(r, e, closed) ==
  [job EXCEPT ![r] = IF closed /\ Unfinished(r) THEN StatusAfter(r, e) ELSE @]

CutLease(r, closed) ==
  [lease EXCEPT ![r] = IF closed /\ Unfinished(r) THEN "none" ELSE @]

CutTorn(r) == IF Final(r) THEN torn ELSE torn \cup {r}

(* The worker record after register_worker inside heartbeat_worker.        *)
BeatStatusActive(w) == "active"  \* mutant: desired_state ignored

BeatStatus(w) == IF desired[w] = "draining" THEN "draining" ELSE "active"

(* heartbeat_worker renews the lease of EVERY running job of this worker   *)
(* id whose run is not terminal, also one that had already expired.        *)
RenewedForAll(w, r)   == job[r] = "running" /\ ~Final(r)  \* mutant: any owner
RenewedForFinal(w, r) == HoldsJob(w, r)                  \* mutant: any status

Renewed(w, r) == HoldsJob(w, r) /\ ~Final(r)

BeatLease(w) == [r \in Runs |-> IF Renewed(w, r) THEN "live" ELSE lease[r]]

(* heartbeat_worker with the record's own metadata, read earlier:          *)
(* register_worker merges it into the record, desired_state included, over *)
(* whatever an operator has written in the meantime.                       *)
MetadataMerged(w, seen) ==
  IF seen = "unset" THEN desired ELSE [desired EXCEPT ![w] = seen]

HeartbeatWorker(w, seen) ==
  /\ desired' = MetadataMerged(w, seen)
  /\ wstatus' = [wstatus EXCEPT ![w] = IF desired'[w] = "draining"
                                       THEN "draining" ELSE "active"]
  /\ lease' = BeatLease(w)
  /\ UNCHANGED <<status, first, job, owner, attempts, queuedAt, clock, torn, told>>

(* What becomes of a running job that is taken away from its worker: it is *)
(* finished if its run is terminal, and goes back to the queue otherwise.  *)
TakenFailed(r) == IF Final(r) THEN status[r] ELSE "failed"  \* mutant: no requeue

Taken(r) == IF Final(r) THEN status[r] ELSE "queued"

OwnersKept(S) == owner  \* mutant: worker_id is not reset

OwnersWithout(S) == [r \in Runs |-> IF r \in S /\ ~Final(r) THEN NoWorker ELSE owner[r]]

(* recover_expired_leases on the leases ls.  The run keeps its status.     *)
RecoverLeases(ls) ==
  LET late == {r \in Runs : job[r] = "running" /\ ls[r] = "expired"}
  IN  /\ job' = [r \in Runs |-> IF r \in late THEN Taken(r) ELSE job[r]]
      /\ owner' = OwnersWithout(late)
      /\ lease' = [r \in Runs |-> IF r \in late THEN "none" ELSE ls[r]]
      /\ UNCHANGED <<status, first, attempts, queuedAt, clock, torn>>

(* Every caller follows heartbeat_worker with recover_expired_leases.  The *)
(* two sections are one step here: expiry is observed only by the second,  *)
(* so whatever runs between them may as well run before both.              *)
HeartbeatAndRecover(w) ==
  /\ RecoverLeases(BeatLease(w))
  /\ wstatus' = [wstatus EXCEPT ![w] = BeatStatus(w)]
  /\ UNCHANGED <<desired, told>>

(* claim_next_job: nothing for a draining worker, else the oldest queued   *)
(* job the worker's predicate accepts.  Ties on queued_at are broken by    *)
(* the random run id.                                                      *)
(* Mutant: running jobs are offered as well. *)
ClaimableRunning(w) == {r \in Runs : Unfinished(r) /\ <<w, r>> \in Matches}

Claimable(w) == {r \in Runs : job[r] = "queued" /\ <<w, r>> \in Matches}

CanClaim(w)  == wstatus[w] # "draining" /\ Claimable(w) # {}

ClaimNextJob(w, r) ==
  /\ wstatus[w] # "draining"
  /\ r \in Claimable(w)
  /\ \A q \in Claimable(w) : queuedAt[r] <= queuedAt[q]
  /\ job' = [job EXCEPT ![r] = "running"]
  /\ owner' = [owner EXCEPT ![r] = w]
  /\ lease' = [lease EXCEPT ![r] = "live"]
  /\ attempts' = [attempts EXCEPT ![r] = @ + 1]
  /\ UNCHANGED <<status, first, queuedAt, clock, torn>>

(* cancel_job succeeds on a queued job only.                               *)
CancelQueuedJob(r) ==
  /\ job[r] = "queued"
  /\ job' = [job EXCEPT ![r] = "cancelled"]
  /\ lease' = [lease EXCEPT ![r] = "none"]
  /\ UNCHANGED <<status, first, owner, attempts, queuedAt, clock, torn>>

(* requeue_running_jobs_for_worker: unlike a recovered lease, a retried    *)
(* job takes its run's status back to "queued".                            *)
RequeueRunningJobs(w) ==
  LET held == {r \in Runs : HoldsJob(w, r)}
  IN  /\ job' = [r \in Runs |-> IF r \in held THEN Taken(r) ELSE job[r]]
      /\ status' = [r \in Runs |-> IF r \in held THEN Taken(r) ELSE status[r]]
      /\ owner' = OwnersWithout(held)
      /\ lease' = [r \in Runs |-> IF r \in held THEN "none" ELSE lease[r]]
      /\ UNCHANGED <<first, attempts, queuedAt, clock, torn>>

(* fail_orphaned_jobs_for_worker(w) when the process that ran w's jobs is  *)
(* gone, then recover_expired_leases on what others hold.  fs, js and ls   *)
(* are the first ends, the jobs and the leases as that process left them;  *)
(* late are the leases that ran out while no process took heartbeats.      *)
OrphanFailed(r) == "failed"  \* mutant: finished runs are failed, too

OrphanFate(r) == IF Final(r) THEN status[r] ELSE "failed"

FailOrphansAndRecover(w, late, fs, js, ls) ==
  LET mine == {r \in Runs : js[r] = "running" /\ owner[r] = w}
      gone == {r \in Runs \ mine :
                 js[r] = "running" /\ (ls[r] = "expired" \/ r \in late)}
  IN  /\ status' = [r \in Runs |-> IF r \in mine THEN OrphanFate(r) ELSE status[r]]
      /\ first' = [r \in Runs |-> IF r \in mine /\ fs[r] = "none"
                                  THEN "failed" ELSE fs[r]]
      /\ job' = [r \in Runs |-> IF r \in mine THEN OrphanFate(r)
                                ELSE IF r \in gone THEN Taken(r) ELSE js[r]]
      /\ owner' = OwnersWithout(gone)
      /\ lease' = [r \in Runs |-> IF r \in mine \cup gone THEN "none" ELSE ls[r]]
      /\ UNCHANGED <<attempts, queuedAt, clock>>

(* set_worker_state of drain_worker and resume_worker.                     *)
SetWorkerState(w, s) ==
  /\ wstatus' = [wstatus EXCEPT ![w] = s]
  /\ desired' = [desired EXCEPT ![w] = s]
  /\ told' = [told EXCEPT ![w] = s]

(* register_worker at startup sets "active" whatever desired_state says;   *)
(* prune_stale_workers then deletes idle records that are old enough, and  *)
(* with a record goes its desired_state.                                   *)
RegisterAndPrune(w, stale) ==
  /\ wstatus' = [v \in Workers |-> IF v = w THEN "active"
                                   ELSE IF v \in stale THEN "unknown" ELSE wstatus[v]]
  /\ desired' = [v \in Workers |-> IF v \in stale THEN "unset" ELSE desired[v]]
  /\ told' = [v \in Workers |-> IF v \in stale THEN "active" ELSE told[v]]
-----------------------------------------------------------------------------
(* A run's status is final exactly when its log holds a terminal event,    *)
(* and it is what the first of them says, however many threads thought     *)
(* they ended the run (append_event's already_terminal).  The exception is *)
(* a run whose terminal event was committed by a process that died before  *)
(* it committed the run: its status may be open, or a later end.           *)
OutcomeIsFirstTerminal ==
  \A r \in Runs :
    IF Final(r) THEN first[r] # "none" /\ (first[r] = status[r] \/ r \in torn)
                ELSE first[r] = "none" \/ r \in torn

(* A job is queued without an owner or a lease, runs with both, and keeps  *)
(* no lease once it is over: claiming, recovery, retry and _finish_job     *)
(* agree on who works on a run.                                            *)
LeaseCustody ==
  \A r \in Runs :
    /\ job[r] = "queued"  => owner[r] = NoWorker /\ lease[r] = "none"
    /\ job[r] = "running" => owner[r] # NoWorker /\ lease[r] # "none"
    /\ job[r] \notin {"queued", "running"} => lease[r] = "none"

(* What clients are promised (RunLifecycle).                               *)
Lifecycle == INSTANCE RunLifecycle WITH
  outcome <- [r \in Runs |-> IF Final(r) THEN status[r] ELSE "open"],
  phase   <- [r \in Runs |-> IF status[r] = "absent" THEN "absent"
                             ELSE IF job[r] = "none" THEN "created" ELSE "jobbed"],
  holder  <- [r \in Runs |-> IF job[r] = "running" THEN owner[r] ELSE NoWorker]
=============================================================================
