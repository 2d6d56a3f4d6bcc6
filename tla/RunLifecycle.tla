---------------------------- MODULE RunLifecycle ----------------------------
(***************************************************************************)
(* What the Run Manager promises about every run, whatever the workers,    *)
(* leases and threads behind it do: a run is created once, its lease       *)
(* passes from one worker to another only through the queue, and the first *)
(* terminal outcome it gets is the one it keeps.  RunScheduler implements  *)
(* this specification.                                                     *)
(***************************************************************************)
CONSTANTS Runs, Workers, NoWorker

VARIABLES
  outcome,  \* the final status of a run, "open" until it has one
  phase,    \* "absent", "created" (no job yet), "jobbed" (has a job)
  holder    \* the worker that holds the lease on the run's job

FinalStatuses == {"completed", "failed", "cancelled"}

Init ==
  /\ outcome = [r \in Runs |-> "open"]
  /\ phase   = [r \in Runs |-> "absent"]
  /\ holder  = [r \in Runs |-> NoWorker]

(* The store creates a run, and later gives it its job, exactly once.      *)
Create(r) ==
  /\ phase[r] = "absent" /\ phase'[r] = "created"
  /\ outcome'[r] = outcome[r] /\ holder'[r] = holder[r]

Enqueue(r) ==
  /\ phase[r] = "created" /\ phase'[r] = "jobbed"
  /\ outcome'[r] = outcome[r] /\ holder'[r] = holder[r]

(* A worker is given the lease of a run nobody holds.                      *)
Lease(r) ==
  /\ phase[r] = "jobbed" /\ holder[r] = NoWorker /\ holder'[r] \in Workers
  /\ phase'[r] = phase[r] /\ outcome'[r] = outcome[r]

(* The lease is taken back: expired, retried, or left behind by a finished *)
(* run.                                                                    *)
Release(r) ==
  /\ holder[r] # NoWorker /\ holder'[r] = NoWorker
  /\ phase'[r] = phase[r] /\ outcome'[r] = outcome[r]

(* The run ends.  Nobody holds its lease any more.                         *)
Decide(r) ==
  /\ phase[r] # "absent" /\ outcome[r] = "open"
  /\ outcome'[r] \in FinalStatuses
  /\ holder'[r] = NoWorker /\ phase'[r] = phase[r]

Idle(r) ==
  /\ outcome'[r] = outcome[r] /\ phase'[r] = phase[r] /\ holder'[r] = holder[r]

RunStep(r) == Create(r) \/ Enqueue(r) \/ Lease(r) \/ Release(r) \/ Decide(r)

(* One step of the implementation may recover or fail several runs.        *)
Next ==
  /\ outcome' \in [Runs -> FinalStatuses \cup {"open"}]
  /\ phase' \in [Runs -> {"absent", "created", "jobbed"}]
  /\ holder' \in [Runs -> Workers \cup {NoWorker}]
  /\ \A r \in Runs : RunStep(r) \/ Idle(r)

vars == <<outcome, phase, holder>>

Spec == Init /\ [][Next]_vars
=============================================================================
