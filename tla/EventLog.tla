------------------------------ MODULE EventLog -------------------------------
(***************************************************************************)
(* How the events of a run are kept (store.py, append_event and            *)
(* _load_from_db).  An append is one section under the store's lock, but   *)
(* what it writes is committed one after the other: the event, the job if  *)
(* the event ends the run, and the run.  A server that stops in between    *)
(* has, when it starts again, what was committed until then.               *)
(*                                                                         *)
(* The line in events.jsonl is written before all of them.  The server     *)
(* does not read it again, and it is left out.  Waiting readers hold the   *)
(* same lock: they see an append when all of it is committed.              *)
(***************************************************************************)
EXTENDS Naturals, Sequences, RunEvents

Kind(type, key) == [type |-> type, key |-> key]

NoKey == "none"

StatusEvents ==
  [queued |-> "run.queued", running |-> "run.started", completed |-> "run.completed",
   failed |-> "run.failed", cancelled |-> "run.cancelled"]

InputEvents == {"input.accepted", "input.rejected"}

(* An input queues a run that was only created.                            *)
Meaning(status, type) ==
  {s \in DOMAIN StatusEvents : StatusEvents[s] = type}
  \cup {s \in {"queued"} : status = "created" /\ type \in InputEvents}

(* The status of a run after an event: the first end is kept.              *)
StatusAfter(status, type) ==
  IF IsTerminal(status) \/ Meaning(status, type) = {} THEN status
  ELSE CHOOSE s \in Meaning(status, type) : TRUE

(* The commits of an append, in their order.                               *)
EventRow == 1
JobRow   == 2
RunRow   == 3
Commits  == 3

(* Mutant: the run is committed before its event.                          *)
RunRowFirst(stored, event, done) ==
  [events |-> IF done >= RunRow THEN Append(stored.events, event) ELSE stored.events,
   job    |-> IF done >= JobRow /\ IsTerminalEvent(event.type) THEN "over" ELSE stored.job,
   status |-> IF done >= EventRow THEN StatusAfter(stored.status, event.type)
              ELSE stored.status]

(* The events, the job and the status of a run after the first done        *)
(* commits of an append.                                                   *)
Appended(stored, event, done) ==
  [events |-> IF done >= EventRow THEN Append(stored.events, event) ELSE stored.events,
   job    |-> IF done >= JobRow /\ IsTerminalEvent(event.type) THEN "over" ELSE stored.job,
   status |-> IF done >= RunRow THEN StatusAfter(stored.status, event.type)
              ELSE stored.status]

(* fail_orphaned_jobs_for_worker, for a run of the server's own worker id. *)
FailOrphan(stored) ==
  IF stored.job = "over" THEN stored
  ELSE IF IsTerminal(stored.status) THEN [stored EXCEPT !.job = "over"]
  ELSE Appended(Appended(stored, Kind("lease.orphaned", NoKey), Commits),
                Kind("run.failed", NoKey), Commits)
=============================================================================
