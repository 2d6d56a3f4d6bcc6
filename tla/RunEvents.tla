------------------------------ MODULE RunEvents ------------------------------
(***************************************************************************)
(* What the run page of the web console computes from the events it holds  *)
(* (web/src/app.tsx, web/src/lib/api.ts): which events its stream listens  *)
(* to, how two lists are merged, the transcript and its filters, and the   *)
(* permission requests an operator is asked to decide.                     *)
(*                                                                         *)
(* An event has a run, its sequence number in the log of that run, a type  *)
(* and a key: the prompt_number of a delta, the permission_id of a         *)
(* permission event, "failed" for a tool that failed.  The page keeps its  *)
(* events sorted by sequence with one event per sequence; that is a set    *)
(* here, and what is text in the page is the set of the events it is made  *)
(* of, read in the order of their sequences.                               *)
(***************************************************************************)
EXTENDS Naturals

(* Mutants: a list that forgets a type.                                    *)
WithoutTheDecision ==
  {"run.created", "run.started", "message.delta", "permission.requested", "run.completed"}
WithoutTheEnd ==
  {"run.created", "run.started", "message.delta", "permission.requested",
   "permission.resolved"}

liveEventTypes ==
  {"run.created", "workspace.prepared", "resources.resolved", "run.queued",
   "lease.claimed", "run.started", "input.accepted", "step.started",
   "step.submitted", "message.delta", "adapter.event", "stream.warning",
   "permission.requested", "permission.resolved", "permission.stalled",
   "step.completed", "run.completed", "run.failed", "run.cancelled",
   "cancel.warning", "input.rejected", "adapter.not_configured"}

IsTerminalEvent(type) == type \in {"run.completed", "run.failed", "run.cancelled"}

IsTerminal(status) == status \in {"completed", "failed", "cancelled"}

(* Mutant: lists are joined, not merged by sequence.                       *)
JoinEvents(current, incoming) == current \cup incoming

(* The incoming events win over those shown with the same sequence.        *)
MergeEvents(current, incoming) ==
  incoming \cup {e \in current : \A f \in incoming : f.seq # e.seq}

(* events.at(-1)                                                           *)
IsLatest(e, events) == e \in events /\ \A f \in events : f.seq <= e.seq

-----------------------------------------------------------------------------
(* The transcript: one bubble per event that has something to tell, and    *)
(* one for all the deltas of a prompt, placed at the last of them.         *)
RoleTypes ==
  [system   |-> {"run.created", "workspace.prepared", "resources.resolved",
                 "run.queued", "lease.claimed", "step.started", "step.submitted"},
   success  |-> {"run.started", "step.completed", "permission.resolved",
                 "run.completed"},
   operator |-> {"input.accepted"},
   warning  |-> {"permission.requested", "permission.stalled", "stream.warning",
                 "cancel.warning", "run.cancelled"},
   error    |-> {"run.failed", "executor.failed"}]

ToolEventRole(e) == IF e.key = "failed" THEN "error" ELSE "system"

Roles(e) ==
  {role \in DOMAIN RoleTypes :
     \/ e.type \in RoleTypes[role]
     \/ e.type = "adapter.event" /\ role = ToolEventRole(e)}

TranscriptItem(e, role) ==
  [role |-> role, type |-> e.type, sequence |-> e.seq, body |-> {e}]

Deltas(events, prompt) == {e \in events : e.type = "message.delta" /\ e.key = prompt}

AgentItem(deltas) ==
  LET last == CHOOSE e \in deltas : IsLatest(e, deltas)
  IN  [role |-> "agent", type |-> last.type, sequence |-> last.seq, body |-> deltas]

RunnerTranscript(events) ==
  (UNION {{TranscriptItem(e, role) : role \in Roles(e)} : e \in events})
  \cup {AgentItem(Deltas(events, e.key)) : e \in {d \in events : d.type = "message.delta"}}

PermissionEventTypes ==
  {"permission.requested", "permission.resolved", "permission.stalled"}

FilterTranscript(transcript, filter) ==
  {item \in transcript :
     \/ filter = "all"
     \/ filter = "permission" /\ item.type \in PermissionEventTypes
     \/ filter \in {"agent", "warning", "error"} /\ item.role = filter}

-----------------------------------------------------------------------------
(* The permission panel.                                                   *)
ExtractPermissionRequest(e) == IF e.type = "permission.requested" THEN {e.key} ELSE {}

ResolvedPermissionIds(events) ==
  {e.key : e \in {f \in events : f.type = "permission.resolved"}}

PendingPermissions(events) ==
  (UNION {ExtractPermissionRequest(e) : e \in events}) \ ResolvedPermissionIds(events)
=============================================================================
