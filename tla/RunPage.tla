------------------------------- MODULE RunPage -------------------------------
(***************************************************************************)
(* The page of a run (web/src/app.tsx, RunDetailPage and                   *)
(* useRunLiveEvents) and the server's event stream behind it               *)
(* (runtime/cloud_agents_runtime/server.py, stream_events).  The page      *)
(* learns the events of a run by two ways at once: queries that are        *)
(* polled, whose answers may arrive after the page has changed, and an     *)
(* EventSource, which reconnects from the last event it has received.      *)
(*                                                                         *)
(* The server may stop at any time, also in the middle of an append, and   *)
(* comes back with what it had committed (EventLog).                       *)
(*                                                                         *)
(* A poll is asked and answered in one step and installed in a later one;  *)
(* polls whose answer would say nothing new are left out, and so are       *)
(* heartbeats.  A run that a page may be opened for exists, so its log is  *)
(* never empty.                                                            *)
(***************************************************************************)
EXTENDS Naturals, Sequences, FiniteSets, RunEvents, EventLog

CONSTANTS
  Main,       \* a run whose log grows
  Other,      \* a run that is over
  Away,       \* any page but a run's
  MaxEvents,  \* bound on the length of a log
  MaxMoved,   \* the same when more than one page was opened
  MaxDeltas,  \* bound on the message deltas in it
  MaxMoves,   \* bound on the pages opened
  MaxFaults   \* bound on connections dropped or refused, answers lost, restarts

Runs == {Main, Other}

ASSUME RunPageAssumption ==
  /\ Main # Other
  /\ Away \notin Runs
  /\ {MaxEvents, MaxMoved, MaxDeltas, MaxMoves, MaxFaults} \subseteq Nat
  /\ MaxEvents >= 3 /\ MaxMoved <= MaxEvents

VARIABLES
  log,     \* RunStore._events: the type and key of each event, by run
  rows,    \* RunState.status and RunJob.status, by run
  cache,   \* query cache: run status and number of events, per run
  flight,  \* the answers on their way, per run
  page,    \* the run whose page is mounted, or Away
  view,    \* the events state of useRunLiveEvents
  conn,    \* its status state
  source,  \* the EventSource and the server's side of its stream
  hopped,  \* the page turned to another run without being unmounted
  moves, faults

vars == <<log, rows, cache, flight, page, view, conn, source, hopped, moves, faults>>

Event(r, n) == [run |-> r, seq |-> n, type |-> log[r][n].type, key |-> log[r][n].key]

Events(r, n) == {Event(r, i) : i \in 1 .. n}

Has(r, type) == \E i \in DOMAIN log[r] : log[r][i].type = type

(* is_terminal looks at both.                                              *)
HasEnded(r) == \E n \in DOMAIN log[r] : IsTerminalEvent(log[r][n].type)
IsOver(r) == IsTerminal(rows[r].status) \/ HasEnded(r)

NoData == "no data"
NoCache == [status |-> NoData, events |-> 0]

(* No EventSource.  got is its last event id; an event is written and      *)
(* received in one step, so it is the server's last_sequence as well.      *)
(* quiet is the server between a wait in vain and its look at the run.     *)
NoSource == [phase |-> "none", got |-> 0, quiet |-> FALSE]

Init ==
  /\ log = [r \in Runs |->
              IF r = Main THEN <<Kind("run.created", NoKey)>>
              ELSE <<Kind("run.created", NoKey), Kind("message.delta", "1"),
                     Kind("run.completed", NoKey)>>]
  /\ rows = [r \in Runs |->
               IF r = Main THEN [status |-> "queued", job |-> "running"]
               ELSE [status |-> "completed", job |-> "over"]]
  /\ cache = [r \in Runs |->
                IF r = Main THEN NoCache ELSE [status |-> "completed", events |-> 0]]
  /\ flight = [r \in Runs |-> NoCache]
  /\ page = Away /\ view = {} /\ conn = "closed" /\ source = NoSource
  /\ hopped = FALSE /\ moves = 0 /\ faults = 0

-----------------------------------------------------------------------------
(* The run.  What is appended until a worker has claimed it is one event   *)
(* here.  A decision that is recorded for a remote worker and a            *)
(* cancellation that comes too late are events without a listener.  A      *)
(* permission can be decided after the run is over.                        *)
Times(r, type) == {i \in DOMAIN log[r] : log[r][i].type = type}

Permitted(type) ==
  LET running == Has(Main, "run.started") /\ ~HasEnded(Main)
  IN  \/ type = "run.started" /\ ~Has(Main, type) /\ ~HasEnded(Main)
      \/ type = "message.delta" /\ running /\ Cardinality(Times(Main, type)) < MaxDeltas
      \/ type = "permission.requested" /\ running /\ ~Has(Main, type)
      \/ /\ type = "permission.resolve_requested"
         /\ running /\ Has(Main, "permission.requested")
         /\ ~Has(Main, "permission.resolved") /\ ~Has(Main, type)
      \/ type = "permission.resolved" /\ Has(Main, "permission.requested") /\ ~Has(Main, type)
      \/ type = "run.completed" /\ running
      \/ type = "cancel.ignored" /\ IsOver(Main) /\ ~Has(Main, type)

KeyOf(type) ==
  IF type = "message.delta" THEN "1"
  ELSE IF type \in PermissionEventTypes \cup {"permission.resolve_requested"}
       THEN "permission" ELSE NoKey

EventTypes ==
  {"run.started", "message.delta", "permission.requested",
   "permission.resolve_requested", "permission.resolved", "run.completed",
   "cancel.ignored"}

Room == IF moves <= 1 THEN MaxEvents ELSE MaxMoved

Rows(r) == [events |-> log[r], status |-> rows[r].status, job |-> rows[r].job]

(* The events and rows of the run after a step of the server.              *)
Becomes(r, new) ==
  /\ Len(new.events) <= Room
  /\ log' = [log EXCEPT ![r] = new.events]
  /\ rows' = [rows EXCEPT ![r] = [status |-> new.status, job |-> new.job]]

AppendEvent(type) ==
  /\ Permitted(type)
  /\ Becomes(Main, Appended(Rows(Main), Kind(type, KeyOf(type)), Commits))
  /\ UNCHANGED <<cache, flight, page, view, conn, source, hopped, moves, faults>>

-----------------------------------------------------------------------------
CanMove ==
  /\ moves < MaxMoves
  /\ moves = 0 \/ Len(log[Main]) <= MaxMoved

(* The effect on [runId, runStatus]: what was open is closed, and a new    *)
(* EventSource, without a last event id, is opened unless the run is over. *)
StreamEffect(status) ==
  IF IsTerminal(status)
  THEN conn' = "closed" /\ source' = NoSource
  ELSE conn' = "connecting" /\ source' = [NoSource EXCEPT !.phase = "connecting"]

OpenPage(r) ==
  /\ page = Away /\ CanMove
  /\ page' = r /\ view' = Events(r, cache[r].events) /\ hopped' = FALSE
  /\ StreamEffect(cache[r].status)
  /\ moves' = moves + 1
  /\ UNCHANGED <<log, rows, cache, flight, faults>>

(* The same route with another runId (the history, an edited address) does *)
(* not unmount the page: its state stays.                                  *)
HopTo(r) ==
  /\ page \in Runs \ {r} /\ CanMove
  /\ page' = r /\ view' = MergeEvents(view, Events(r, cache[r].events))
  /\ hopped' = TRUE
  /\ StreamEffect(cache[r].status)
  /\ moves' = moves + 1
  /\ UNCHANGED <<log, rows, cache, flight, faults>>

LeavePage ==
  /\ page \in Runs
  /\ page' = Away /\ view' = {} /\ conn' = "closed" /\ source' = NoSource
  /\ hopped' = FALSE
  /\ UNCHANGED <<log, rows, cache, flight, moves, faults>>

-----------------------------------------------------------------------------
(* The queries ["runs", r] and ["runs", r, "events"].  Only a mounted page *)
(* asks; an answer that arrives later still goes into the cache.           *)
AskRun(r) ==
  /\ page = r /\ flight[r].status = NoData /\ cache[r].status # rows[r].status
  /\ flight' = [flight EXCEPT ![r].status = rows[r].status]
  /\ UNCHANGED <<log, rows, cache, page, view, conn, source, hopped, moves, faults>>

(* Mutant: polling only stands in for a stream that is not there.          *)
AskEventsWithoutStream(r) ==
  /\ page = r /\ flight[r].events = 0 /\ cache[r].events # Len(log[r])
  /\ conn # "live"
  /\ flight' = [flight EXCEPT ![r].events = Len(log[r])]
  /\ UNCHANGED <<log, rows, cache, page, view, conn, source, hopped, moves, faults>>

AskEvents(r) ==
  /\ page = r /\ flight[r].events = 0 /\ cache[r].events # Len(log[r])
  /\ flight' = [flight EXCEPT ![r].events = Len(log[r])]
  /\ UNCHANGED <<log, rows, cache, page, view, conn, source, hopped, moves, faults>>

ReceiveRun(r) ==
  /\ flight[r].status # NoData
  /\ cache' = [cache EXCEPT ![r].status = flight[r].status]
  /\ flight' = [flight EXCEPT ![r].status = NoData]
  /\ IF page = r /\ flight[r].status # cache[r].status
     THEN StreamEffect(flight[r].status) ELSE UNCHANGED <<conn, source>>
  /\ UNCHANGED <<log, rows, page, view, hopped, moves, faults>>

(* Mutants: the answer goes to whatever page is open, or replaces what is  *)
(* shown.                                                                  *)
ReceiveEventsAnywhere(r) ==
  /\ flight[r].events # 0
  /\ cache' = [cache EXCEPT ![r].events = flight[r].events]
  /\ flight' = [flight EXCEPT ![r].events = 0]
  /\ view' = IF page \in Runs THEN MergeEvents(view, Events(r, flight[r].events)) ELSE view
  /\ UNCHANGED <<log, rows, page, conn, source, hopped, moves, faults>>

ReceiveEventsOnly(r) ==
  /\ flight[r].events # 0
  /\ cache' = [cache EXCEPT ![r].events = flight[r].events]
  /\ flight' = [flight EXCEPT ![r].events = 0]
  /\ view' = IF page = r THEN Events(r, flight[r].events) ELSE view
  /\ UNCHANGED <<log, rows, page, conn, source, hopped, moves, faults>>

(* The effect on [initialEvents].                                          *)
ReceiveEvents(r) ==
  /\ flight[r].events # 0
  /\ cache' = [cache EXCEPT ![r].events = flight[r].events]
  /\ flight' = [flight EXCEPT ![r].events = 0]
  /\ view' = IF page = r THEN MergeEvents(view, Events(r, flight[r].events)) ELSE view
  /\ UNCHANGED <<log, rows, page, conn, source, hopped, moves, faults>>

(* A failed fetch keeps the data there was.                                *)
LoseAnswer(r) ==
  /\ faults < MaxFaults /\ flight[r] # NoCache
  /\ flight' = [flight EXCEPT ![r] = NoCache]
  /\ faults' = faults + 1
  /\ UNCHANGED <<log, rows, cache, page, view, conn, source, hopped, moves>>

-----------------------------------------------------------------------------
(* stream_events.  The server starts after the client's last event id.     *)
(* Mutants: the stream begins one event too late, or with what is new.     *)
SkipOne(lastEventId) == IF lastEventId < Len(log[page]) THEN lastEventId + 1 ELSE lastEventId
FromNowOn(lastEventId) == Len(log[page])

StartAfter(lastEventId) == lastEventId

AcceptStream ==
  /\ source.phase = "connecting"
  /\ source' = [phase |-> "open", got |-> StartAfter(source.got), quiet |-> FALSE]
  /\ conn' = "live"
  /\ UNCHANGED <<log, rows, cache, flight, page, view, hopped, moves, faults>>

(* wait_for_events returns what there is after last_sequence, which is     *)
(* written (ReceiveMessage), or nothing, and then another look at the run  *)
(* decides whether the stream ends.                                        *)
WaitInVain ==
  /\ source.phase = "open" /\ ~source.quiet /\ source.got = Len(log[page])
  /\ source' = [source EXCEPT !.quiet = TRUE]
  /\ UNCHANGED <<log, rows, cache, flight, page, view, conn, hopped, moves, faults>>

CheckTerminal ==
  /\ source.phase = "open" /\ source.quiet
  /\ source' = [source EXCEPT !.quiet = FALSE,
                  !.phase = IF IsOver(page) THEN "ended" ELSE "open"]
  /\ UNCHANGED <<log, rows, cache, flight, page, view, conn, hopped, moves, faults>>

-----------------------------------------------------------------------------
(* The EventSource.  Every event that arrives moves the last event id;     *)
(* those with a listener are shown, and a terminal one closes the source.  *)
ReceiveMessage ==
  LET e == Event(page, source.got + 1)
  IN  /\ source.phase = "open" /\ ~source.quiet /\ source.got < Len(log[page])
      /\ view' = IF e.type \in liveEventTypes THEN MergeEvents(view, {e}) ELSE view
      /\ IF e.type \in liveEventTypes /\ IsTerminalEvent(e.type)
         THEN conn' = "closed" /\ source' = NoSource
         ELSE conn' = conn /\ source' = [source EXCEPT !.got = @ + 1]
      /\ UNCHANGED <<log, rows, cache, flight, page, hopped, moves, faults>>

Broken == [phase |-> "retry", got |-> source.got, quiet |-> FALSE]

StreamEnds ==
  /\ source.phase = "ended"
  /\ source' = Broken /\ conn' = "reconnecting"
  /\ UNCHANGED <<log, rows, cache, flight, page, view, hopped, moves, faults>>

DropStream ==
  /\ source.phase \in {"connecting", "open", "ended"} /\ faults < MaxFaults
  /\ source' = Broken /\ conn' = "reconnecting"
  /\ faults' = faults + 1
  /\ UNCHANGED <<log, rows, cache, flight, page, view, hopped, moves>>

Reconnect ==
  /\ source.phase = "retry"
  /\ source' = [source EXCEPT !.phase = "connecting"]
  /\ UNCHANGED <<log, rows, cache, flight, page, view, conn, hopped, moves, faults>>

(* The server stops, in the middle of an append or not, and starts again:  *)
(* it loads what was committed, and fails a run that it was executing.     *)
(* Runs of remote workers go on; for their pages it is DropStream.         *)
RestartServer(type, done) ==
  /\ faults < MaxFaults /\ ~Has(Main, "permission.resolve_requested")
  /\ done > 0 => Permitted(type)
  /\ Becomes(Main, FailOrphan(Appended(Rows(Main), Kind(type, KeyOf(type)), done)))
  /\ source' = IF source.phase \in {"connecting", "open", "ended"} THEN Broken ELSE source
  /\ conn' = IF source' = source THEN conn ELSE "reconnecting"
  /\ faults' = faults + 1
  /\ UNCHANGED <<cache, flight, page, view, hopped, moves>>

(* An error response ends the source for good; the polls go on.            *)
RefuseStream ==
  /\ source.phase = "connecting" /\ faults < MaxFaults
  /\ source' = [NoSource EXCEPT !.phase = "failed"] /\ conn' = "closed"
  /\ faults' = faults + 1
  /\ UNCHANGED <<log, rows, cache, flight, page, view, hopped, moves>>

-----------------------------------------------------------------------------
Navigate == (\E r \in Runs : OpenPage(r) \/ HopTo(r)) \/ LeavePage

Query(r) == AskRun(r) \/ AskEvents(r) \/ ReceiveRun(r) \/ ReceiveEvents(r)

Serve == AcceptStream \/ WaitInVain \/ CheckTerminal

Listen == ReceiveMessage \/ StreamEnds \/ Reconnect

Next ==
  \/ \E type \in EventTypes : AppendEvent(type)
  \/ Navigate
  \/ \E r \in Runs : Query(r) \/ LoseAnswer(r)
  \/ Serve \/ Listen \/ DropStream \/ RefuseStream
  \/ \E type \in EventTypes, done \in 0 .. Commits - 1 : RestartServer(type, done)

Spec == Init /\ [][Next]_vars

(* The server writes, the network delivers and the EventSource reconnects. *)
(* Nothing makes a run end or an operator navigate, and polling stops      *)
(* while the tab is hidden: it is assumed where a property needs it.       *)
Fairness ==
  /\ WF_vars(Serve) /\ WF_vars(Listen)
  /\ \A r \in Runs : WF_vars(ReceiveRun(r)) /\ WF_vars(ReceiveEvents(r))

LiveSpec == Spec /\ Fairness

Polling == \A r \in Runs : WF_vars(AskRun(r)) /\ WF_vars(AskEvents(r))

-----------------------------------------------------------------------------
Statuses == {"queued", "running", "completed", "failed", "cancelled", NoData}

EventsOfRuns == UNION {Events(r, Len(log[r])) : r \in Runs}

(* The state of page, queries and stream, and that all of it is about      *)
(* events the logs have (mergeEvents, useRunLiveEvents, stream_events).    *)
RunPageTypeOK ==
  /\ \A r \in Runs :
       /\ Len(log[r]) \in 1 .. MaxEvents
       /\ {rows[r].status, cache[r].status, flight[r].status} \subseteq Statuses
       /\ {cache[r].events, flight[r].events} \subseteq 0 .. Len(log[r])
  /\ page \in Runs \cup {Away}
  /\ view \subseteq EventsOfRuns
  /\ \A e, f \in view : e.seq = f.seq => e = f
  /\ conn \in {"connecting", "live", "reconnecting", "closed"}
  /\ source.phase \in {"none", "connecting", "open", "ended", "retry", "failed"}
  /\ source.got \in IF page \in Runs THEN 0 .. Len(log[page]) ELSE {0}
  /\ {source.quiet, hopped} \subseteq BOOLEAN
  /\ moves \in 0 .. MaxMoves /\ faults \in 0 .. MaxFaults

(* A page shows events of its own run only: neither a poll answered late   *)
(* nor a message of a closed stream brings in those of the run whose page  *)
(* was left.  Not so once the page has turned to another run in place, for *)
(* then the events it has are kept (useState of useRunLiveEvents).         *)
ViewIsOfItsRun == ~hopped => \A e \in view : e.run = page

(* Wherever the server stopped, once it is up again a run that is over has *)
(* an end in its log, and a log that has an end has no job that somebody   *)
(* still holds.  The status may go on saying that the run is running: then *)
(* the server had stopped between the commits of job and run, and nothing  *)
(* ever sets it right (is_terminal looks at the log, so that a             *)
(* cancellation is ignored).                                               *)
EndsAreLogged ==
  \A r \in Runs :
    /\ IsTerminal(rows[r].status) => HasEnded(r)
    /\ HasEnded(r) <=> rows[r].job = "over"

(* Among the events up to the last one shown only those are missing that   *)
(* no listener waits for: polls and streams, each of which may be behind   *)
(* the other, broken off or begun again, leave no hole.                    *)
HolesAreUnlistened ==
  ~hopped => \A e \in view : \A n \in 1 .. e.seq :
    Event(page, n) \in view \/ log[page][n].type \notin liveEventTypes

(* The panel offers a permission if and only if it was requested and not   *)
(* decided by the last event shown, and what it offers can be found in the *)
(* transcript under the filters for permissions and for warnings.          *)
Shown(n) == \E e \in view : n <= e.seq
IsShown(type, key) ==
  \E n \in DOMAIN log[page] : Shown(n) /\ log[page][n] = Kind(type, key)

PanelIsTruthful ==
  page \in Runs /\ ~hopped =>
    LET pending == PendingPermissions(view)
        bubbles(filter) == UNION {b.body : b \in FilterTranscript(RunnerTranscript(view), filter)}
    IN  /\ pending = {p \in {"permission"} : /\ IsShown("permission.requested", p)
                                            /\ ~IsShown("permission.resolved", p)}
        /\ \A p \in pending, filter \in {"permission", "warning"} :
             \E e \in bubbles(filter) : e.type = "permission.requested" /\ e.key = p

(* What an agent has said only grows at its end while its page is open: no *)
(* event that arrives late changes text an operator has read.              *)
AgentTexts(events) == {item \in RunnerTranscript(events) : item.role = "agent"}

AgentTextOnlyGrows ==
  [][page' = page /\ page \in Runs /\ ~hopped =>
       \A old \in AgentTexts(view) : \E new \in AgentTexts(view') :
         /\ old.body \subseteq new.body
         /\ \A e \in new.body \ old.body : e.seq > old.sequence]_vars

(* The page follows the log of its run.                                    *)
Followed == INSTANCE LogFollower WITH
  Subjects  <- Runs,
  NoSubject <- Away,
  entries   <- [r \in Runs |-> Events(r, Len(log[r]))],
  subject   <- page,
  shown     <- {e \in view : e.run = page}

FollowsTheLog == Followed!Spec

(* While a page stays open and its tab is visible it comes to show the     *)
(* whole log of its run, late and unlistened events included.              *)
ViewCatchesUp ==
  Polling => \A r \in Runs :
    <>[](page = r) => <>[](Events(r, Len(log[r])) \subseteq view)

(* Where no poll says that the run is over the stream does: everything it  *)
(* listens to is shown up to the end of the run, and it is not reopened    *)
(* for ever.  A stream the server refused does nothing of the sort.        *)
StreamSuffices ==
  \A r \in Runs :
    <>[](page = r /\ ~IsTerminal(cache[r].status) /\ source.phase # "failed") =>
      <>[](HasEnded(r) =>
             /\ source = NoSource /\ conn = "closed"
             /\ \A n \in DOMAIN log[r] :
                  \/ log[r][n].type \notin liveEventTypes
                  \/ Event(r, n) \in view
                  \/ \E m \in 1 .. n - 1 : IsTerminalEvent(log[r][m].type))
=============================================================================
