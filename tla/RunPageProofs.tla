---------------------------- MODULE RunPageProofs ----------------------------
(***************************************************************************)
(* What a page of a run shows, for logs of any length, any number of pages *)
(* opened and any number of lost answers, broken streams and restarts of   *)
(* the server: only events of its run, without holes, and never fewer than *)
(* before.                                                                 *)
(***************************************************************************)
EXTENDS RunPage, SequenceTheorems, WellFoundedInduction, TLAPS

(* What a log has: events of a permission tell which.                      *)
Kinds ==
  {k \in [type : EventTypes \cup {"run.created", "lease.orphaned", "run.failed"},
          key : {"1", "permission", NoKey}] :
     k.type \in PermissionEventTypes => k.key = "permission"}
Jobs == {"running", "over"}
Answers == [status : Statuses, events : Nat]
Phases == {"none", "connecting", "open", "ended", "retry", "failed"}
Sources == [phase : Phases, got : Nat, quiet : BOOLEAN]

(* Every event that is shown is one of a log.                              *)
InLog(e) == e.run \in Runs /\ e.seq \in 1 .. Len(log[e.run]) /\ e = Event(e.run, e.seq)

PageTypeOK ==
  /\ log \in [Runs -> Seq(Kinds)]
  /\ rows \in [Runs -> [status : Statuses, job : Jobs]]
  /\ cache \in [Runs -> Answers] /\ flight \in [Runs -> Answers]
  /\ page \in Runs \cup {Away}
  /\ source \in Sources

(* No answer says more than the log, and no stream is ahead of it.         *)
NothingAhead ==
  /\ \A r \in Runs : cache[r].events <= Len(log[r]) /\ flight[r].events <= Len(log[r])
  /\ page \in Runs => source.got <= Len(log[page])
  /\ page = Away => source = NoSource

ViewIsLogged ==
  /\ \A e \in view : InLog(e)
  /\ page = Away => view = {}

(* What the stream has delivered is shown as far as anybody listens to it. *)
StreamIsShown ==
  page \in Runs /\ ~hopped =>
    \A n \in 1 .. source.got :
      Event(page, n) \in view \/ log[page][n].type \notin liveEventTypes

PageInv ==
  /\ PageTypeOK /\ NothingAhead /\ ViewIsLogged
  /\ ViewIsOfItsRun /\ StreamIsShown /\ HolesAreUnlistened

-----------------------------------------------------------------------------
(* An event has the run and the number it is made from.                    *)
LEMMA EventFields ==
  ASSUME NEW r, NEW n
  PROVE  Event(r, n).run = r /\ Event(r, n).seq = n
BY DEF Event

(* Events up to a number within the log are events of the log, and all of  *)
(* them.                                                                   *)
LEMMA EventsAreLogged ==
  ASSUME PageTypeOK, NEW r \in Runs, NEW m \in Nat, m <= Len(log[r]),
         NEW e \in Events(r, m)
  PROVE  InLog(e) /\ e.run = r /\ e.seq <= m
BY EventFields DEF Events, InLog, PageTypeOK

LEMMA EventsAreAll ==
  ASSUME NEW r, NEW m \in Nat, NEW n \in 1 .. m
  PROVE  Event(r, n) \in Events(r, m)
BY DEF Events

(* Two logged events of one run with one number are one.                   *)
LEMMA LoggedOnce ==
  ASSUME NEW e, NEW f, InLog(e), InLog(f), e.run = f.run, e.seq = f.seq
  PROVE  e = f
BY DEF InLog

(* Merging logged events of the page's run takes back nothing of it.       *)
LEMMA MergeKeeps ==
  ASSUME NEW S, \A e \in S : InLog(e) /\ e.run = page,
         \A e \in view : InLog(e), NEW e \in view, e.run = page
  PROVE  e \in MergeEvents(view, S)
BY LoggedOnce DEF MergeEvents

LEMMA MergeAdds ==
  ASSUME NEW S, NEW e \in MergeEvents(view, S)
  PROVE  e \in S \/ e \in view
BY DEF MergeEvents

LEMMA MergeHasAll ==
  ASSUME NEW S, NEW e \in S
  PROVE  e \in MergeEvents(view, S)
BY DEF MergeEvents
-----------------------------------------------------------------------------
(* What a page shows, and what the stream has delivered to it, as the      *)
(* steps change it.                                                        *)
ShownInv == ViewIsLogged /\ ViewIsOfItsRun /\ HolesAreUnlistened

Settled(S) ==
  \A e \in S : \A n \in 1 .. e.seq :
    Event(page, n) \in S \cup view \/ log[page][n].type \notin liveEventTypes

(* Events that leave no hole are merged into what is shown.                *)
LEMMA Learning ==
  ASSUME ShownInv, page \in Runs, UNCHANGED <<log, page, hopped>>,
         NEW S, \A e \in S : InLog(e) /\ e.run = page, hopped \/ Settled(S),
         view' = MergeEvents(view, S)
  PROVE  ShownInv'
<1>1. \A r, n : Event(r, n)' = Event(r, n)
  BY DEF Event
<1>2. \A e : InLog(e)' <=> InLog(e)
  BY <1>1 DEF InLog
<1>3. ViewIsLogged'
  BY <1>2, MergeAdds, page \in Runs, RunPageAssumption DEF ShownInv, ViewIsLogged
<1>4. ViewIsOfItsRun'
  BY MergeAdds DEF ShownInv, ViewIsOfItsRun
<1>5. ASSUME ~hopped, NEW e \in view', NEW n \in 1 .. e.seq
      PROVE  Event(page, n) \in view' \/ log[page][n].type \notin liveEventTypes
  <2>1. Event(page, n) \in S \cup view \/ log[page][n].type \notin liveEventTypes
    BY <1>5, MergeAdds DEF ShownInv, HolesAreUnlistened, Settled
  <2>2. CASE Event(page, n) \in view
    BY <2>2, MergeKeeps, EventFields DEF ShownInv, ViewIsLogged
  <2>3. CASE Event(page, n) \in S
    BY <2>3, MergeHasAll
  <2>4. QED
    BY <2>1, <2>2, <2>3
<1>6. HolesAreUnlistened'
  BY <1>1, <1>5 DEF HolesAreUnlistened
<1>7. QED
  BY <1>3, <1>4, <1>6 DEF ShownInv

(* The first events of a log leave no hole.                                *)
LEMMA PollsSettle ==
  ASSUME PageTypeOK, page \in Runs, NEW m \in Nat, m <= Len(log[page])
  PROVE  /\ \A e \in Events(page, m) : InLog(e) /\ e.run = page
         /\ Settled(Events(page, m))
<1>1. \A e \in Events(page, m) : InLog(e) /\ e.run = page /\ e.seq <= m
  BY EventsAreLogged
<1>2. ASSUME NEW e \in Events(page, m), NEW n \in 1 .. e.seq
      PROVE  Event(page, n) \in Events(page, m)
  <2>1. n \in 1 .. m
    BY <1>1 DEF InLog, PageTypeOK
  <2>2. QED
    BY <2>1, EventsAreAll
<1>3. QED
  BY <1>1, <1>2 DEF Settled

(* A page is opened with what the cache has.                               *)
LEMMA Opening ==
  ASSUME PageTypeOK, NEW r \in Runs, NEW m \in Nat, m <= Len(log[r]),
         log' = log, page' = r, view' = Events(r, m)
  PROVE  ShownInv'
<1>1. \A n : Event(r, n)' = Event(r, n)
  BY DEF Event
<1>2. \A e \in view' : InLog(e) /\ e.run = r /\ e.seq <= m
  BY EventsAreLogged
<1>3. \A e : InLog(e) => InLog(e)'
  BY DEF InLog, Event
<1>4. ViewIsLogged' /\ ViewIsOfItsRun'
  BY <1>2, <1>3, RunPageAssumption DEF ViewIsLogged, ViewIsOfItsRun
<1>5. ASSUME NEW e \in view', NEW n \in 1 .. e.seq
      PROVE  Event(r, n) \in view'
  <2>1. n \in 1 .. m
    BY <1>2 DEF InLog, PageTypeOK
  <2>2. QED
    BY <2>1, EventsAreAll
<1>6. HolesAreUnlistened'
  BY <1>1, <1>5 DEF HolesAreUnlistened
<1>7. QED
  BY <1>4, <1>6 DEF ShownInv

(* A log grows: what was logged stays.                                     *)
Grows ==
  /\ log' \in [Runs -> Seq(Kinds)]
  /\ \A r \in Runs : Len(log[r]) <= Len(log'[r])
  /\ \A r \in Runs, n \in Nat : n \in 1 .. Len(log[r]) => log'[r][n] = log[r][n]

LEMMA GrownEvents ==
  ASSUME PageTypeOK, Grows, NEW r \in Runs, NEW n \in 1 .. Len(log[r])
  PROVE  Event(r, n)' = Event(r, n)
BY DEF Grows, Event, PageTypeOK

LEMMA Growing ==
  ASSUME PageTypeOK, ShownInv, Grows, UNCHANGED <<page, view, hopped>>
  PROVE  ShownInv'
<1>1. ASSUME NEW e, InLog(e)
      PROVE  InLog(e)'
  <2>1. e.run \in Runs /\ e.seq \in 1 .. Len(log[e.run]) /\ e = Event(e.run, e.seq)
    BY <1>1 DEF InLog
  <2>2. e.seq \in 1 .. Len(log'[e.run])
    BY <2>1 DEF Grows, PageTypeOK
  <2>3. QED
    BY <2>1, <2>2, GrownEvents DEF InLog
<1>2. ViewIsLogged' /\ ViewIsOfItsRun'
  BY <1>1 DEF ShownInv, ViewIsLogged, ViewIsOfItsRun
<1>3. ASSUME ~hopped, NEW e \in view, NEW n \in 1 .. e.seq
      PROVE  /\ Event(page, n)' = Event(page, n)
             /\ log'[page][n] = log[page][n]
  <2>1. page \in Runs /\ e.seq \in 1 .. Len(log[page])
    BY <1>3 DEF ShownInv, ViewIsLogged, ViewIsOfItsRun, InLog, PageTypeOK
  <2>2. n \in 1 .. Len(log[page])
    BY <2>1 DEF PageTypeOK
  <2>3. QED
    BY <2>1, <2>2, GrownEvents DEF Grows
<1>4. HolesAreUnlistened'
  BY <1>3 DEF ShownInv, HolesAreUnlistened
<1>5. QED
  BY <1>2, <1>4 DEF ShownInv

(* A stream that has delivered nothing yet.                                *)
LEMMA NothingDelivered ==
  ASSUME source'.got = 0
  PROVE  StreamIsShown'
BY DEF StreamIsShown

(* Nothing that is shown or delivered changes.                             *)
LEMMA Nothing ==
  ASSUME ShownInv, UNCHANGED <<log, page, view, hopped>>
  PROVE  ShownInv'
BY DEF ShownInv, ViewIsLogged, ViewIsOfItsRun, HolesAreUnlistened, InLog, Event
-----------------------------------------------------------------------------
(* What a step is for somebody who follows the log.                        *)
GrowsLog == Grows /\ UNCHANGED <<page, view>>
KeepsShown == UNCHANGED <<log, page>> /\ \A e \in view : e.run = page => e \in view'
TurnsPage == log' = log /\ page' # page /\ page' \in Runs \cup {Away}

Follows == GrowsLog \/ KeepsShown \/ TurnsPage

LEMMA LearningFollows ==
  ASSUME ViewIsLogged, UNCHANGED <<log, page>>,
         NEW S, \A e \in S : InLog(e) /\ e.run = page,
         view' = MergeEvents(view, S)
  PROVE  Follows
BY MergeKeeps DEF ViewIsLogged, Follows, KeepsShown

LEMMA NothingFollows ==
  ASSUME UNCHANGED <<log, page, view>>
  PROVE  Follows
BY DEF Follows, KeepsShown

Kept == PageInv' /\ Follows

-----------------------------------------------------------------------------
(* One lemma for each kind of action.                                      *)
(* What the server keeps of a run, and what an append, finished or not,    *)
(* and a startup make of it.                                               *)
StoredOK(stored) ==
  stored.events \in Seq(Kinds) /\ stored.status \in Statuses /\ stored.job \in Jobs

Extends(old, new) ==
  Len(old) <= Len(new) /\ \A n \in 1 .. Len(old) : new[n] = old[n]

LEMMA StatusAfterType ==
  ASSUME NEW status \in Statuses, NEW type
  PROVE  StatusAfter(status, type) \in Statuses
<1>1. \A s \in Meaning(status, type) : s \in Statuses
  BY DEF Meaning, StatusEvents, Statuses
<1>2. QED
  BY <1>1 DEF StatusAfter

LEMMA AppendedOK ==
  ASSUME NEW stored, StoredOK(stored), NEW event \in Kinds, NEW done \in 0 .. Commits
  PROVE  /\ StoredOK(Appended(stored, event, done))
         /\ Extends(stored.events, Appended(stored, event, done).events)
<1>1. PICK new : new = Appended(stored, event, done)
  OBVIOUS
<1>2. /\ new.events = stored.events \/ new.events = Append(stored.events, event)
      /\ new.job = stored.job \/ new.job = "over"
      /\ new.status = stored.status \/ new.status = StatusAfter(stored.status, event.type)
  BY <1>1 DEF Appended
<1>3. new.events \in Seq(Kinds) /\ Extends(stored.events, new.events)
  BY <1>2, AppendProperties DEF StoredOK, Extends
<1>4. new.status \in Statuses /\ new.job \in Jobs
  BY <1>2, StatusAfterType DEF StoredOK, Jobs
<1>5. QED
  BY <1>1, <1>3, <1>4 DEF StoredOK

LEMMA FailOrphanOK ==
  ASSUME NEW stored, StoredOK(stored)
  PROVE  StoredOK(FailOrphan(stored)) /\ Extends(stored.events, FailOrphan(stored).events)
<1> DEFINE orphaned == Kind("lease.orphaned", NoKey)
           failed == Kind("run.failed", NoKey)
<1>1. orphaned \in Kinds /\ failed \in Kinds /\ Commits \in 0 .. Commits
  BY DEF Kind, Kinds, Commits, PermissionEventTypes
<1>2. PICK a : a = Appended(stored, orphaned, Commits)
  OBVIOUS
<1>3. StoredOK(a) /\ Extends(stored.events, a.events)
  BY <1>1, <1>2, AppendedOK
<1>4. PICK b : b = Appended(a, failed, Commits)
  OBVIOUS
<1>5. StoredOK(b) /\ Extends(a.events, b.events)
  BY <1>1, <1>3, <1>4, AppendedOK
<1>6. Extends(stored.events, b.events)
  BY <1>3, <1>5 DEF Extends, StoredOK
<1>7. PICK f : f = FailOrphan(stored)
  OBVIOUS
<1>8. \/ f = stored
      \/ f = [stored EXCEPT !.job = "over"]
      \/ f = b
  BY <1>2, <1>4, <1>7 DEF FailOrphan
<1>9. CASE f = stored
  BY <1>7, <1>9 DEF Extends, StoredOK
<1>10. CASE f = b
  BY <1>5, <1>6, <1>7, <1>10
<1>11. CASE f = [stored EXCEPT !.job = "over"]
  BY <1>7, <1>11 DEF Extends, StoredOK, Jobs
<1>12. QED
  BY <1>8, <1>9, <1>10, <1>11

LEMMA BecomesGrows ==
  ASSUME PageTypeOK, NEW new, StoredOK(new), Extends(log[Main], new.events),
         Becomes(Main, new)
  PROVE  Grows /\ rows' \in [Runs -> [status : Statuses, job : Jobs]]
<1>1. /\ log' = [log EXCEPT ![Main] = new.events]
      /\ rows' = [rows EXCEPT ![Main] = [status |-> new.status, job |-> new.job]]
  BY DEF Becomes
<1>2. rows' \in [Runs -> [status : Statuses, job : Jobs]]
  BY <1>1 DEF PageTypeOK, StoredOK
<1>3. log' \in [Runs -> Seq(Kinds)] /\ log'[Main] = new.events
  BY <1>1 DEF PageTypeOK, StoredOK, Runs
<1>4. \A r \in Runs \ {Main} : log'[r] = log[r]
  BY <1>1 DEF PageTypeOK
<1>5. ASSUME NEW r \in Runs
      PROVE  Extends(log[r], log'[r])
  <2>1. CASE r = Main
    BY <1>3, <2>1
  <2>2. CASE r # Main
    <3>1. log'[r] = log[r] /\ Len(log[r]) \in Nat
      BY <1>4, <2>2 DEF PageTypeOK
    <3>2. QED
      BY <3>1 DEF Extends
  <2>3. QED
    BY <2>1, <2>2
<1>6. QED
  BY <1>2, <1>3, <1>5 DEF Grows, Extends

LEMMA ServerKeeps ==
  ASSUME PageInv, Grows, rows' \in [Runs -> [status : Statuses, job : Jobs]],
         UNCHANGED <<cache, flight, page, view, hopped>>,
         source' \in Sources, source'.got = source.got, page = Away => source' = source
  PROVE  Kept
<1>1. PageTypeOK'
  BY DEF PageInv, PageTypeOK, Grows
<1>2. NothingAhead'
  BY DEF PageInv, PageTypeOK, NothingAhead, Grows, Answers, Sources, NoSource
<1>3. ShownInv'
  BY Growing DEF PageInv, ShownInv
<1>4. StreamIsShown'
  <2>1. ASSUME page \in Runs, NEW n \in 1 .. source.got
        PROVE  Event(page, n)' = Event(page, n) /\ log'[page][n] = log[page][n]
    <3>1. n \in 1 .. Len(log[page])
      BY <2>1 DEF PageInv, PageTypeOK, NothingAhead, Sources
    <3>2. QED
      BY <2>1, <3>1, GrownEvents DEF PageInv, Grows
  <2>2. QED
    BY <2>1 DEF PageInv, StreamIsShown
<1>5. QED
  BY <1>1, <1>2, <1>3, <1>4 DEF Kept, PageInv, ShownInv, Follows, GrowsLog

LEMMA KindOfType ==
  ASSUME NEW type \in EventTypes
  PROVE  Kind(type, KeyOf(type)) \in Kinds
<1>1. KeyOf(type) \in {"1", "permission", NoKey}
  BY DEF KeyOf
<1>2. type \in PermissionEventTypes => KeyOf(type) = "permission"
  BY DEF KeyOf, PermissionEventTypes
<1>3. QED
  BY <1>1, <1>2 DEF Kind, Kinds

LEMMA RowsOK == PageTypeOK => StoredOK(Rows(Main)) /\ Rows(Main).events = log[Main]
BY DEF PageTypeOK, StoredOK, Rows, Runs

LEMMA AppendKeeps ==
  ASSUME PageInv, NEW type \in EventTypes, AppendEvent(type)
  PROVE  Kept
<1>1. PICK new : new = Appended(Rows(Main), Kind(type, KeyOf(type)), Commits)
  OBVIOUS
<1>2. StoredOK(new) /\ Extends(log[Main], new.events)
  <2>1. PICK s, e : s = Rows(Main) /\ e = Kind(type, KeyOf(type))
    OBVIOUS
  <2>2. StoredOK(s) /\ s.events = log[Main] /\ e \in Kinds /\ Commits \in 0 .. Commits
    BY <2>1, KindOfType, RowsOK DEF PageInv, Commits
  <2>3. StoredOK(Appended(s, e, Commits)) /\ Extends(s.events, Appended(s, e, Commits).events)
    BY <2>2, AppendedOK
  <2>4. QED
    BY <1>1, <2>1, <2>2, <2>3
<1>3. Becomes(Main, new) /\ UNCHANGED <<cache, flight, page, view, hopped, source>>
  BY <1>1 DEF AppendEvent
<1>4. Grows /\ rows' \in [Runs -> [status : Statuses, job : Jobs]]
  BY <1>2, <1>3, BecomesGrows DEF PageInv
<1>5. QED
  BY <1>3, <1>4, ServerKeeps DEF PageInv, PageTypeOK

LEMMA RestartKeeps ==
  ASSUME PageInv, NEW type \in EventTypes, NEW done \in 0 .. Commits - 1,
         RestartServer(type, done)
  PROVE  Kept
<1>1. PICK torn : torn = Appended(Rows(Main), Kind(type, KeyOf(type)), done)
  OBVIOUS
<1>2. StoredOK(torn) /\ Extends(log[Main], torn.events)
  <2>1. PICK s, e : s = Rows(Main) /\ e = Kind(type, KeyOf(type))
    OBVIOUS
  <2>2. StoredOK(s) /\ s.events = log[Main] /\ e \in Kinds /\ done \in 0 .. Commits
    BY <2>1, KindOfType, RowsOK DEF PageInv, Commits
  <2>3. StoredOK(Appended(s, e, done)) /\ Extends(s.events, Appended(s, e, done).events)
    BY <2>2, AppendedOK
  <2>4. QED
    BY <1>1, <2>1, <2>2, <2>3
<1>3. PICK new : new = FailOrphan(torn)
  OBVIOUS
<1>4. StoredOK(new) /\ Extends(torn.events, new.events)
  BY <1>2, <1>3, FailOrphanOK
<1>5. Extends(log[Main], new.events)
  BY <1>2, <1>4 DEF Extends, StoredOK, PageInv, PageTypeOK, Runs
<1>6. Becomes(Main, new) /\ UNCHANGED <<cache, flight, page, view, hopped>>
  BY <1>1, <1>3 DEF RestartServer
<1>7. Grows /\ rows' \in [Runs -> [status : Statuses, job : Jobs]]
  BY <1>4, <1>5, <1>6, BecomesGrows DEF PageInv
<1>8. source \in Sources
  BY DEF PageInv, PageTypeOK
<1>9. source' \in Sources /\ source'.got = source.got
  BY <1>8 DEF RestartServer, Broken, Sources, Phases
<1>10. page = Away => source' = source
  BY DEF RestartServer, PageInv, NothingAhead, NoSource
<1>11. QED
  BY <1>6, <1>7, <1>9, <1>10, ServerKeeps

(* The effect leaves a stream that has delivered nothing.                  *)
LEMMA StreamEffectType ==
  ASSUME NEW status, StreamEffect(status)
  PROVE  source' \in Sources /\ source'.got = 0
<1>1. NoSource \in Sources /\ NoSource.got = 0
  BY DEF NoSource, Sources, Phases
<1>2. source' = NoSource \/ source' = [NoSource EXCEPT !.phase = "connecting"]
  BY DEF StreamEffect
<1>3. QED
  BY <1>1, <1>2 DEF Sources, Phases

LEMMA OpenKeeps ==
  ASSUME PageInv, NEW r \in Runs, OpenPage(r)
  PROVE  Kept
<1>1. source' \in Sources /\ source'.got = 0
  BY StreamEffectType DEF OpenPage
<1>2. PageTypeOK' /\ NothingAhead'
  BY <1>1, RunPageAssumption DEF PageInv, PageTypeOK, NothingAhead, OpenPage
<1>3. ShownInv'
  BY Opening DEF PageInv, PageTypeOK, NothingAhead, Answers, OpenPage
<1>4. Follows
  BY RunPageAssumption DEF Follows, TurnsPage, OpenPage
<1>5. QED
  BY <1>1, <1>2, <1>3, <1>4, NothingDelivered DEF Kept, PageInv, ShownInv

LEMMA HopKeeps ==
  ASSUME PageInv, NEW r \in Runs, HopTo(r)
  PROVE  Kept
<1>1. source' \in Sources /\ source'.got = 0
  BY StreamEffectType DEF HopTo
<1>2. PageTypeOK' /\ NothingAhead'
  BY <1>1, RunPageAssumption DEF PageInv, PageTypeOK, NothingAhead, HopTo
<1>3. \A e \in view' : InLog(e)
  <2>1. \A e \in Events(r, cache[r].events) : InLog(e)
    BY EventsAreLogged DEF PageInv, PageTypeOK, NothingAhead, Answers
  <2>2. QED
    BY <2>1, MergeAdds DEF PageInv, ViewIsLogged, HopTo
<1>4. ViewIsLogged'
  BY <1>3, RunPageAssumption DEF ViewIsLogged, InLog, Event, HopTo
<1>5. ViewIsOfItsRun' /\ HolesAreUnlistened' /\ StreamIsShown'
  BY DEF ViewIsOfItsRun, HolesAreUnlistened, StreamIsShown, HopTo
<1>6. Follows
  BY DEF Follows, TurnsPage, HopTo
<1>7. QED
  BY <1>2, <1>4, <1>5, <1>6 DEF Kept, PageInv

LEMMA LeaveKeeps ==
  ASSUME PageInv, LeavePage
  PROVE  Kept
<1>1. PageTypeOK' /\ NothingAhead'
  BY RunPageAssumption DEF PageInv, PageTypeOK, NothingAhead, Sources, Phases, NoSource, LeavePage
<1>2. ShownInv' /\ StreamIsShown'
  BY RunPageAssumption
  DEF ShownInv, ViewIsLogged, ViewIsOfItsRun, HolesAreUnlistened, StreamIsShown, LeavePage
<1>3. Follows
  BY RunPageAssumption DEF Follows, TurnsPage, LeavePage
<1>4. QED
  BY <1>1, <1>2, <1>3 DEF Kept, PageInv, ShownInv

(* Steps that change neither the log nor what is shown, and whose stream   *)
(* has delivered no more than before.                                      *)
LEMMA QuietKeeps ==
  ASSUME PageInv, UNCHANGED <<log, page, view, hopped>>,
         PageTypeOK', NothingAhead', source'.got = source.got \/ source'.got = 0
  PROVE  Kept
<1>1. ShownInv' /\ Follows
  BY Nothing, NothingFollows DEF PageInv, ShownInv
<1>2. StreamIsShown'
  BY NothingDelivered DEF PageInv, StreamIsShown, Event
<1>3. QED
  BY <1>1, <1>2 DEF Kept, PageInv, ShownInv

LEMMA QueryKeeps ==
  ASSUME PageInv, NEW r \in Runs, AskRun(r) \/ AskEvents(r) \/ ReceiveRun(r) \/ LoseAnswer(r)
  PROVE  Kept
<1>1. CASE AskRun(r)
  <2>1. UNCHANGED <<log, rows, cache, page, source>> /\ flight' = [flight EXCEPT ![r].status = rows[r].status]
    BY <1>1 DEF AskRun
  <2>2. flight' \in [Runs -> Answers] /\ \A q \in Runs : flight'[q].events = flight[q].events
    BY <2>1 DEF PageInv, PageTypeOK, Answers
  <2>3. PageTypeOK' /\ NothingAhead'
    BY <2>1, <2>2 DEF PageInv, PageTypeOK, NothingAhead
  <2>4. QED
    BY <1>1, <2>3, QuietKeeps DEF AskRun
<1>2. CASE AskEvents(r)
  <2>1. UNCHANGED <<log, rows, cache, page, source>> /\ flight' = [flight EXCEPT ![r].events = Len(log[r])]
    BY <1>2 DEF AskEvents
  <2>2. Len(log[r]) \in Nat
    BY DEF PageInv, PageTypeOK
  <2>3. /\ flight' \in [Runs -> Answers] /\ flight'[r].events = Len(log[r])
        /\ \A q \in Runs \ {r} : flight'[q] = flight[q]
    BY <2>1, <2>2 DEF PageInv, PageTypeOK, Answers
  <2>4. PageTypeOK' /\ NothingAhead'
    BY <2>1, <2>2, <2>3 DEF PageInv, PageTypeOK, NothingAhead
  <2>5. QED
    BY <1>2, <2>4, QuietKeeps DEF AskEvents
<1>3. CASE ReceiveRun(r)
  <2>1. /\ UNCHANGED <<log, rows, page>>
        /\ cache' = [cache EXCEPT ![r].status = flight[r].status]
        /\ flight' = [flight EXCEPT ![r].status = NoData]
    BY <1>3 DEF ReceiveRun
  <2>2. NoData \in Statuses /\ flight[r].status \in Statuses
    BY DEF Statuses, PageInv, PageTypeOK, Answers
  <2>3. /\ cache' \in [Runs -> Answers] /\ \A q \in Runs : cache'[q].events = cache[q].events
        /\ flight' \in [Runs -> Answers] /\ \A q \in Runs : flight'[q].events = flight[q].events
    BY <2>1, <2>2 DEF PageInv, PageTypeOK, Answers
  <2>4. source' = source \/ (page = r /\ source' \in Sources /\ source'.got = 0)
    BY <1>3, StreamEffectType DEF ReceiveRun
  <2>5. PageTypeOK' /\ NothingAhead'
    BY <2>1, <2>3, <2>4, RunPageAssumption DEF PageInv, PageTypeOK, NothingAhead
  <2>6. QED
    BY <1>3, <2>4, <2>5, QuietKeeps DEF ReceiveRun
<1>4. CASE LoseAnswer(r)
  <2>1. UNCHANGED <<log, rows, cache, page, source>> /\ flight' = [flight EXCEPT ![r] = NoCache]
    BY <1>4 DEF LoseAnswer
  <2>2. NoCache \in Answers /\ NoCache.events = 0
    BY DEF NoCache, Answers, Statuses
  <2>3. PageTypeOK'
    BY <2>1, <2>2 DEF PageInv, PageTypeOK
  <2>4. NothingAhead'
    BY <2>1, <2>2 DEF PageInv, PageTypeOK, NothingAhead
  <2>5. QED
    BY <1>4, <2>3, <2>4, QuietKeeps DEF LoseAnswer
<1>5. QED
  BY <1>1, <1>2, <1>3, <1>4

LEMMA ReceiveEventsKeeps ==
  ASSUME PageInv, NEW r \in Runs, ReceiveEvents(r)
  PROVE  Kept
<1>1. /\ UNCHANGED <<log, rows, page, source, hopped>>
      /\ cache' = [cache EXCEPT ![r].events = flight[r].events]
      /\ flight' = [flight EXCEPT ![r].events = 0]
  BY DEF ReceiveEvents
<1>2. flight[r].events \in Nat /\ flight[r].events <= Len(log[r])
  BY DEF PageInv, PageTypeOK, NothingAhead, Answers
<1>3. /\ cache' \in [Runs -> Answers] /\ cache'[r].events = flight[r].events
      /\ flight' \in [Runs -> Answers] /\ flight'[r].events = 0
      /\ \A q \in Runs \ {r} : cache'[q] = cache[q] /\ flight'[q] = flight[q]
  BY <1>1, <1>2 DEF PageInv, PageTypeOK, Answers
<1>4. PageTypeOK' /\ NothingAhead'
  BY <1>1, <1>2, <1>3 DEF PageInv, PageTypeOK, NothingAhead
<1>5. CASE page = r
  <2>1. view' = MergeEvents(view, Events(page, flight[r].events))
    BY <1>5 DEF ReceiveEvents
  <2>2. /\ \A e \in Events(page, flight[r].events) : InLog(e) /\ e.run = page
        /\ Settled(Events(page, flight[r].events))
    BY <1>2, <1>5, PollsSettle DEF PageInv
  <2>3. ShownInv' /\ Follows
    BY <1>1, <1>5, <2>1, <2>2, Learning, LearningFollows DEF PageInv, ShownInv
  <2>4. StreamIsShown'
    <3>1. ASSUME ~hopped, NEW n \in 1 .. source.got, Event(page, n) \in view
          PROVE  Event(page, n) \in view'
      BY <3>1, <2>3, EventFields, RunPageAssumption, <1>5, <1>1, <2>1, <2>2, MergeKeeps
      DEF PageInv, ViewIsLogged
    <3>2. QED
      BY <1>1, <3>1 DEF PageInv, StreamIsShown, Event
  <2>5. QED
    BY <1>4, <2>3, <2>4 DEF Kept, PageInv, ShownInv
<1>6. CASE page # r
  BY <1>1, <1>4, <1>6, QuietKeeps DEF ReceiveEvents
<1>7. QED
  BY <1>5, <1>6

(* The steps of the stream that deliver nothing.                           *)
LEMMA StreamKeeps ==
  ASSUME PageInv,
         Serve \/ StreamEnds \/ Reconnect \/ DropStream \/ RefuseStream
  PROVE  Kept
<1>1. UNCHANGED <<log, rows, cache, flight, page, view, hopped>>
  BY DEF Serve, AcceptStream, WaitInVain, CheckTerminal, StreamEnds, Reconnect,
         DropStream, RefuseStream
<1>2. source \in Sources /\ source.phase # "none"
  <2>1. source \in Sources
    BY DEF PageInv, PageTypeOK
  <2>2. source.phase # "none"
    BY DEF Serve, AcceptStream, WaitInVain, CheckTerminal, StreamEnds, Reconnect,
           DropStream, RefuseStream
  <2>3. QED
    BY <2>1, <2>2
<1>3. page \in Runs
  BY <1>2 DEF PageInv, PageTypeOK, NothingAhead, NoSource
<1>4. source' \in Sources /\ (source'.got = source.got \/ source'.got = 0)
  <2>1. CASE AcceptStream
    BY <2>1, <1>2 DEF AcceptStream, StartAfter, Sources, Phases
  <2>2. CASE WaitInVain
    BY <2>2, <1>2 DEF WaitInVain, Sources, Phases
  <2>3. CASE CheckTerminal
    <3>1. PICK p \in {"ended", "open"} : source' = [source EXCEPT !.quiet = FALSE, !.phase = p]
      BY <2>3 DEF CheckTerminal
    <3>2. QED
      BY <3>1, <1>2 DEF Sources, Phases
  <2>4. CASE StreamEnds \/ DropStream
    <3>1. source' = [phase |-> "retry", got |-> source.got, quiet |-> FALSE]
      BY <2>4 DEF StreamEnds, DropStream, Broken
    <3>2. QED
      BY <3>1, <1>2 DEF Sources, Phases
  <2>5. CASE Reconnect
    BY <2>5, <1>2 DEF Reconnect, Sources, Phases
  <2>6. CASE RefuseStream
    BY <2>6 DEF RefuseStream, NoSource, Sources, Phases
  <2>7. QED
    BY <2>1, <2>2, <2>3, <2>4, <2>5, <2>6 DEF Serve
<1>5. PageTypeOK' /\ NothingAhead'
  BY <1>1, <1>2, <1>3, <1>4, RunPageAssumption
  DEF PageInv, PageTypeOK, NothingAhead, Sources
<1>6. QED
  BY <1>1, <1>4, <1>5, QuietKeeps

LEMMA MessageKeeps ==
  ASSUME PageInv, ReceiveMessage
  PROVE  Kept
<1> DEFINE next == source.got + 1
           e == Event(page, next)
<1>1. page \in Runs /\ source \in Sources /\ source.got \in Nat
  BY DEF PageInv, PageTypeOK, NothingAhead, NoSource, ReceiveMessage, Sources
<1>2. next \in 1 .. Len(log[page])
  BY <1>1 DEF ReceiveMessage, PageInv, PageTypeOK
<1>3. InLog(e) /\ e.run = page /\ e.seq = next /\ e.type = log[page][next].type
  BY <1>1, <1>2, EventFields DEF InLog, Event
<1>4. UNCHANGED <<log, rows, cache, flight, page, hopped>>
  BY DEF ReceiveMessage
<1>5. source' = NoSource \/ source' = [source EXCEPT !.got = next]
  BY DEF ReceiveMessage
<1>6. source' \in Sources /\ (source'.got = 0 \/ source'.got = next)
  <2>1. NoSource \in Sources /\ NoSource.got = 0
    BY DEF NoSource, Sources, Phases
  <2>2. ASSUME NEW n \in Nat, source' = [source EXCEPT !.got = n]
        PROVE  source' \in Sources /\ source'.got = n
    BY <1>1, <2>2 DEF Sources
  <2>3. QED
    BY <1>1, <1>5, <2>1, <2>2
<1>7. PageTypeOK' /\ NothingAhead'
  BY <1>1, <1>2, <1>4, <1>6, RunPageAssumption DEF PageInv, PageTypeOK, NothingAhead
<1>8. CASE e.type \in liveEventTypes
  <2>1. view' = MergeEvents(view, {e})
    BY <1>8 DEF ReceiveMessage
  <2>2. hopped \/ Settled({e})
    BY <1>3, <1>1 DEF Settled, PageInv, StreamIsShown
  <2>3. ShownInv' /\ Follows
    BY <1>1, <1>3, <1>4, <2>1, <2>2, Learning, LearningFollows DEF PageInv, ShownInv
  <2>4. ASSUME ~hopped, NEW n \in 1 .. next
        PROVE  Event(page, n) \in view' \/ log[page][n].type \notin liveEventTypes
    <3>1. CASE n = next
      BY <3>1, <2>1, MergeHasAll
    <3>2. CASE n # next
      <4>1. Event(page, n) \in view \/ log[page][n].type \notin liveEventTypes
        BY <2>4, <3>2, <1>1 DEF PageInv, StreamIsShown
      <4>2. QED
        BY <4>1, <1>3, <2>1, EventFields, MergeKeeps DEF PageInv, ViewIsLogged
    <3>3. QED
      BY <3>1, <3>2
  <2>5. StreamIsShown'
    BY <1>4, <1>6, <2>4 DEF StreamIsShown, Event
  <2>6. QED
    BY <1>7, <2>3, <2>5 DEF Kept, PageInv, ShownInv
<1>9. CASE e.type \notin liveEventTypes
  <2>1. view' = view
    BY <1>9 DEF ReceiveMessage
  <2>2. ShownInv' /\ Follows
    BY <1>4, <2>1, Nothing, NothingFollows DEF PageInv, ShownInv
  <2>3. ASSUME ~hopped, NEW n \in 1 .. next
        PROVE  Event(page, n) \in view \/ log[page][n].type \notin liveEventTypes
    BY <2>3, <1>1, <1>3, <1>9 DEF PageInv, StreamIsShown
  <2>4. StreamIsShown'
    BY <1>4, <1>6, <2>1, <2>3 DEF StreamIsShown, Event
  <2>5. QED
    BY <1>7, <2>2, <2>4 DEF Kept, PageInv, ShownInv
<1>10. QED
  BY <1>8, <1>9

LEMMA StutterKeeps ==
  ASSUME PageInv, UNCHANGED vars
  PROVE  Kept
BY QuietKeeps DEF vars, PageInv, PageTypeOK, NothingAhead

LEMMA StepKeeps ==
  ASSUME PageInv, [Next]_vars
  PROVE  Kept
<1>1. CASE \E type \in EventTypes : AppendEvent(type)
  BY <1>1, AppendKeeps
<1>2. CASE Navigate
  BY <1>2, OpenKeeps, HopKeeps, LeaveKeeps DEF Navigate
<1>3. CASE \E r \in Runs : Query(r) \/ LoseAnswer(r)
  BY <1>3, QueryKeeps, ReceiveEventsKeeps DEF Query
<1>4. CASE Serve \/ Listen \/ DropStream \/ RefuseStream
  BY <1>4, StreamKeeps, MessageKeeps DEF Listen
<1>5. CASE \E type \in EventTypes, done \in 0 .. Commits - 1 : RestartServer(type, done)
  BY <1>5, RestartKeeps
<1>6. QED
  BY <1>1, <1>2, <1>3, <1>4, <1>5, StutterKeeps DEF Next

LEMMA InvInit == Init => PageInv
<1> SUFFICES ASSUME Init PROVE PageInv
  OBVIOUS
<1>1. /\ Kind("run.created", NoKey) \in Kinds
      /\ Kind("message.delta", "1") \in Kinds
      /\ Kind("run.completed", NoKey) \in Kinds
  BY DEF Kind, Kinds, EventTypes, PermissionEventTypes
<1>2. log \in [Runs -> Seq(Kinds)]
  BY <1>1 DEF Init
<1>3. /\ NoCache \in Answers /\ NoCache.events = 0 /\ NoSource \in Sources
      /\ [status |-> "completed", events |-> 0] \in Answers
  BY DEF NoCache, NoSource, Answers, Statuses, Sources, Phases
<1>4. PageTypeOK
  <2>1. rows \in [Runs -> [status : Statuses, job : Jobs]]
    BY DEF Init, Statuses, Jobs
  <2>2. QED
    BY <1>2, <1>3, <2>1 DEF Init, PageTypeOK
<1>5. NothingAhead
  BY <1>2, <1>3, RunPageAssumption DEF Init, NothingAhead
<1>6. ViewIsLogged /\ ViewIsOfItsRun /\ StreamIsShown /\ HolesAreUnlistened
  BY RunPageAssumption
  DEF Init, ViewIsLogged, ViewIsOfItsRun, StreamIsShown, HolesAreUnlistened
<1>7. QED
  BY <1>4, <1>5, <1>6 DEF PageInv

-----------------------------------------------------------------------------
(* What is shown, cached and on its way are events of the logs, and what   *)
(* the stream has delivered is shown.                                      *)
THEOREM Invariance == Spec => []PageInv
<1>1. PageInv /\ [Next]_vars => PageInv'
  BY StepKeeps DEF Kept
<1>2. QED
  BY InvInit, <1>1, PTL DEF Spec

(* No page shows an event of a run whose page was left.                    *)
THEOREM PagesAreSeparate == Spec => []ViewIsOfItsRun
<1>1. PageInv => ViewIsOfItsRun
  BY DEF PageInv
<1>2. QED
  BY <1>1, Invariance, PTL

(* Whatever polls and streams overtake each other, no event that anybody   *)
(* listens to is missing before the last one shown.                        *)
THEOREM NoHoles == Spec => []HolesAreUnlistened
<1>1. PageInv => HolesAreUnlistened
  BY DEF PageInv
<1>2. QED
  BY <1>1, Invariance, PTL

-----------------------------------------------------------------------------
(* The end of a run in its log, its job and its status.  Between an append *)
(* that was cut off and the startup the job may still be open.             *)
Ended(events) == \E n \in DOMAIN events : IsTerminalEvent(events[n].type)

Torn(stored) ==
  /\ IsTerminal(stored.status) => Ended(stored.events)
  /\ stored.job = "over" => Ended(stored.events)

EndsOK(stored) == Torn(stored) /\ (Ended(stored.events) => stored.job = "over")

LEMMA EndedAppend ==
  ASSUME NEW events \in Seq(Kinds), NEW event \in Kinds
  PROVE  Ended(Append(events, event)) <=> Ended(events) \/ IsTerminalEvent(event.type)
<1> DEFINE new == Append(events, event)
           last == Len(events) + 1
<1>1. /\ DOMAIN new = 1 .. last /\ DOMAIN events = 1 .. Len(events) /\ Len(events) \in Nat
      /\ \A n \in 1 .. Len(events) : new[n] = events[n]
      /\ new[last] = event
  BY AppendProperties
<1> HIDE DEF new
<1>2. QED
  BY <1>1 DEF Ended

(* Only an event that ends the run gives it a status that does.            *)
LEMMA StatusEnds ==
  ASSUME NEW status, NEW type, IsTerminal(StatusAfter(status, type))
  PROVE  IsTerminal(status) \/ IsTerminalEvent(type)
<1>1. SUFFICES ASSUME ~IsTerminal(status), StatusAfter(status, type) # status
               PROVE  IsTerminalEvent(type)
  OBVIOUS
<1>2. PICK s : s = StatusAfter(status, type)
  OBVIOUS
<1>3. s \in Meaning(status, type) /\ IsTerminal(s)
  BY <1>1, <1>2 DEF StatusAfter
<1>4. QED
  BY <1>3 DEF Meaning, StatusEvents, IsTerminal, IsTerminalEvent

LEMMA AppendedEnds ==
  ASSUME NEW stored, StoredOK(stored), NEW event \in Kinds, NEW done \in 0 .. Commits,
         Torn(stored)
  PROVE  /\ Torn(Appended(stored, event, done))
         /\ done = Commits /\ EndsOK(stored) => EndsOK(Appended(stored, event, done))
<1>1. PICK new : new = Appended(stored, event, done)
  OBVIOUS
<1>2. /\ new.events = IF done >= 1 THEN Append(stored.events, event) ELSE stored.events
      /\ new.job = IF done >= 2 /\ IsTerminalEvent(event.type) THEN "over" ELSE stored.job
      /\ new.status = IF done >= 3 THEN StatusAfter(stored.status, event.type)
                      ELSE stored.status
  BY <1>1 DEF Appended, EventRow, JobRow, RunRow
<1>3. Ended(Append(stored.events, event)) <=>
        Ended(stored.events) \/ IsTerminalEvent(event.type)
  BY EndedAppend DEF StoredOK
<1>4. Torn(new)
  BY <1>2, <1>3, StatusEnds DEF Torn, Commits
<1>5. done = Commits /\ EndsOK(stored) => EndsOK(new)
  BY <1>2, <1>3, <1>4 DEF EndsOK, Commits
<1>6. QED
  BY <1>1, <1>4, <1>5

LEMMA FailOrphanEnds ==
  ASSUME NEW stored, StoredOK(stored), Torn(stored)
  PROVE  EndsOK(FailOrphan(stored))
<1>1. PICK f : f = FailOrphan(stored)
  OBVIOUS
<1>2. CASE stored.job = "over"
  BY <1>1, <1>2 DEF FailOrphan, EndsOK, Torn
<1>3. CASE stored.job # "over" /\ IsTerminal(stored.status)
  <2>1. f = [stored EXCEPT !.job = "over"]
    BY <1>1, <1>3 DEF FailOrphan
  <2>2. PICK s : s = stored
    OBVIOUS
  <2>3. Ended(stored.events)
    BY <1>3 DEF Torn
  <2>4. f.events = stored.events \/ f.job # "over"
    BY <2>1
  <2>5. QED
    BY <1>1, <1>3, <2>1, <2>3 DEF EndsOK, Torn
<1>4. CASE stored.job # "over" /\ ~IsTerminal(stored.status)
  <2>1. PICK orphaned, failed :
          orphaned = Kind("lease.orphaned", NoKey) /\ failed = Kind("run.failed", NoKey)
    OBVIOUS
  <2>2. orphaned \in Kinds /\ failed \in Kinds /\ IsTerminalEvent(failed.type)
    BY <2>1 DEF Kind, Kinds, IsTerminalEvent, PermissionEventTypes
  <2>3. PICK a : a = Appended(stored, orphaned, Commits)
    OBVIOUS
  <2>4. StoredOK(a) /\ Torn(a)
    BY <2>2, <2>3, AppendedOK, AppendedEnds DEF Commits
  <2>5. f = Appended(a, failed, Commits)
    BY <1>1, <1>4, <2>1, <2>3 DEF FailOrphan
  <2>6. Torn(f)
    BY <2>2, <2>4, <2>5, AppendedEnds DEF Commits
  <2>7. f.job = "over"
    BY <2>2, <2>5 DEF Appended, Commits, JobRow
  <2>8. QED
    BY <1>1, <2>6, <2>7 DEF EndsOK
<1>5. QED
  BY <1>2, <1>3, <1>4

(* What the server keeps of the run it executes.                           *)
LEMMA RowsEnd == PageTypeOK /\ EndsAreLogged => EndsOK(Rows(Main))
BY DEF PageTypeOK, EndsAreLogged, EndsOK, Torn, Ended, HasEnded, Rows, Runs

LEMMA BecomesEnds ==
  ASSUME PageTypeOK, EndsAreLogged, NEW new, StoredOK(new), EndsOK(new), Becomes(Main, new)
  PROVE  EndsAreLogged'
<1>1. /\ log' = [log EXCEPT ![Main] = new.events]
      /\ rows' = [rows EXCEPT ![Main] = [status |-> new.status, job |-> new.job]]
  BY DEF Becomes
<1>2. log'[Main] = new.events /\ rows'[Main].status = new.status /\ rows'[Main].job = new.job
  BY <1>1 DEF PageTypeOK, Runs
<1>3. \A r \in Runs \ {Main} : log'[r] = log[r] /\ rows'[r] = rows[r]
  BY <1>1 DEF PageTypeOK
<1>4. HasEnded(Main)' <=> Ended(new.events)
  BY <1>2 DEF HasEnded, Ended
<1>5. \A r \in Runs \ {Main} : HasEnded(r)' <=> HasEnded(r)
  BY <1>3 DEF HasEnded
<1>6. QED
  BY <1>2, <1>3, <1>4, <1>5 DEF EndsAreLogged, EndsOK, Torn

LEMMA EndsStep ==
  ASSUME PageInv, EndsAreLogged, [Next]_vars
  PROVE  EndsAreLogged'
<1>1. PICK s : s = Rows(Main)
  OBVIOUS
<1>2. StoredOK(s) /\ EndsOK(s)
  BY <1>1, RowsOK, RowsEnd DEF PageInv
<1>3. ASSUME NEW type \in EventTypes, AppendEvent(type)
      PROVE  EndsAreLogged'
  <2>1. PICK e, new : e = Kind(type, KeyOf(type)) /\ new = Appended(s, e, Commits)
    OBVIOUS
  <2>2. e \in Kinds
    BY <2>1, KindOfType
  <2>3. StoredOK(new) /\ EndsOK(new)
    <3>1. Torn(s) /\ Commits \in 0 .. Commits
      BY <1>2 DEF EndsOK, Commits
    <3>2. /\ StoredOK(Appended(s, e, Commits))
          /\ EndsOK(Appended(s, e, Commits))
      BY <1>2, <2>2, <3>1, AppendedOK, AppendedEnds
    <3>3. QED
      BY <2>1, <3>2
  <2>4. Becomes(Main, new)
    BY <1>1, <1>3, <2>1 DEF AppendEvent
  <2>5. QED
    BY <2>3, <2>4, BecomesEnds DEF PageInv
<1>4. ASSUME NEW type \in EventTypes, NEW done \in 0 .. Commits - 1,
             RestartServer(type, done)
      PROVE  EndsAreLogged'
  <2>1. PICK e, torn, new : /\ e = Kind(type, KeyOf(type))
                            /\ torn = Appended(s, e, done) /\ new = FailOrphan(torn)
    OBVIOUS
  <2>2. e \in Kinds /\ done \in 0 .. Commits
    BY <2>1, KindOfType DEF Commits
  <2>3. StoredOK(torn) /\ Torn(torn)
    BY <1>2, <2>1, <2>2, AppendedOK, AppendedEnds DEF EndsOK
  <2>4. StoredOK(new) /\ EndsOK(new)
    BY <2>1, <2>3, FailOrphanOK, FailOrphanEnds
  <2>5. Becomes(Main, new)
    BY <1>1, <1>4, <2>1 DEF RestartServer
  <2>6. QED
    BY <2>4, <2>5, BecomesEnds DEF PageInv
<1>5. CASE UNCHANGED <<log, rows>>
  BY <1>5 DEF EndsAreLogged, HasEnded
<1>6. ASSUME Navigate \/ Serve \/ Listen \/ DropStream \/ RefuseStream
      PROVE  UNCHANGED <<log, rows>>
  BY <1>6 DEF Navigate, Serve, Listen, OpenPage, HopTo, LeavePage, AcceptStream, WaitInVain,
     CheckTerminal, ReceiveMessage, StreamEnds, Reconnect, DropStream, RefuseStream
<1>7. ASSUME NEW r \in Runs, Query(r) \/ LoseAnswer(r)
      PROVE  UNCHANGED <<log, rows>>
  BY <1>7 DEF Query, AskRun, AskEvents, ReceiveRun, ReceiveEvents, LoseAnswer
<1>8. QED
  BY <1>3, <1>4, <1>5, <1>6, <1>7 DEF Next, vars

(* A restart at any point of an append leaves no end of a run that its log *)
(* does not tell, and no job of a run whose log has an end.                *)
THEOREM EndsAreKnown == Spec => []EndsAreLogged
<1>1. Init => EndsAreLogged
  BY RunPageAssumption
  DEF Init, EndsAreLogged, HasEnded, IsTerminal, IsTerminalEvent, Kind, Runs
<1>2. PageInv /\ EndsAreLogged /\ [Next]_vars => EndsAreLogged'
  BY EndsStep
<1>3. QED
  BY <1>1, <1>2, Invariance, PTL DEF Spec

-----------------------------------------------------------------------------
(* The page implements a follower of the log.                              *)
LEMMA FollowedInit == Init => Followed!Init
BY DEF Init, Followed!Init

LEMMA FollowedStep ==
  ASSUME PageInv, [Next]_vars
  PROVE  [Followed!Next]_(Followed!vars)
<1> DEFINE all == [r \in Runs |-> Events(r, Len(log[r]))]
           own == {e \in view : e.run = page}
<1>1. PageInv' /\ Follows
  BY StepKeeps DEF Kept
<1>2. ASSUME NEW r \in Runs, NEW e, InLog(e), e.run = r
      PROVE  e \in all[r]
  <2>1. e.seq \in 1 .. Len(log[r]) /\ e = Event(r, e.seq) /\ Len(log[r]) \in Nat
    BY <1>2 DEF InLog, PageInv, PageTypeOK
  <2>2. QED
    BY <2>1, EventsAreAll
<1>3. ASSUME NEW r \in Runs, NEW e, InLog(e)', e.run = r
      PROVE  e \in all'[r]
  <2>1. e.seq \in 1 .. Len(log'[r]) /\ e = Event(r, e.seq)' /\ Len(log'[r]) \in Nat
    BY <1>1, <1>3 DEF InLog, PageInv, PageTypeOK
  <2>2. QED
    BY <2>1 DEF Events
<1>4. own' \subseteq (IF page' = Away THEN {} ELSE all'[page'])
  BY <1>1, <1>3, RunPageAssumption DEF PageInv, ViewIsLogged, PageTypeOK
<1>5. CASE GrowsLog
  <2>1. ASSUME NEW r \in Runs, NEW e \in all[r]
        PROVE  e \in all'[r]
    <3>1. PICK n \in 1 .. Len(log[r]) : e = Event(r, n)
      BY DEF Events
    <3>2. e = Event(r, n)'
      BY <3>1, <1>5, GrownEvents DEF PageInv, GrowsLog
    <3>3. n \in 1 .. Len(log'[r])
      BY <1>5, Len(log[r]) \in Nat, Len(log'[r]) \in Nat
      DEF PageInv, PageTypeOK, GrowsLog, Grows
    <3>4. QED
      BY <3>2, <3>3 DEF Events
  <2>2. own' = own /\ page' = page
    BY <1>5 DEF GrowsLog
  <2>3. Followed!Grow
    BY <2>1, <2>2 DEF Followed!Grow
  <2>4. QED
    BY <2>3 DEF Followed!Next
<1>6. CASE KeepsShown
  <2>1. own \subseteq own' /\ page' = page /\ all' = all
    BY <1>6 DEF KeepsShown, Events, Event
  <2>2. Followed!Learn
    BY <2>1, <1>4 DEF Followed!Learn, Followed!Entries
  <2>3. QED
    BY <2>2 DEF Followed!Next
<1>7. CASE TurnsPage
  <2>1. page' # page /\ page' \in Runs \cup {Away} /\ all' = all
    BY <1>7 DEF TurnsPage, Events, Event
  <2>2. Followed!Turn
    BY <2>1, <1>4 DEF Followed!Turn, Followed!Entries
  <2>3. QED
    BY <2>2 DEF Followed!Next
<1>8. QED
  BY <1>1, <1>5, <1>6, <1>7 DEF Follows

(* Whatever way its events take, the page follows the log of its run: it   *)
(* shows events of that log only and takes none of them back.              *)
THEOREM PageFollows == Spec => FollowsTheLog
<1>1. PageInv /\ [Next]_vars => [Followed!Next]_(Followed!vars)
  BY FollowedStep
<1>2. QED
  BY FollowedInit, <1>1, Invariance, PTL DEF Spec, FollowsTheLog, Followed!Spec

-----------------------------------------------------------------------------
(* What the panel and the transcript make of the events shown.             *)
Hears(type) == type \in liveEventTypes

(* What was appended by the last event shown, and has a listener, is shown.*)
LEMMA ShownIsHeard ==
  ASSUME PageInv, page \in Runs, ~hopped, NEW type, NEW key, Hears(type)
  PROVE  IsShown(type, key) <=> \E e \in view : e.type = type /\ e.key = key
<1>1. ASSUME IsShown(type, key)
      PROVE  \E e \in view : e.type = type /\ e.key = key
  <2>1. PICK n \in DOMAIN log[page], f \in view : n <= f.seq /\ log[page][n] = Kind(type, key)
    BY <1>1 DEF IsShown, Shown
  <2>2. InLog(f) /\ f.run = page
    BY DEF PageInv, ViewIsLogged, ViewIsOfItsRun
  <2>3. n \in 1 .. f.seq
    BY <2>1, <2>2 DEF InLog, PageInv, PageTypeOK
  <2>4. log[page][n].type = type /\ log[page][n].key = key
    BY <2>1 DEF Kind
  <2>5. Event(page, n) \in view
    BY <2>3, <2>4 DEF PageInv, HolesAreUnlistened, Hears
  <2>6. Event(page, n).type = type /\ Event(page, n).key = key
    BY <2>4 DEF Event
  <2>7. QED
    BY <2>5, <2>6
<1>2. ASSUME NEW e \in view, e.type = type, e.key = key
      PROVE  IsShown(type, key)
  <2>1. InLog(e) /\ e.run = page
    BY DEF PageInv, ViewIsLogged, ViewIsOfItsRun
  <2>2. e.seq \in 1 .. Len(log[page]) /\ e = Event(page, e.seq)
    BY <2>1 DEF InLog
  <2>3. e.seq \in DOMAIN log[page] /\ log[page][e.seq] \in Kinds
    BY <2>2 DEF PageInv, PageTypeOK
  <2>4. log[page][e.seq].type = type /\ log[page][e.seq].key = key
    BY <1>2, <2>2 DEF Event
  <2>5. log[page][e.seq] = Kind(type, key)
    BY <2>3, <2>4 DEF Kinds, Kind
  <2>6. e.seq <= e.seq
    BY <2>2 DEF PageInv, PageTypeOK
  <2>7. QED
    BY <2>3, <2>5, <2>6 DEF IsShown, Shown
<1>3. QED
  BY <1>1, <1>2

(* An event of a permission tells which.                                   *)
LEMMA PermissionKeys ==
  ASSUME PageInv, NEW e \in view, e.type \in PermissionEventTypes
  PROVE  e.key = "permission"
<1>1. InLog(e)
  BY DEF PageInv, ViewIsLogged
<1>2. log[e.run][e.seq] \in Kinds
  BY <1>1 DEF InLog, PageInv, PageTypeOK
<1>3. e.type = log[e.run][e.seq].type /\ e.key = log[e.run][e.seq].key
  BY <1>1 DEF InLog, Event
<1>4. QED
  BY <1>2, <1>3 DEF Kinds

LEMMA PanelTells ==
  ASSUME PageInv, page \in Runs, ~hopped
  PROVE  PendingPermissions(view) =
           {p \in {"permission"} : /\ IsShown("permission.requested", p)
                                   /\ ~IsShown("permission.resolved", p)}
<1>1. /\ Hears("permission.requested") /\ "permission.requested" \in PermissionEventTypes
      /\ Hears("permission.resolved") /\ "permission.resolved" \in PermissionEventTypes
  BY DEF Hears, liveEventTypes, PermissionEventTypes
<1>2. ASSUME NEW p
      PROVE  p \in PendingPermissions(view) <=>
               /\ \E e \in view : e.type = "permission.requested" /\ e.key = p
               /\ ~\E e \in view : e.type = "permission.resolved" /\ e.key = p
  <2>1. p \in UNION {ExtractPermissionRequest(e) : e \in view} <=>
          \E e \in view : e.type = "permission.requested" /\ e.key = p
    <3>1. \A e : p \in ExtractPermissionRequest(e) <=> e.type = "permission.requested" /\ e.key = p
      BY DEF ExtractPermissionRequest
    <3>2. QED
      BY <3>1
  <2>2. p \in ResolvedPermissionIds(view) <=>
          \E e \in view : e.type = "permission.resolved" /\ e.key = p
    BY DEF ResolvedPermissionIds
  <2>3. PICK asked, resolved : /\ asked = UNION {ExtractPermissionRequest(e) : e \in view}
                               /\ resolved = ResolvedPermissionIds(view)
    OBVIOUS
  <2>4. PendingPermissions(view) = asked \ resolved
    BY <2>3, Zenon DEF PendingPermissions
  <2>5. QED
    BY <2>1, <2>2, <2>3, <2>4
<1>3. ASSUME NEW p
      PROVE  p \in PendingPermissions(view) <=>
               /\ p \in {"permission"}
               /\ IsShown("permission.requested", p) /\ ~IsShown("permission.resolved", p)
  <2>1. (\E e \in view : e.type = "permission.requested" /\ e.key = p) => p = "permission"
    BY <1>1, PermissionKeys
  <2>2. QED
    BY <1>1, <1>2, <2>1, ShownIsHeard
<1>4. QED
  BY <1>3

(* A request has a bubble, which both filters keep.                        *)
LEMMA RequestsHaveBubbles ==
  ASSUME NEW e \in view, e.type = "permission.requested", NEW filter \in {"permission", "warning"}
  PROVE  e \in UNION {b.body : b \in FilterTranscript(RunnerTranscript(view), filter)}
<1>1. PICK item : item = TranscriptItem(e, "warning")
  OBVIOUS
<1>2. item.role = "warning" /\ item.type = "permission.requested" /\ item.body = {e}
  BY <1>1 DEF TranscriptItem
<1>3. "warning" \in Roles(e)
  BY DEF Roles, RoleTypes
<1>4. item \in RunnerTranscript(view)
  <2>1. item \in {TranscriptItem(e, role) : role \in Roles(e)}
    BY <1>1, <1>3
  <2>2. item \in UNION {{TranscriptItem(f, role) : role \in Roles(f)} : f \in view}
    BY <2>1
  <2>3. QED
    BY <2>2 DEF RunnerTranscript
<1>5. item \in FilterTranscript(RunnerTranscript(view), filter)
  BY <1>2, <1>4 DEF FilterTranscript, PermissionEventTypes
<1>6. QED
  BY <1>2, <1>5

(* The panel offers a decision if and only if one is asked for by the      *)
(* events shown, which are all there were, and the transcript tells of it. *)
THEOREM PanelTellsTheTruth == Spec => []PanelIsTruthful
<1>1. PageInv => PanelIsTruthful
  <2>1. SUFFICES ASSUME PageInv, page \in Runs, ~hopped,
                        NEW p \in PendingPermissions(view), NEW filter \in {"permission", "warning"}
                 PROVE  \E e \in UNION {b.body : b \in FilterTranscript(RunnerTranscript(view), filter)} :
                          e.type = "permission.requested" /\ e.key = p
    BY PanelTells DEF PanelIsTruthful
  <2>2. PICK e \in view : e.type = "permission.requested" /\ e.key = p
    BY <2>1 DEF PendingPermissions, ExtractPermissionRequest
  <2>3. QED
    BY <2>2, RequestsHaveBubbles
<1>2. QED
  BY <1>1, Invariance, PTL

-----------------------------------------------------------------------------
(* What an agent has said, as far as it is shown.                          *)
LEMMA BubblesOfAgents ==
  ASSUME NEW events, NEW item
  PROVE  item \in AgentTexts(events) <=>
           \E e \in events : e.type = "message.delta" /\ item = AgentItem(Deltas(events, e.key))
<1> DEFINE told == UNION {{TranscriptItem(e, role) : role \in Roles(e)} : e \in events}
           said == {AgentItem(Deltas(events, e.key)) : e \in {d \in events : d.type = "message.delta"}}
<1>1. item \in told => item.role # "agent"
  <2>1. SUFFICES ASSUME NEW e \in events, NEW role \in Roles(e), item = TranscriptItem(e, role)
                 PROVE  item.role # "agent"
    OBVIOUS
  <2>2. item.role = role
    BY <2>1 DEF TranscriptItem
  <2>3. role \in DOMAIN RoleTypes
    BY DEF Roles
  <2>4. QED
    BY <2>2, <2>3 DEF RoleTypes
<1>2. item \in said => item.role = "agent"
  <2>1. \A deltas : AgentItem(deltas).role = "agent"
    BY DEF AgentItem
  <2>2. QED
    BY <2>1
<1>3. item \in RunnerTranscript(events) <=> item \in told \/ item \in said
  BY DEF RunnerTranscript
<1>4. item \in said <=>
        \E e \in events : e.type = "message.delta" /\ item = AgentItem(Deltas(events, e.key))
  OBVIOUS
<1> HIDE DEF told, said
<1>5. QED
  BY <1>1, <1>2, <1>3, <1>4 DEF AgentTexts

(* Of the numbers up to n of which some have a property one is the last.   *)
LEMMA Before == \A m, n \in Nat : m < n => <<m, n>> \in OpToRel(<, Nat)
BY Zenon DEF OpToRel

LEMMA LastOf ==
  ASSUME NEW n \in Nat, NEW S \in SUBSET (0 .. n), S # {}
  PROVE  \E m \in S : \A k \in S : k <= m
<1>1. PICK less : less = OpToRel(<, Nat)
  OBVIOUS
<1>2. \A m, k \in Nat : m < k => <<m, k>> \in less
  BY <1>1, Before, Zenon
<1>3. PICK T : T = {n - k : k \in S}
  OBVIOUS
<1>4. T \in SUBSET Nat /\ T # {}
  <2>1. \A k \in S : n - k \in Nat
    OBVIOUS
  <2>2. T \subseteq Nat
    BY <1>3, <2>1
  <2>3. PICK k : k \in S
    OBVIOUS
  <2>4. n - k \in T
    BY <1>3, <2>3
  <2>5. QED
    BY <2>2, <2>4
<1>5. PICK d \in T : \A c \in T : ~ (<<c, d>> \in less)
  BY <1>1, <1>4, WFMin, NatLessThanWellFounded, Zenon
<1>6. PICK m \in S : d = n - m
  BY <1>3
<1>7. ASSUME NEW k \in S
      PROVE  k <= m
  <2>1. n - k \in T /\ n - k \in Nat /\ d \in Nat
    BY <1>3, <1>4
  <2>2. ~ (n - k < d)
    BY <1>2, <1>5, <2>1
  <2>3. QED
    BY <1>6, <2>1, <2>2
<1>8. QED
  BY <1>7

LEMMA LatestShown ==
  ASSUME PageInv, page \in Runs, ~hopped, NEW S \in SUBSET view, S # {},
         NEW last, last = CHOOSE e \in S : IsLatest(e, S)
  PROVE  last \in S /\ IsLatest(last, S)
<1>1. \A e \in S : e.seq \in 0 .. Len(log[page])
  BY DEF PageInv, PageTypeOK, ViewIsLogged, ViewIsOfItsRun, InLog
<1>2. PICK seqs : seqs = {e.seq : e \in S}
  OBVIOUS
<1>3. seqs \in SUBSET (0 .. Len(log[page])) /\ seqs # {} /\ Len(log[page]) \in Nat
  BY <1>1, <1>2 DEF PageInv, PageTypeOK
<1>4. PICK m \in seqs : \A k \in seqs : k <= m
  BY <1>3, LastOf
<1>5. PICK e \in S : e.seq = m
  BY <1>2
<1>6. IsLatest(e, S)
  BY <1>2, <1>4, <1>5 DEF IsLatest
<1>7. QED
  BY <1>6

(* What comes later to be shown is later than all that has a listener.     *)
LEMMA LateComesLast ==
  ASSUME PageInv, PageInv', KeepsShown, page \in Runs, ~hopped, hopped' = hopped,
         NEW e \in view' \ view, Hears(e.type), NEW f \in view
  PROVE  e.seq > f.seq
<1>1. InLog(e)' /\ e.run = page
  BY DEF PageInv, ViewIsLogged, ViewIsOfItsRun, KeepsShown
<1>2. InLog(e) /\ e = Event(page, e.seq)
  BY <1>1 DEF InLog, Event, KeepsShown
<1>3. InLog(f) /\ f.run = page
  BY DEF PageInv, ViewIsLogged, ViewIsOfItsRun
<1>4. e.seq \in Nat /\ f.seq \in Nat /\ 1 <= e.seq
  BY <1>1, <1>2, <1>3 DEF InLog, PageInv, PageTypeOK
<1>5. log[page][e.seq].type = e.type
  BY <1>2 DEF Event
<1>6. ~(e.seq <= f.seq)
  BY <1>2, <1>4, <1>5 DEF PageInv, HolesAreUnlistened, Hears
<1>7. QED
  BY <1>4, <1>6

LEMMA HoppedStays ==
  ASSUME PageInv, [Next]_vars, page' = page
  PROVE  hopped' = hopped \/ page = Away
BY RunPageAssumption
DEF Next, AppendEvent, Navigate, OpenPage, HopTo, LeavePage, Query, AskRun, AskEvents, ReceiveRun,
    ReceiveEvents, LoseAnswer, Serve, AcceptStream, WaitInVain, CheckTerminal, Listen,
    ReceiveMessage, StreamEnds, Reconnect, DropStream, RefuseStream, RestartServer, vars

TextGrows ==
  page' = page /\ page \in Runs /\ ~hopped =>
    \A old \in AgentTexts(view) : \E new \in AgentTexts(view') :
      /\ old.body \subseteq new.body
      /\ \A e \in new.body \ old.body : e.seq > old.sequence

LEMMA TextStep ==
  ASSUME PageInv, [Next]_vars
  PROVE  TextGrows
<1>1. SUFFICES ASSUME page' = page, page \in Runs, ~hopped, NEW old \in AgentTexts(view)
               PROVE  \E new \in AgentTexts(view') :
                        /\ old.body \subseteq new.body
                        /\ \A e \in new.body \ old.body : e.seq > old.sequence
  BY DEF TextGrows
<1>2. PageInv' /\ Follows /\ hopped' = hopped
  BY <1>1, StepKeeps, HoppedStays, RunPageAssumption DEF Kept
<1>3. PICK d \in view : d.type = "message.delta" /\ old = AgentItem(Deltas(view, d.key))
  BY BubblesOfAgents
<1>4. PICK S, T : S = Deltas(view, d.key) /\ T = Deltas(view', d.key)
  OBVIOUS
<1>5. S \in SUBSET view /\ d \in S
  BY <1>3, <1>4 DEF Deltas
<1>6. PICK last : last = CHOOSE e \in S : IsLatest(e, S)
  OBVIOUS
<1>7. last \in S
  BY <1>1, <1>5, <1>6, LatestShown
<1>8. old.body = S /\ old.sequence = last.seq
  BY <1>3, <1>4, <1>6 DEF AgentItem
<1>9. PICK new : new = AgentItem(T)
  OBVIOUS
<1>10. new.body = T
  BY <1>9 DEF AgentItem
<1>11. CASE view' = view
  <2>1. new = old
    BY <1>3, <1>4, <1>9, <1>11
  <2>2. QED
    BY <1>11, <2>1
<1>12. CASE KeepsShown
  <2>1. view \subseteq view'
    BY <1>1, <1>12 DEF KeepsShown, PageInv, ViewIsOfItsRun
  <2>2. S \subseteq T /\ d \in view'
    BY <1>4, <2>1 DEF Deltas
  <2>3. new \in AgentTexts(view')
    BY <1>3, <1>4, <1>9, <2>2, BubblesOfAgents
  <2>4. ASSUME NEW e \in T \ S
        PROVE  e.seq > last.seq
    <3>1. e \in view' \ view /\ e.type = "message.delta"
      BY <1>4, <2>4 DEF Deltas
    <3>2. Hears(e.type)
      BY <3>1 DEF Hears, liveEventTypes
    <3>3. last \in view
      BY <1>5, <1>7
    <3>4. QED
      BY <1>1, <1>2, <1>12, <3>1, <3>2, <3>3, LateComesLast
  <2>5. QED
    BY <1>8, <1>10, <2>2, <2>3, <2>4
<1>13. QED
  BY <1>1, <1>2, <1>11, <1>12 DEF Follows, GrowsLog, TurnsPage

(* Text of an agent that an operator has read is not changed by what       *)
(* arrives later: it only grows at its end.                                *)
THEOREM TextsOnlyGrow == Spec => AgentTextOnlyGrows
<1>1. PageInv /\ [Next]_vars => TextGrows
  BY TextStep
<1>2. QED
  BY <1>1, Invariance, PTL DEF Spec, AgentTextOnlyGrows, TextGrows

-----------------------------------------------------------------------------
(* The rest of the page's type.                                            *)
NumbersDiffer(S) == \A e, f \in S : e.seq = f.seq => e = f

RangeInv ==
  /\ \A r \in Runs : Len(log[r]) \in 1 .. MaxEvents
  /\ NumbersDiffer(view)
  /\ conn \in {"connecting", "live", "reconnecting", "closed"} /\ hopped \in BOOLEAN
  /\ moves \in 0 .. MaxMoves /\ faults \in 0 .. MaxFaults

LEMMA EventsDiffer ==
  ASSUME NEW r, NEW n
  PROVE  NumbersDiffer(Events(r, n))
BY EventFields DEF NumbersDiffer, Events

(* One of two with the same number goes.                                   *)
LEMMA MergedDiffer ==
  ASSUME NumbersDiffer(view), NEW S, NumbersDiffer(S)
  PROVE  NumbersDiffer(MergeEvents(view, S))
BY DEF NumbersDiffer, MergeEvents

LEMMA ViewStep ==
  ASSUME NumbersDiffer(view), [Next]_vars
  PROVE  NumbersDiffer(view')
<1>1. CASE view' = view
  BY <1>1
<1>2. CASE \E r \in Runs : OpenPage(r)
  BY <1>2, EventsDiffer DEF OpenPage
<1>3. CASE \E r \in Runs : HopTo(r) \/ ReceiveEvents(r)
  BY <1>1, <1>3, EventsDiffer, MergedDiffer DEF HopTo, ReceiveEvents
<1>4. CASE LeavePage
  BY <1>4 DEF LeavePage, NumbersDiffer
<1>5. CASE ReceiveMessage
  <2>1. \A e : NumbersDiffer({e})
    BY DEF NumbersDiffer
  <2>2. QED
    BY <1>1, <1>5, <2>1, MergedDiffer DEF ReceiveMessage
<1>6. QED
  BY <1>1, <1>2, <1>3, <1>4, <1>5
  DEF Next, AppendEvent, Navigate, Query, AskRun, AskEvents, ReceiveRun, LoseAnswer, Serve,
      AcceptStream, WaitInVain, CheckTerminal, Listen, StreamEnds, Reconnect, DropStream,
      RefuseStream, RestartServer, vars

(* A log grows only as far as there is room.                               *)
LEMMA RoomStep ==
  ASSUME PageInv, [Next]_vars, \A r \in Runs : Len(log[r]) \in 1 .. MaxEvents
  PROVE  \A r \in Runs : Len(log'[r]) \in 1 .. MaxEvents
<1>1. CASE log' = log
  BY <1>1
<1>2. ASSUME NEW new, Becomes(Main, new)
      PROVE  \A r \in Runs : Len(log'[r]) \in 1 .. MaxEvents
  <2>1. Grows
    BY <1>2, StepKeeps, RunPageAssumption
    DEF Kept, Follows, GrowsLog, KeepsShown, TurnsPage, Grows, PageInv, PageTypeOK
  <2>2. log'[Main] = new.events /\ \A r \in Runs \ {Main} : log'[r] = log[r]
    BY <1>2 DEF Becomes, PageInv, PageTypeOK, Runs
  <2>3. Len(new.events) \in Nat /\ Len(log[Main]) <= Len(new.events)
    BY <2>1, <2>2 DEF Grows, Runs
  <2>4. Len(new.events) <= MaxEvents
    BY <1>2, <2>3, RunPageAssumption DEF Becomes, Room
  <2>5. Len(log'[Main]) \in 1 .. MaxEvents
    BY <2>2, <2>3, <2>4, RunPageAssumption DEF Runs
  <2>6. QED
    BY <2>2, <2>5
<1>3. CASE \E type \in EventTypes : AppendEvent(type)
  BY <1>2, <1>3 DEF AppendEvent
<1>4. CASE \E type \in EventTypes, done \in 0 .. Commits - 1 : RestartServer(type, done)
  BY <1>2, <1>4 DEF RestartServer
<1>5. QED
  BY <1>1, <1>3, <1>4
  DEF Next, Navigate, OpenPage, HopTo, LeavePage, Query, AskRun, AskEvents, ReceiveRun,
      ReceiveEvents, LoseAnswer, Serve, AcceptStream, WaitInVain, CheckTerminal, Listen,
      ReceiveMessage, StreamEnds, Reconnect, DropStream, RefuseStream, vars

LEMMA BoundStep ==
  ASSUME RangeInv, [Next]_vars
  PROVE  /\ conn' \in {"connecting", "live", "reconnecting", "closed"} /\ hopped' \in BOOLEAN
         /\ moves' \in 0 .. MaxMoves /\ faults' \in 0 .. MaxFaults
<1>1. /\ conn \in {"connecting", "live", "reconnecting", "closed"} /\ hopped \in BOOLEAN
      /\ moves \in 0 .. MaxMoves /\ faults \in 0 .. MaxFaults
      /\ MaxMoves \in Nat /\ MaxFaults \in Nat
  BY RunPageAssumption DEF RangeInv
<1>2. CASE \E type \in EventTypes : AppendEvent(type)
  BY <1>1, <1>2 DEF AppendEvent
<1>3. CASE \E r \in Runs : OpenPage(r) \/ HopTo(r)
  <2>1. /\ moves < MaxMoves /\ moves' = moves + 1 /\ faults' = faults /\ hopped' \in BOOLEAN
        /\ \E status : StreamEffect(status)
    BY <1>3 DEF OpenPage, HopTo, CanMove
  <2>2. conn' \in {"closed", "connecting"}
    BY <2>1 DEF StreamEffect
  <2>3. QED
    BY <1>1, <2>1, <2>2
<1>4. CASE LeavePage
  BY <1>1, <1>4 DEF LeavePage
<1>5. CASE \E r \in Runs : Query(r) \/ LoseAnswer(r)
  BY <1>1, <1>5 DEF Query, AskRun, AskEvents, ReceiveRun, ReceiveEvents, LoseAnswer, StreamEffect
<1>6. CASE Serve \/ Listen
  BY <1>1, <1>6 DEF Serve, AcceptStream, WaitInVain, CheckTerminal, Listen, ReceiveMessage,
     StreamEnds, Reconnect
<1>7. CASE DropStream \/ RefuseStream
  BY <1>1, <1>7 DEF DropStream, RefuseStream
<1>8. CASE \E type \in EventTypes, done \in 0 .. Commits - 1 : RestartServer(type, done)
  BY <1>1, <1>8 DEF RestartServer
<1>9. CASE UNCHANGED vars
  BY <1>1, <1>9 DEF vars
<1>10. QED
  BY <1>2, <1>3, <1>4, <1>5, <1>6, <1>7, <1>8, <1>9 DEF Next, Navigate

LEMMA RangeInit == Init => RangeInv
<1> SUFFICES ASSUME Init PROVE RangeInv
  OBVIOUS
<1>1. \A r \in Runs : Len(log[r]) \in {1, 3}
  BY DEF Init
<1>2. ASSUME NEW r \in Runs
      PROVE  Len(log[r]) \in 1 .. MaxEvents
  <2>1. 1 \in 1 .. MaxEvents /\ 3 \in 1 .. MaxEvents
    BY RunPageAssumption
  <2>2. Len(log[r]) = 1 \/ Len(log[r]) = 3
    BY <1>1
  <2>3. CASE Len(log[r]) = 1
    BY <2>1, <2>3
  <2>4. CASE Len(log[r]) = 3
    BY <2>1, <2>4
  <2>5. QED
    BY <2>2, <2>3, <2>4
<1>3. NumbersDiffer(view)
  BY DEF Init, NumbersDiffer
<1>4. 0 \in 0 .. MaxMoves /\ 0 \in 0 .. MaxFaults
  BY RunPageAssumption
<1>5. QED
  BY <1>2, <1>3, <1>4 DEF Init, RangeInv

LEMMA TypesOfPage == PageInv /\ RangeInv => RunPageTypeOK
<1> SUFFICES ASSUME PageInv, RangeInv PROVE RunPageTypeOK
  OBVIOUS
<1>1. ASSUME NEW r \in Runs
      PROVE  /\ Len(log[r]) \in 1 .. MaxEvents
             /\ {rows[r].status, cache[r].status, flight[r].status} \subseteq Statuses
             /\ {cache[r].events, flight[r].events} \subseteq 0 .. Len(log[r])
  BY DEF PageInv, PageTypeOK, NothingAhead, RangeInv, Answers
<1>2. view \subseteq EventsOfRuns
  <2>1. ASSUME NEW e \in view
        PROVE  e \in EventsOfRuns
    <3>1. InLog(e)
      BY DEF PageInv, ViewIsLogged
    <3>2. e \in Events(e.run, Len(log[e.run])) /\ e.run \in Runs
      BY <3>1 DEF InLog, Events
    <3>3. QED
      BY <3>2 DEF EventsOfRuns
  <2>2. QED
    BY <2>1
<1>3. source.got \in IF page \in Runs THEN 0 .. Len(log[page]) ELSE {0}
  BY DEF PageInv, PageTypeOK, NothingAhead, Sources, NoSource
<1>4. source.phase \in {"none", "connecting", "open", "ended", "retry", "failed"}
        /\ source.quiet \in BOOLEAN /\ page \in Runs \cup {Away}
  BY DEF PageInv, PageTypeOK, Sources, Phases
<1>5. QED
  BY <1>1, <1>2, <1>3, <1>4 DEF RunPageTypeOK, RangeInv, NumbersDiffer

(* All that a page, its queries and its stream hold is about events the    *)
(* logs have, one per number.                                              *)
THEOREM PageTypes == Spec => []RunPageTypeOK
<1>1. Init => PageInv /\ RangeInv
  BY InvInit, RangeInit
<1>2. PageInv /\ RangeInv /\ [Next]_vars => PageInv' /\ RangeInv'
  <2>1. ASSUME PageInv, RangeInv, [Next]_vars
        PROVE  PageInv' /\ RangeInv'
    <3>1. PageInv'
      BY <2>1, StepKeeps DEF Kept
    <3>2. NumbersDiffer(view')
      BY <2>1, ViewStep DEF RangeInv
    <3>3. \A r \in Runs : Len(log'[r]) \in 1 .. MaxEvents
      BY <2>1, RoomStep DEF RangeInv
    <3>4. QED
      BY <2>1, <3>1, <3>2, <3>3, BoundStep DEF RangeInv, NumbersDiffer
  <2>2. QED
    BY <2>1
<1>3. QED
  BY <1>1, <1>2, TypesOfPage, PTL DEF Spec
=============================================================================
