---------------------------- MODULE MissionProofs ----------------------------
(***************************************************************************)
(* What holds of every mission, for any task graph, any gates and any      *)
(* number of threads at work on it.  A thread is the calls it still has to *)
(* make, so the invariants say what a call knows: what was true when it    *)
(* was pushed and nothing that happened since has undone.                  *)
(***************************************************************************)
EXTENDS Missions, SequenceTheorems, TLAPS

(* The calls of all threads.                                               *)
CallSet == [op : Ops, task : Tasks \cup {NoTask}, run : 0 .. MaxRuns,
            status : {"none", "queued", "running", "blocked"} \cup TerminalStatuses]
-----------------------------------------------------------------------------
(* Threads are told apart by what they are.                                *)
LEMMA ThreadFacts ==
  /\ {Create, Cancel, Override, Startup} \subseteq Threads
  /\ \A t \in Tasks, n \in Nums : {Started(t, n), Ended(t, n), Again(t, n)} \subseteq Threads
  BY DEF Threads, Started, Ended, Again

LEMMA ThreadsDiffer ==
  /\ Create # Cancel /\ Create # Override /\ Create # Startup
  /\ Cancel # Override /\ Cancel # Startup /\ Override # Startup
  /\ \A t, n : {Started(t, n), Ended(t, n), Again(t, n)}
                 \cap {Create, Cancel, Override, Startup} = {}
  BY DEF Create, Cancel, Override, Startup, Started, Ended, Again

LEMMA EventThreadsDiffer ==
  ASSUME NEW t, NEW n, NEW u, NEW m
  PROVE  /\ Started(t, n) # Ended(u, m) /\ Started(t, n) # Again(u, m)
         /\ Ended(t, n) # Again(u, m)
         /\ Started(t, n) = Started(u, m) => t = u /\ n = m
         /\ Ended(t, n) = Ended(u, m) => t = u /\ n = m
         /\ Again(t, n) = Again(u, m) => t = u /\ n = m
  BY DEF Started, Ended, Again

(* The elements of two sequences one after the other.                      *)
LEMMA ConcatElements ==
  ASSUME NEW S, NEW a \in Seq(S), NEW b \in Seq(S)
  PROVE  /\ a \o b \in Seq(S) /\ Len(a \o b) = Len(a) + Len(b)
         /\ \A i \in DOMAIN (a \o b) :
              \/ i \in DOMAIN a /\ (a \o b)[i] = a[i]
              \/ i - Len(a) \in DOMAIN b /\ (a \o b)[i] = b[i - Len(a)]
         /\ \A i \in DOMAIN a : i \in DOMAIN (a \o b) /\ (a \o b)[i] = a[i]
         /\ \A i \in DOMAIN b :
              i + Len(a) \in DOMAIN (a \o b) /\ (a \o b)[i + Len(a)] = b[i]
<1>1. /\ a \o b \in Seq(S) /\ Len(a \o b) = Len(a) + Len(b)
      /\ \A i \in 1 .. Len(a) + Len(b) : (a \o b)[i] = IF i <= Len(a) THEN a[i] ELSE b[i - Len(a)]
  BY ConcatProperties
<1>2. /\ DOMAIN (a \o b) = 1 .. Len(a \o b) /\ DOMAIN a = 1 .. Len(a) /\ DOMAIN b = 1 .. Len(b)
      /\ Len(a) \in Nat /\ Len(b) \in Nat
  BY <1>1, LenProperties
<1>3. QED
  BY <1>1, <1>2

LEMMA TailElements ==
  ASSUME NEW S, NEW s \in Seq(S), s # <<>>
  PROVE  /\ Tail(s) \in Seq(S) /\ Len(Tail(s)) = Len(s) - 1 /\ Len(s) \in Nat \ {0}
         /\ 1 \in DOMAIN s /\ Head(s) = s[1] /\ Head(s) \in S
         /\ \A i \in DOMAIN Tail(s) : i + 1 \in DOMAIN s /\ Tail(s)[i] = s[i + 1]
         /\ \A i \in DOMAIN s \ {1} : i - 1 \in DOMAIN Tail(s) /\ Tail(s)[i - 1] = s[i]
<1>1. /\ Head(s) \in S /\ Tail(s) \in Seq(S) /\ Len(Tail(s)) = Len(s) - 1
      /\ \A i \in 1 .. Len(Tail(s)) : Tail(s)[i] = s[i + 1]
  BY HeadTailProperties
<1>2. /\ DOMAIN s = 1 .. Len(s) /\ DOMAIN Tail(s) = 1 .. Len(Tail(s))
      /\ Len(s) \in Nat
  BY <1>1, LenProperties
<1>3. Len(s) # 0 /\ Head(s) = s[1]
  BY EmptySeq, SeqEqual, <1>2
<1>4. QED
  BY <1>1, <1>2, <1>3

(* The calls a thread has left after a step: new ones in front of those it *)
(* had behind the first.                                                   *)
LEMMA ThenElements ==
  ASSUME todo \in [Threads -> Seq(CallSet)], NEW th \in Threads, todo[th] # <<>>,
         NEW calls \in Seq(CallSet), Then(th, calls)
  PROVE  /\ todo' \in [Threads -> Seq(CallSet)]
         /\ \A oh \in Threads \ {th} : todo'[oh] = todo[oh]
         /\ Len(calls) \in Nat /\ DOMAIN calls = 1 .. Len(calls)
         /\ Len(todo'[th]) = Len(calls) + Len(todo[th]) - 1
         /\ \A i \in DOMAIN todo'[th] :
              \/ i \in DOMAIN calls /\ todo'[th][i] = calls[i]
              \/ /\ i > Len(calls) /\ i - Len(calls) + 1 \in DOMAIN todo[th] \ {1}
                 /\ todo'[th][i] = todo[th][i - Len(calls) + 1]
         /\ \A i \in DOMAIN calls : i \in DOMAIN todo'[th] /\ todo'[th][i] = calls[i]
         /\ \A i \in DOMAIN todo[th] \ {1} :
              /\ i - 1 + Len(calls) \in DOMAIN todo'[th]
              /\ todo'[th][i - 1 + Len(calls)] = todo[th][i]
<1>1. todo' = [todo EXCEPT ![th] = calls \o Tail(todo[th])]
  BY DEF Then
<1>2. /\ Tail(todo[th]) \in Seq(CallSet) /\ Len(Tail(todo[th])) = Len(todo[th]) - 1
      /\ Len(todo[th]) \in Nat \ {0}
      /\ \A i \in DOMAIN Tail(todo[th]) : i + 1 \in DOMAIN todo[th] /\ Tail(todo[th])[i] = todo[th][i + 1]
      /\ \A i \in DOMAIN todo[th] \ {1} : i - 1 \in DOMAIN Tail(todo[th]) /\ Tail(todo[th])[i - 1] = todo[th][i]
  BY TailElements
<1>3. /\ calls \o Tail(todo[th]) \in Seq(CallSet)
      /\ Len(calls \o Tail(todo[th])) = Len(calls) + Len(Tail(todo[th]))
      /\ \A i \in DOMAIN (calls \o Tail(todo[th])) :
           \/ i \in DOMAIN calls /\ (calls \o Tail(todo[th]))[i] = calls[i]
           \/ /\ i - Len(calls) \in DOMAIN Tail(todo[th])
              /\ (calls \o Tail(todo[th]))[i] = Tail(todo[th])[i - Len(calls)]
      /\ \A i \in DOMAIN calls :
           i \in DOMAIN (calls \o Tail(todo[th])) /\ (calls \o Tail(todo[th]))[i] = calls[i]
      /\ \A i \in DOMAIN Tail(todo[th]) :
           /\ i + Len(calls) \in DOMAIN (calls \o Tail(todo[th]))
           /\ (calls \o Tail(todo[th]))[i + Len(calls)] = Tail(todo[th])[i]
  BY <1>2, ConcatElements
<1>4. /\ todo'[th] = calls \o Tail(todo[th]) /\ todo' \in [Threads -> Seq(CallSet)]
      /\ \A oh \in Threads \ {th} : todo'[oh] = todo[oh]
  BY <1>1, <1>3
<1>5. /\ Len(calls) \in Nat /\ DOMAIN calls = 1 .. Len(calls)
      /\ DOMAIN Tail(todo[th]) = 1 .. Len(Tail(todo[th]))
      /\ DOMAIN todo[th] = 1 .. Len(todo[th])
  BY <1>2, LenProperties
<1>6. ASSUME NEW i \in DOMAIN todo'[th], i - Len(calls) \in DOMAIN Tail(todo[th])
      PROVE  /\ i > Len(calls) /\ i - Len(calls) + 1 \in DOMAIN todo[th] \ {1}
             /\ Tail(todo[th])[i - Len(calls)] = todo[th][i - Len(calls) + 1]
  <2>1. i \in Int
    BY <1>3, <1>4, LenProperties
  <2>2. QED
    BY <1>2, <1>5, <1>6, <2>1
<1>7. ASSUME NEW i \in DOMAIN todo[th] \ {1}
      PROVE  /\ i - 1 + Len(calls) \in DOMAIN todo'[th]
             /\ todo'[th][i - 1 + Len(calls)] = todo[th][i]
  BY <1>2, <1>3, <1>4
<1>8. QED
  BY <1>2, <1>3, <1>4, <1>5, <1>6, <1>7
-----------------------------------------------------------------------------
(* Completed runs, and what the tasks a task depends on have shown.        *)
HasCompleted(t) == \E n \in Nums : rstatus[<<t, n>>] = "completed"

Cleared(d) ==
  /\ HasCompleted(d)
  /\ d \in Gated => (d \in judged /\ verdict[d] = "open") \/ overrides > 0

MayRun(t) == \A d \in Deps[t] : Cleared(d)

AllHaveCompleted == \A t \in Known : HasCompleted(t)

(* What a call is about, and what it was made of.                          *)
TaskCalls == {"add", "start", "create", "link", "sync", "apply", "evaluate", "judge",
              "cancelrun", "reconciletask"}

CallOK(c) ==
  /\ c.op \in TaskCalls => c.task \in Tasks
  /\ c.op \in {"link", "sync", "apply"} => c.run \in Nums
  /\ c.op \in {"link", "sync", "apply"} => rstatus[<<c.task, c.run>>] # "none"
  /\ c.op = "apply" =>
       /\ c.status \in {"queued", "running"} \cup TerminalStatuses
       /\ c.status = "completed" => rstatus[<<c.task, c.run>>] = "completed"
       /\ trun[c.task] # 0
  /\ c.op = "evaluate" => trun[c.task] # 0
  /\ c.op = "judge" => c.task \in Gated /\ trun[c.task] # 0
  /\ c.op = "finish" => c.status \in {"failed", "cancelled"}
  /\ c.op = "end" => c.status \in TerminalStatuses \cup {"blocked"}
  /\ c.op = "end" /\ c.status = "completed" => AllHaveCompleted
  /\ c.op = "create" => MayRun(c.task) /\ tstatus[c.task] # "absent"
  /\ c.op = "override" => overrides > 0

Pushed(c) == \E th \in Threads : \E i \in DOMAIN todo[th] : todo[th][i] = c

CallsOK == \A c \in CallSet : Pushed(c) => CallOK(c)

(* Some calls are made by one thread only.                                 *)
Caller(op) ==
  CASE op \in {"add", "begin"}                            -> Create
    [] op \in {"cancel", "cancelrun", "recheck"}          -> Cancel
    [] op \in {"override", "unblock", "resume"}           -> Override
    [] op \in {"orphans", "reconcile", "reconciletask"}   -> Startup

OwnCalls == {"add", "begin", "cancel", "cancelrun", "recheck", "override", "unblock", "resume",
             "orphans", "reconcile", "reconciletask"}

CallerOK(th, c) == c.op \in OwnCalls => th = Caller(c.op)

CallersKnown == \A th \in Threads : \A i \in DOMAIN todo[th] : CallerOK(th, todo[th][i])

(* The tasks and the runs agree.                                           *)
TaskOK(t) ==
  /\ mapped[t] \subseteq Made(t)
  /\ mapped[t] # {} => trun[t] # 0
  /\ trun[t] # 0 => trun[t] \in mapped[t]
  /\ tstatus[t] = "completed" => HasCompleted(t)
  /\ tstatus[t] = "queued" \/ Made(t) # {} => MayRun(t) /\ tstatus[t] # "absent"
  /\ gate[t] = "open" => t \in judged /\ verdict[t] = "open"
  /\ gate[t] = "overridden" => overrides > 0

(* Runs whose process died have not ended, and nothing but the startup is  *)
(* going to end them.                                                      *)
OrphansOK ==
  /\ \A x \in orphans : rstatus[x] \in {"queued", "running"} /\ x[1] \notin Remote
  /\ orphans # {} => Idle(Cancel) /\ \E i \in DOMAIN todo[Startup] : todo[Startup][i].op = "orphans"

(* While tasks are added nothing but a cancellation is at work.            *)
Adding == \E i \in DOMAIN todo[Create] : todo[Create][i].op = "add"

AddsFirst ==
  \A i \in DOMAIN todo[Create] :
    todo[Create][i].op = "add" => \A j \in 1 .. i : todo[Create][j].op = "add"

NothingRuns ==
  /\ \A t \in Tasks : /\ tstatus[t] \in {"absent", "pending", "cancelled"}
                      /\ Made(t) = {} /\ gate[t] = "none"
  /\ mission # "completed"
  /\ \A i \in DOMAIN todo[Create] : todo[Create][i].op \in {"add", "begin", "drain"}
  /\ \A th \in Threads \ {Create} : \A i \in DOMAIN todo[th] :
       \/ todo[th][i].op \in {"cancel", "cancelrun", "recheck"}
       \/ todo[th][i].op = "end" /\ todo[th][i].status = "cancelled"

AddingOK == AddsFirst /\ (Adding => NothingRuns)

(* Before there is a mission nothing happens.                              *)
AbsentOK ==
  mission = "absent" =>
    /\ \A th \in Threads \ {Startup} : Idle(th)
    /\ \A i \in DOMAIN todo[Startup] : todo[Startup][i].op \in {"orphans", "reconcile"}
    /\ \A t \in Tasks : /\ tstatus[t] = "absent" /\ gate[t] = "none" /\ Made(t) = {}
    /\ orphans = {}

MissionInv ==
  /\ MissionTypeOK /\ CallsOK /\ CallersKnown
  /\ \A t \in Tasks : TaskOK(t)
  /\ mission = "completed" => AllHaveCompleted
  /\ OrphansOK /\ AddingOK /\ AbsentOK
-----------------------------------------------------------------------------
(* The calls that steps push.                                              *)
Statuses == {"none", "queued", "running", "blocked"} \cup TerminalStatuses

LEMMA OneCall ==
  ASSUME NEW op \in Ops, NEW t \in Tasks \cup {NoTask}, NEW n \in 0 .. MaxRuns,
         NEW s \in Statuses
  PROVE  /\ Call(op, t, n, s) \in CallSet
         /\ <<Call(op, t, n, s)>> \in Seq(CallSet)
         /\ DOMAIN <<Call(op, t, n, s)>> = {1} /\ Len(<<Call(op, t, n, s)>>) = 1
         /\ <<Call(op, t, n, s)>>[1] = Call(op, t, n, s)
         /\ Call(op, t, n, s).op = op /\ Call(op, t, n, s).task = t
         /\ Call(op, t, n, s).run = n /\ Call(op, t, n, s).status = s
<1>1. Call(op, t, n, s) \in CallSet
  BY DEF Call, CallSet, Statuses
<1>2. QED
  BY <1>1 DEF Call

LEMMA DoCall ==
  ASSUME NEW op \in Ops
  PROVE  /\ Do(op) \in Seq(CallSet) /\ DOMAIN Do(op) = {1} /\ Len(Do(op)) = 1
         /\ Do(op)[1] \in CallSet /\ Do(op)[1].op = op
<1>1. 0 \in 0 .. MaxRuns /\ "none" \in Statuses
  BY MissionAssumption DEF Statuses
<1>2. QED
  BY <1>1, OneCall DEF Do

LEMMA DoTaskCall ==
  ASSUME NEW op \in Ops, NEW t \in Tasks
  PROVE  /\ DoTask(op, t) \in Seq(CallSet) /\ DOMAIN DoTask(op, t) = {1} /\ Len(DoTask(op, t)) = 1
         /\ DoTask(op, t)[1] \in CallSet /\ DoTask(op, t)[1].op = op
         /\ DoTask(op, t)[1].task = t
<1>1. 0 \in 0 .. MaxRuns /\ "none" \in Statuses
  BY MissionAssumption DEF Statuses
<1>2. QED
  BY <1>1, OneCall DEF DoTask

LEMMA SyncCall ==
  ASSUME NEW t \in Tasks, NEW n \in Nums
  PROVE  /\ Sync(t, n) \in Seq(CallSet) /\ DOMAIN Sync(t, n) = {1} /\ Len(Sync(t, n)) = 1
         /\ Sync(t, n)[1] \in CallSet /\ Sync(t, n)[1].op = "sync"
         /\ Sync(t, n)[1].task = t /\ Sync(t, n)[1].run = n
<1>1. n \in 0 .. MaxRuns /\ "none" \in Statuses /\ "sync" \in Ops
  BY MissionAssumption DEF Statuses, Nums, Ops
<1>2. QED
  BY <1>1, OneCall DEF Sync

LEMMA EventCalls ==
  ASSUME NEW t \in Tasks, NEW n \in Nums
  PROVE  /\ OnTerminalEvent(t, n) \in Seq(CallSet)
         /\ DOMAIN OnTerminalEvent(t, n) = {1, 2} /\ Len(OnTerminalEvent(t, n)) = 2
         /\ OnTerminalEvent(t, n)[1] = Sync(t, n)[1]
         /\ OnTerminalEvent(t, n)[2] = Do("drain")[1]
<1>1. "drain" \in Ops
  BY DEF Ops
<1>2. Sync(t, n) \in Seq(CallSet) /\ Do("drain") \in Seq(CallSet)
      /\ DOMAIN Sync(t, n) = {1} /\ Len(Sync(t, n)) = 1
      /\ DOMAIN Do("drain") = {1} /\ Len(Do("drain")) = 1
  BY <1>1, SyncCall, DoCall
<1>3. QED
  BY <1>2, ConcatElements, LenProperties DEF OnTerminalEvent

LEMMA EachCall ==
  ASSUME NEW op \in Ops, NEW S \in SUBSET Tasks
  PROVE  /\ ForEach(op, S) \in Seq(CallSet)
         /\ \A i \in DOMAIN ForEach(op, S) :
              /\ ForEach(op, S)[i] \in CallSet /\ ForEach(op, S)[i].op = op
              /\ ForEach(op, S)[i].task \in S
         /\ \A i, j \in DOMAIN ForEach(op, S) :
              ForEach(op, S)[i].task = ForEach(op, S)[j].task => i = j
<1> DEFINE f == ForEach(op, S)
<1>1. 0 \in 0 .. MaxRuns /\ "none" \in Statuses
  BY MissionAssumption DEF Statuses
<1>2. InOrder(S) \in Seq(S)
  BY MissionAssumption
<1>3. /\ DOMAIN InOrder(S) = 1 .. Len(InOrder(S)) /\ Len(InOrder(S)) \in Nat
      /\ \A i \in DOMAIN InOrder(S) : InOrder(S)[i] \in S
  BY <1>2, LenProperties, ElementOfSeq
<1>4. \A i \in DOMAIN InOrder(S) :
        f[i] \in CallSet /\ f[i].op = op /\ f[i].task = InOrder(S)[i]
  BY <1>1, <1>3, OneCall DEF ForEach
<1>5. DOMAIN f = DOMAIN InOrder(S)
  BY DEF ForEach
<1>6. f \in [1 .. Len(InOrder(S)) -> CallSet]
  BY <1>3, <1>4 DEF ForEach
<1>7. f \in Seq(CallSet)
  BY <1>3, <1>6, SeqDef
<1>8. QED
  BY <1>3, <1>4, <1>5, <1>7, MissionAssumption

LEMMA NoCalls == <<>> \in Seq(CallSet) /\ DOMAIN <<>> = {} /\ Len(<<>>) = 0
  BY EmptySeq

(* What a thread at its next call knows.                                   *)
LEMMA AtCall ==
  ASSUME MissionTypeOK, NEW th \in Threads, NEW op, op # "none", At(th, op)
  PROVE  /\ todo[th] # <<>> /\ todo[th] \in Seq(CallSet) /\ 1 \in DOMAIN todo[th]
         /\ Head(todo[th]) = todo[th][1] /\ Head(todo[th]) \in CallSet
         /\ Head(todo[th]).op = op /\ op \in Ops
<1>1. todo[th] # <<>> /\ todo[th] \in Seq(CallSet)
  BY DEF At, Upcoming, MissionTypeOK, CallSet
<1>2. Head(todo[th]).op = op
  BY <1>1 DEF At, Upcoming
<1>3. 1 \in DOMAIN todo[th] /\ Head(todo[th]) = todo[th][1] /\ Head(todo[th]) \in CallSet
  BY <1>1, TailElements
<1>4. QED
  BY <1>1, <1>2, <1>3 DEF CallSet
-----------------------------------------------------------------------------
(* What is never undone: runs stay made, a run that completed stays so, a  *)
(* task keeps having a run, and what was judged or approved stays that.    *)
Forward ==
  /\ \A t \in Tasks, n \in Nums :
       /\ rstatus[<<t, n>>] # "none" => rstatus'[<<t, n>>] # "none"
       /\ rstatus[<<t, n>>] = "completed" => rstatus'[<<t, n>>] = "completed"
  /\ \A t \in Tasks : trun[t] # 0 => trun'[t] # 0
  /\ judged \subseteq judged' /\ verdict' = verdict
  /\ overrides > 0 => overrides' > 0

LEMMA ClearedStays ==
  ASSUME Forward, NEW t \in Tasks
  PROVE  /\ HasCompleted(t) => HasCompleted(t)'
         /\ MayRun(t) => MayRun(t)'
<1>1. \A d \in Tasks : HasCompleted(d) => HasCompleted(d)'
  BY DEF Forward, HasCompleted
<1>2. \A d \in Tasks : Cleared(d) => Cleared(d)'
  BY <1>1 DEF Forward, Cleared
<1>3. Deps[t] \subseteq Tasks
  BY MissionAssumption
<1>4. QED
  BY <1>1, <1>2, <1>3 DEF MayRun

LEMMA CallStaysOK ==
  ASSUME Forward, Known \subseteq Known', NEW c \in CallSet, CallOK(c),
         Known' \subseteq Known \/ ~(c.op = "end" /\ c.status = "completed")
  PROVE  CallOK(c)'
<1>1. c.task \in Tasks => (MayRun(c.task) => MayRun(c.task)')
  BY ClearedStays
<1>2. Known' \subseteq Known /\ AllHaveCompleted => AllHaveCompleted'
  BY ClearedStays DEF AllHaveCompleted, Known
<1>3. c.op \in {"create", "link", "sync", "apply", "evaluate", "judge"} => c.op \in TaskCalls
  BY DEF TaskCalls
<1>4. CASE c.op = "create"
  BY <1>1, <1>3, <1>4 DEF CallOK, Known
<1>5. CASE c.op = "end"
  BY <1>2, <1>5 DEF CallOK, TaskCalls
<1>6. CASE c.op \in {"link", "sync", "apply", "evaluate", "judge"}
  <2>1. c.task \in Tasks
    BY <1>3, <1>6 DEF CallOK
  <2>2. QED
    BY <1>6, <2>1 DEF CallOK, Forward, TaskCalls
<1>7. CASE c.op = "override"
  BY <1>7 DEF CallOK, Forward, TaskCalls
<1>8. CASE c.op \notin {"create", "end", "link", "sync", "apply", "evaluate", "judge",
                          "override"}
  BY <1>8 DEF CallOK
<1>9. QED
  BY <1>4, <1>5, <1>6, <1>7, <1>8

(* The calls after a step: those before it, and new ones of one thread,    *)
(* which know what they should.                                            *)
Grown(th, calls) ==
  /\ todo' \in [Threads -> Seq(CallSet)]
  /\ \A oh \in Threads \ {th} : todo'[oh] = todo[oh]
  /\ \A i \in DOMAIN todo'[th] :
       \/ \E j \in DOMAIN calls : todo'[th][i] = calls[j]
       \/ \E j \in DOMAIN todo[th] : todo'[th][i] = todo[th][j]
  /\ \A i \in DOMAIN calls : CallerOK(th, calls[i]) /\ CallOK(calls[i])'

LEMMA PushedGrown ==
  ASSUME NEW th \in Threads, NEW calls, Grown(th, calls), NEW c, Pushed(c)'
  PROVE  Pushed(c) \/ \E i \in DOMAIN calls : calls[i] = c
<1>1. PICK oh \in Threads : \E i \in DOMAIN todo'[oh] : todo'[oh][i] = c
  BY DEF Pushed
<1>2. PICK i \in DOMAIN todo'[oh] : todo'[oh][i] = c
  BY <1>1
<1>3. CASE oh = th
  BY <1>2, <1>3 DEF Pushed, Grown
<1>4. CASE oh # th
  BY <1>2, <1>4 DEF Pushed, Grown
<1>5. QED
  BY <1>3, <1>4

LEMMA CallsStayOK ==
  ASSUME CallsOK, Forward, Known \subseteq Known', NEW th \in Threads, NEW calls,
         Grown(th, calls),
         \/ Known' \subseteq Known
         \/ \A c \in CallSet : Pushed(c) => ~(c.op = "end" /\ c.status = "completed")
  PROVE  CallsOK'
<1>1. ASSUME NEW c \in CallSet, Pushed(c)'
      PROVE  CallOK(c)'
  <2>1. CASE Pushed(c)
    BY <2>1, CallStaysOK DEF CallsOK
  <2>2. ASSUME NEW i \in DOMAIN calls, calls[i] = c
        PROVE  CallOK(c)'
    <3>1. CallOK(calls[i])'
      BY DEF Grown
    <3>2. QED
      BY <2>2, <3>1
  <2>3. QED
    BY <1>1, <2>1, <2>2, PushedGrown
<1>2. QED
  BY <1>1 DEF CallsOK
-----------------------------------------------------------------------------
(* A head of the right kind is about a task and a run.                     *)
LEMMA HeadOK ==
  ASSUME MissionInv, NEW th \in Threads, NEW op, op # "none", At(th, op)
  PROVE  /\ CallOK(Head(todo[th]))
         /\ op \in TaskCalls => Head(todo[th]).task \in Tasks
         /\ op \in {"link", "sync", "apply"} => Head(todo[th]).run \in Nums
<1>1. /\ 1 \in DOMAIN todo[th] /\ Head(todo[th]) = todo[th][1] /\ Head(todo[th]) \in CallSet
      /\ Head(todo[th]).op = op
  BY AtCall DEF MissionInv
<1>2. Pushed(Head(todo[th]))
  BY <1>1 DEF Pushed
<1>3. CallOK(Head(todo[th]))
  BY <1>1, <1>2 DEF MissionInv, CallsOK
<1>4. QED
  BY <1>1, <1>3 DEF CallOK

(* Steps that touch neither runs nor links nor what was judged.            *)
LEMMA QuietIsForward ==
  ASSUME UNCHANGED <<rstatus, trun, judged, verdict, overrides>>
  PROVE  Forward
  BY DEF Forward

LEMMA RunStatusForward ==
  ASSUME NEW t \in Tasks, NEW n \in Nums, NEW s, s # "none",
         rstatus \in [Tasks \X Nums -> {"none", "queued", "running"} \cup TerminalStatuses],
         rstatus[<<t, n>>] # "completed", rstatus' = [rstatus EXCEPT ![<<t, n>>] = s],
         UNCHANGED <<trun, judged, verdict, overrides>>
  PROVE  Forward
  BY DEF Forward

LEMMA WorkIsForward ==
  ASSUME MissionInv, NEW th \in Threads, Work(th)
  PROVE  Forward
<1> USE DEF taskVars, runVars, faultVars
<1>1. CASE AddTask(th) \/ BeginMission(th) \/ Drain(th) \/ StartTask(th)
  BY <1>1, QuietIsForward DEF AddTask, BeginMission, Drain, StartTask
<1>2. CASE CreateRun(th)
  <2>1. Head(todo[th]).task \in Tasks
    BY <1>2, HeadOK DEF CreateRun, TaskCalls
  <2>2. PICK n \in Nums : Made(Head(todo[th]).task) = 1 .. (n - 1)
                          /\ rstatus' = [rstatus EXCEPT ![<<Head(todo[th]).task, n>>] = "queued"]
    BY <1>2 DEF CreateRun
  <2>3. n \notin Made(Head(todo[th]).task)
    BY <2>2 DEF Nums
  <2>4. rstatus[<<Head(todo[th]).task, n>>] = "none"
    BY <2>2, <2>3 DEF Made
  <2>5. QED
    BY <1>2, <2>1, <2>2, <2>4, RunStatusForward DEF CreateRun, MissionInv, MissionTypeOK
<1>3. CASE CreateRunFails(th) \/ SyncTask(th) \/ ApplyStatus(th) \/ EvaluateGate(th)
           \/ BlockMission(th) \/ FinishMission(th) \/ CheckDone(th) \/ EndMission(th)
  BY <1>3, QuietIsForward DEF CreateRunFails, SyncTask, ApplyStatus, EvaluateGate, BlockMission,
     FinishMission, CheckDone, EndMission
<1>4. CASE LinkRun(th)
  <2>1. Head(todo[th]).task \in Tasks /\ Head(todo[th]).run \in Nums
    BY <1>4, HeadOK DEF LinkRun, TaskCalls
  <2>2. QED
    BY <1>4, <2>1 DEF LinkRun, Forward, MissionInv, MissionTypeOK, Nums
<1>5. CASE JudgeGate(th)
  BY <1>5 DEF JudgeGate, Forward
<1>6. CASE CancelMission(th) \/ RecheckMission(th) \/ ApproveGates(th) \/ UnblockTasks(th)
           \/ ResumeMission(th)
  BY <1>6, QuietIsForward DEF CancelMission, RecheckMission, ApproveGates, UnblockTasks,
     ResumeMission
<1>7. CASE CancelRun(th)
  <2> DEFINE t == Head(todo[th]).task
  <2>1. t \in Tasks
    BY <1>7, HeadOK DEF CancelRun, TaskCalls
  <2>2. CASE UNCHANGED rstatus
    BY <1>7, <2>2, QuietIsForward DEF CancelRun
  <2>3. CASE ~UNCHANGED rstatus
    <3>1. /\ trun[t] # 0 /\ rstatus[<<t, trun[t]>>] \in {"queued", "running"}
          /\ rstatus' = [rstatus EXCEPT ![<<t, trun[t]>>] = "cancelled"]
      BY <1>7, <2>3 DEF CancelRun
    <3>2. trun[t] \in Nums
      BY <2>1, <3>1 DEF MissionInv, MissionTypeOK, Nums
    <3>3. QED
      BY <1>7, <2>1, <3>1, <3>2, RunStatusForward DEF CancelRun, MissionInv, MissionTypeOK
  <2>4. QED
    BY <2>2, <2>3
<1>8. CASE FailOrphan(th)
  <2>1. PICK x \in orphans : rstatus' = [rstatus EXCEPT ![x] = "failed"]
    BY <1>8 DEF FailOrphan
  <2>2. PICK t \in Tasks, n \in Nums : x = <<t, n>>
    BY DEF MissionInv, MissionTypeOK
  <2>3. rstatus[x] \in {"queued", "running"}
    BY DEF MissionInv, OrphansOK
  <2>4. QED
    BY <1>8, <2>1, <2>2, <2>3, RunStatusForward DEF FailOrphan, MissionInv, MissionTypeOK
<1>9. CASE OrphansFailed(th) \/ Reconcile(th) \/ ReconcileTask(th)
  BY <1>9, QuietIsForward DEF OrphansFailed, Reconcile, ReconcileTask
<1>10. QED
  BY <1>1, <1>2, <1>3, <1>4, <1>5, <1>6, <1>7, <1>8, <1>9 DEF Work

LEMMA StepIsForward ==
  ASSUME MissionInv, [Next]_vars
  PROVE  Forward
<1> USE DEF taskVars, runVars, faultVars
<1>1. CASE CreateMission \/ RequestCancel \/ Restart \/ UNCHANGED vars
  BY <1>1, QuietIsForward DEF CreateMission, RequestCancel, Restart, vars
<1>2. CASE RequestOverride
  BY <1>2 DEF RequestOverride, Forward, MissionInv, MissionTypeOK
<1>3. CASE \E th \in Threads : Work(th)
  BY <1>3, WorkIsForward
<1>4. ASSUME NEW t \in Tasks, NEW n \in Nums, RunGoesOn(t, n)
      PROVE  Forward
  <2>1. CASE RunStarts(t, n)
    BY <2>1, RunStatusForward DEF RunStarts, MissionInv, MissionTypeOK
  <2>2. ASSUME NEW s \in TerminalStatuses, RunEnds(t, n, s)
        PROVE  Forward
    BY <2>2, RunStatusForward DEF RunEnds, MissionInv, MissionTypeOK, TerminalStatuses
  <2>3. CASE RunEndsAgain(t, n)
    BY <2>3, QuietIsForward DEF RunEndsAgain
  <2>4. QED
    BY <1>4, <2>1, <2>2, <2>3 DEF RunGoesOn
<1>5. QED
  BY <1>1, <1>2, <1>3, <1>4 DEF Next, Requests
-----------------------------------------------------------------------------
(* Each step of a thread pushes calls that know what they should.          *)
NewCalls(th, calls) ==
  /\ calls \in Seq(CallSet) /\ todo[th] # <<>> /\ Then(th, calls)
  /\ \A i \in DOMAIN calls :
       CallerOK(th, calls[i]) /\ CallOK(calls[i])' /\ calls[i].op # "add"

(* Calls of which nothing more is asked than that they are about a task.   *)
LEMMA PlainCallOK ==
  ASSUME NEW c \in CallSet,
         c.op \notin {"link", "sync", "apply", "evaluate", "judge", "finish", "end", "create",
                     "override"},
         c.op \in TaskCalls => c.task \in Tasks
  PROVE  CallOK(c) /\ CallOK(c)'
  BY DEF CallOK

LEMMA NoNewCalls ==
  ASSUME MissionInv, NEW th \in Threads, todo[th] # <<>>, Then(th, <<>>)
  PROVE  NewCalls(th, <<>>)
  BY NoCalls DEF NewCalls

LEMMA PlainDo ==
  ASSUME MissionInv, NEW th \in Threads, todo[th] # <<>>, NEW op \in Ops, Then(th, Do(op)),
         op \notin {"link", "sync", "apply", "evaluate", "judge", "finish", "end", "create",
                   "override"},
         op \notin TaskCalls, op \in OwnCalls => th = Caller(op)
  PROVE  NewCalls(th, Do(op))
  BY DoCall, PlainCallOK DEF NewCalls, CallerOK, TaskCalls

(* A call that ends the mission.                                           *)
LEMMA EndCall ==
  ASSUME MissionInv, NEW th \in Threads, todo[th] # <<>>, NEW op \in {"end", "finish"},
         NEW s \in Statuses, Then(th, <<Call(op, NoTask, 0, s)>>),
         IF op = "finish" THEN s \in {"failed", "cancelled"}
                          ELSE s \in TerminalStatuses \cup {"blocked"},
         op = "end" /\ s = "completed" => AllHaveCompleted'
  PROVE  NewCalls(th, <<Call(op, NoTask, 0, s)>>)
<1> DEFINE c == Call(op, NoTask, 0, s)
<1>1. op \in Ops /\ 0 \in 0 .. MaxRuns
  BY MissionAssumption DEF Ops
<1>2. /\ c \in CallSet /\ <<c>> \in Seq(CallSet) /\ DOMAIN <<c>> = {1} /\ <<c>>[1] = c
      /\ c.op = op /\ c.status = s
  BY <1>1, OneCall
<1>3. CallOK(c)'
  BY <1>2 DEF CallOK, TaskCalls
<1>4. QED
  BY <1>2, <1>3 DEF NewCalls, CallerOK, OwnCalls

LEMMA AddAndBeginCalls ==
  ASSUME MissionInv, NEW th \in Threads, AddTask(th) \/ BeginMission(th) \/ EndMission(th)
  PROVE  \E calls : NewCalls(th, calls)
  BY AtCall, NoNewCalls DEF AddTask, BeginMission, EndMission, MissionInv

LEMMA DrainCalls ==
  ASSUME MissionInv, NEW th \in Threads, Drain(th)
  PROVE  \E S \in SUBSET Tasks :
           /\ \A t \in S : Ready(t) /\ ~Terminal(mission) /\ tstatus'[t] = "queued"
           /\ NewCalls(th, ForEach("start", S) \o Do("check"))
<1>1. PICK S \in SUBSET Tasks :
        /\ \A t \in S : Ready(t) /\ ~Terminal(mission) /\ tstatus'[t] = "queued"
        /\ Then(th, ForEach("start", S) \o Do("check"))
  BY DEF Drain
<1> DEFINE calls == ForEach("start", S) \o Do("check")
<1>2. todo[th] # <<>>
  BY AtCall DEF Drain, MissionInv
<1>3. "start" \in Ops /\ "check" \in Ops
  BY DEF Ops
<1>4. /\ ForEach("start", S) \in Seq(CallSet) /\ Do("check") \in Seq(CallSet)
      /\ \A i \in DOMAIN ForEach("start", S) :
           /\ ForEach("start", S)[i] \in CallSet /\ ForEach("start", S)[i].op = "start"
           /\ ForEach("start", S)[i].task \in Tasks
      /\ DOMAIN Do("check") = {1} /\ Do("check")[1] \in CallSet /\ Do("check")[1].op = "check"
  BY <1>3, EachCall, DoCall
<1>5. /\ calls \in Seq(CallSet)
      /\ \A i \in DOMAIN calls : /\ calls[i] \in CallSet /\ calls[i].op \in {"start", "check"}
                                 /\ calls[i].op = "start" => calls[i].task \in Tasks
  BY <1>4, ConcatElements
<1>6. \A i \in DOMAIN calls : CallOK(calls[i])' /\ CallerOK(th, calls[i])
  BY <1>5, PlainCallOK DEF CallerOK, OwnCalls, TaskCalls
<1>7. QED
  BY <1>1, <1>2, <1>5, <1>6 DEF NewCalls, CallerOK

(* One call about a task, of a kind no thread owns.                        *)
LEMMA OneNewCall ==
  ASSUME MissionInv, NEW th \in Threads, todo[th] # <<>>, NEW c \in CallSet, Then(th, <<c>>),
         c.op \notin OwnCalls, CallOK(c)'
  PROVE  NewCalls(th, <<c>>)
<1>1. <<c>> \in Seq(CallSet) /\ DOMAIN <<c>> = {1} /\ <<c>>[1] = c
  OBVIOUS
<1>2. QED
  BY <1>1 DEF NewCalls, CallerOK, OwnCalls

LEMMA StartTaskCalls ==
  ASSUME MissionInv, NEW th \in Threads, StartTask(th)
  PROVE  \/ NewCalls(th, <<>>)
         \/ \E t \in Tasks : /\ t = Head(todo[th]).task
                            /\ ~Terminal(mission) /\ tstatus[t] = "queued"
                            /\ NewCalls(th, DoTask("create", t))
<1>1. todo[th] # <<>> /\ Head(todo[th]).task \in Tasks /\ "create" \in Ops
  BY AtCall, HeadOK DEF StartTask, MissionInv, TaskCalls, Ops
<1>2. PICK t \in Tasks : t = Head(todo[th]).task
  BY <1>1
<1>3. CASE ~Terminal(mission) /\ tstatus[t] = "queued"
  <2>1. Forward
    BY WorkIsForward DEF Work
  <2>2. MayRun(t)'
    BY <1>3, <2>1, ClearedStays DEF MissionInv, TaskOK
  <2>3. PICK c \in CallSet : c = Call("create", t, 0, "none") /\ c.op = "create" /\ c.task = t
    <3>1. 0 \in 0 .. MaxRuns /\ "none" \in Statuses
      BY MissionAssumption DEF Statuses
    <3>2. QED
      BY <1>1, <3>1, OneCall
  <2>4. CallOK(c)'
    BY <1>3, <2>2, <2>3 DEF CallOK, StartTask, taskVars
  <2>5. Then(th, <<c>>) /\ DoTask("create", t) = <<c>>
    BY <1>2, <1>3, <2>3 DEF StartTask, DoTask
  <2>6. NewCalls(th, <<c>>)
    BY <1>1, <2>3, <2>4, <2>5, OneNewCall DEF OwnCalls
  <2>7. QED
    BY <1>2, <1>3, <2>5, <2>6
<1>4. CASE ~(~Terminal(mission) /\ tstatus[t] = "queued")
  BY <1>1, <1>2, <1>4, NoNewCalls DEF StartTask
<1>5. QED
  BY <1>3, <1>4

(* What create_run is about to make is still missing.                      *)
LEMMA NextRun ==
  ASSUME MissionInv, NEW t \in Tasks, NEW n \in Nums, Made(t) = 1 .. (n - 1)
  PROVE  rstatus[<<t, n>>] = "none"
<1>1. n \notin Made(t)
  BY DEF Nums
<1>2. QED
  BY <1>1 DEF Made

LEMMA CreateRunCalls ==
  ASSUME MissionInv, NEW th \in Threads, CreateRun(th)
  PROVE  \E t \in Tasks, n \in Nums :
           /\ t = Head(todo[th]).task /\ Made(t) = 1 .. (n - 1)
           /\ rstatus' = [rstatus EXCEPT ![<<t, n>>] = "queued"]
           /\ NewCalls(th, <<Call("link", t, n, "none")>>)
<1>1. todo[th] # <<>> /\ Head(todo[th]).task \in Tasks /\ "link" \in Ops
  BY AtCall, HeadOK DEF CreateRun, MissionInv, TaskCalls, Ops
<1>2. PICK t \in Tasks : t = Head(todo[th]).task
  BY <1>1
<1>3. PICK n \in Nums : /\ rstatus' = [rstatus EXCEPT ![<<t, n>>] = "queued"]
                        /\ Then(th, <<Call("link", t, n, "none")>>)
                        /\ Made(t) = 1 .. (n - 1)
  BY <1>2 DEF CreateRun
<1>4. PICK c \in CallSet : /\ c = Call("link", t, n, "none") /\ c.op = "link"
                           /\ c.task = t /\ c.run = n
  <2>1. n \in 0 .. MaxRuns /\ "none" \in Statuses
    BY MissionAssumption DEF Statuses, Nums
  <2>2. QED
    BY <1>1, <2>1, OneCall
<1>5. rstatus'[<<t, n>>] = "queued"
  BY <1>3 DEF MissionInv, MissionTypeOK
<1>6. CallOK(c)'
  BY <1>4, <1>5 DEF CallOK
<1>7. NewCalls(th, <<c>>)
  BY <1>1, <1>3, <1>4, <1>6, OneNewCall DEF OwnCalls
<1>8. QED
  BY <1>2, <1>3, <1>4, <1>7

LEMMA CreateFailsCalls ==
  ASSUME MissionInv, NEW th \in Threads, CreateRunFails(th)
  PROVE  \E calls : NewCalls(th, calls)
<1>1. todo[th] # <<>> /\ "failed" \in Statuses
  BY AtCall DEF CreateRunFails, MissionInv, Statuses, TerminalStatuses
<1>2. Then(th, <<Call("finish", NoTask, 0, "failed")>>)
  BY DEF CreateRunFails
<1>3. QED
  BY <1>1, <1>2, EndCall

LEMMA SyncIsNew ==
  ASSUME MissionInv, NEW th \in Threads, todo[th] # <<>>, NEW t \in Tasks, NEW n \in Nums,
         rstatus'[<<t, n>>] # "none", Then(th, Sync(t, n))
  PROVE  NewCalls(th, Sync(t, n))
<1>1. /\ Sync(t, n) \in Seq(CallSet) /\ DOMAIN Sync(t, n) = {1} /\ Sync(t, n)[1] \in CallSet
      /\ Sync(t, n)[1].op = "sync" /\ Sync(t, n)[1].task = t /\ Sync(t, n)[1].run = n
  BY SyncCall
<1>2. CallOK(Sync(t, n)[1])'
  BY <1>1 DEF CallOK
<1>3. QED
  BY <1>1, <1>2 DEF NewCalls, CallerOK, OwnCalls

LEMMA EventsAreNew ==
  ASSUME MissionInv, NEW th \in Threads, NEW t \in Tasks, NEW n \in Nums,
         rstatus'[<<t, n>>] # "none"
  PROVE  \A i \in DOMAIN OnTerminalEvent(t, n) :
           /\ CallerOK(th, OnTerminalEvent(t, n)[i]) /\ CallOK(OnTerminalEvent(t, n)[i])'
           /\ OnTerminalEvent(t, n)[i].op \in {"sync", "drain"}
<1> DEFINE a == Sync(t, n)[1]
           b == Do("drain")[1]
<1>1. /\ a \in CallSet /\ a.op = "sync" /\ a.task = t /\ a.run = n
  BY SyncCall
<1>2. b \in CallSet /\ b.op = "drain"
  BY DoCall DEF Ops
<1>3. CallOK(a)'
  BY <1>1 DEF CallOK
<1>4. CallOK(b)'
  BY <1>2, PlainCallOK DEF TaskCalls
<1>5. CallerOK(th, a) /\ CallerOK(th, b)
  BY <1>1, <1>2 DEF CallerOK, OwnCalls
<1>6. \A i \in DOMAIN OnTerminalEvent(t, n) : OnTerminalEvent(t, n)[i] \in {a, b}
  BY EventCalls
<1>7. ASSUME NEW i \in DOMAIN OnTerminalEvent(t, n)
      PROVE  CallOK(OnTerminalEvent(t, n)[i])'
  <2>1. CASE OnTerminalEvent(t, n)[i] = a
    BY <1>3, <2>1
  <2>2. CASE OnTerminalEvent(t, n)[i] = b
    BY <1>4, <2>2
  <2>3. QED
    BY <1>6, <2>1, <2>2
<1>8. QED
  BY <1>1, <1>2, <1>5, <1>6, <1>7

LEMMA LinkRunCalls ==
  ASSUME MissionInv, NEW th \in Threads, LinkRun(th)
  PROVE  \E t \in Tasks, n \in Nums :
           t = Head(todo[th]).task /\ n = Head(todo[th]).run /\ NewCalls(th, Sync(t, n))
<1>1. /\ todo[th] # <<>> /\ Head(todo[th]).task \in Tasks /\ Head(todo[th]).run \in Nums
      /\ CallOK(Head(todo[th])) /\ Head(todo[th]).op = "link"
  BY AtCall, HeadOK DEF LinkRun, MissionInv, TaskCalls
<1>2. PICK t \in Tasks, n \in Nums : t = Head(todo[th]).task /\ n = Head(todo[th]).run
  BY <1>1
<1>3. rstatus'[<<t, n>>] # "none"
  BY <1>1, <1>2 DEF LinkRun, CallOK, runVars
<1>4. QED
  BY <1>1, <1>2, <1>3, SyncIsNew DEF LinkRun, LookBack

LEMMA SyncTaskCalls ==
  ASSUME MissionInv, NEW th \in Threads, SyncTask(th)
  PROVE  \E t \in Tasks, n \in Nums :
           /\ t = Head(todo[th]).task /\ n = Head(todo[th]).run
           /\ \/ /\ n \in mapped[t] => ~RunFinal(t, n)
                 /\ NewCalls(th, <<>>)
              \/ \E s \in Statuses : /\ n \in mapped[t] /\ s = rstatus[<<t, n>>]
                                     /\ NewCalls(th, <<Call("apply", t, n, s)>>)
<1>1. todo[th] # <<>> /\ Head(todo[th]).task \in Tasks /\ Head(todo[th]).run \in Nums
  BY AtCall, HeadOK DEF SyncTask, MissionInv, TaskCalls
<1>2. PICK t \in Tasks, n \in Nums : t = Head(todo[th]).task /\ n = Head(todo[th]).run
  BY <1>1
<1>3. PICK s \in Statuses : s = rstatus[<<t, n>>]
  BY DEF MissionInv, MissionTypeOK, Statuses
<1>4. \/ (n \in mapped[t] => ~Terminal(s)) /\ Then(th, <<>>)
      \/ n \in mapped[t] /\ Then(th, <<Call("apply", t, n, s)>>)
  BY <1>2, <1>3 DEF SyncTask, TaskStatus
<1>5. CASE (n \in mapped[t] => ~Terminal(s)) /\ Then(th, <<>>)
  BY <1>1, <1>2, <1>3, <1>5, NoNewCalls DEF RunFinal, Terminal
<1>6. CASE n \in mapped[t] /\ Then(th, <<Call("apply", t, n, s)>>)
  <2>1. n \in Made(t) /\ trun[t] # 0
    BY <1>6 DEF MissionInv, TaskOK
  <2>2. s # "none" /\ s \in {"queued", "running"} \cup TerminalStatuses
    BY <1>3, <2>1 DEF Made, MissionInv, MissionTypeOK
  <2>3. PICK c \in CallSet : /\ c = Call("apply", t, n, s) /\ c.op = "apply" /\ c.task = t
                             /\ c.run = n /\ c.status = s
    <3>1. n \in 0 .. MaxRuns /\ "apply" \in Ops
      BY MissionAssumption DEF Nums, Ops
    <3>2. QED
      BY <3>1, OneCall
  <2>4. UNCHANGED <<rstatus, trun>>
    BY DEF SyncTask, taskVars, runVars
  <2>5. CallOK(c)'
    BY <1>3, <2>1, <2>2, <2>3, <2>4 DEF CallOK
  <2>6. NewCalls(th, <<c>>)
    BY <1>1, <1>6, <2>3, <2>5, OneNewCall DEF OwnCalls
  <2>7. QED
    BY <1>2, <1>3, <1>6, <2>3, <2>6
<1>7. QED
  BY <1>4, <1>5, <1>6

LEMMA ApplyStatusCalls ==
  ASSUME MissionInv, NEW th \in Threads, ApplyStatus(th)
  PROVE  \E t \in Tasks, s \in Statuses :
           /\ t = Head(todo[th]).task /\ s = Head(todo[th]).status
           /\ NewCalls(th, AfterStatus(t, s))
<1>1. /\ todo[th] # <<>> /\ Head(todo[th]).task \in Tasks /\ Head(todo[th]) \in CallSet
      /\ CallOK(Head(todo[th])) /\ Head(todo[th]).op = "apply"
  BY AtCall, HeadOK DEF ApplyStatus, MissionInv, TaskCalls
<1>2. PICK t \in Tasks, s \in Statuses : t = Head(todo[th]).task /\ s = Head(todo[th]).status
  BY <1>1 DEF CallSet, Statuses
<1>3. trun[t] # 0 /\ UNCHANGED trun
  BY <1>1, <1>2 DEF CallOK, ApplyStatus
<1>4. Then(th, AfterStatus(t, s))
  BY <1>2 DEF ApplyStatus
<1>5. CASE s = "completed"
  <2>1. PICK c \in CallSet : DoTask("evaluate", t) = <<c>> /\ c.op = "evaluate" /\ c.task = t
    <3>1. 0 \in 0 .. MaxRuns /\ "none" \in Statuses /\ "evaluate" \in Ops
      BY MissionAssumption DEF Statuses, Ops
    <3>2. QED
      BY <3>1, OneCall DEF DoTask
  <2>2. CallOK(c)'
    BY <1>3, <2>1 DEF CallOK
  <2>3. AfterStatus(t, s) = <<c>>
    BY <1>5, <2>1 DEF AfterStatus
  <2>4. QED
    BY <1>1, <1>2, <1>4, <2>1, <2>2, <2>3, OneNewCall DEF OwnCalls
<1>6. CASE s \in {"failed", "cancelled"}
  <2>1. AfterStatus(t, s) = <<Call("finish", NoTask, 0, s)>>
    BY <1>6 DEF AfterStatus
  <2>2. QED
    BY <1>1, <1>2, <1>4, <1>6, <2>1, EndCall
<1>7. CASE s \notin {"completed", "failed", "cancelled"}
  BY <1>1, <1>2, <1>4, <1>7, NoNewCalls DEF AfterStatus
<1>8. QED
  BY <1>5, <1>6, <1>7

(* To block is a call about no task.                                       *)
LEMMA GateCalls ==
  ASSUME MissionInv, NEW th \in Threads, todo[th] # <<>>, NEW op \in {"block", "drain", "recheck"},
         Then(th, Do(op)), op = "recheck" => th = Cancel
  PROVE  NewCalls(th, Do(op))
  BY PlainDo DEF Ops, TaskCalls, OwnCalls, Caller

LEMMA EvaluateCalls ==
  ASSUME MissionInv, NEW th \in Threads, EvaluateGate(th)
  PROVE  \E t \in Tasks :
           /\ t = Head(todo[th]).task /\ trun[t] # 0
           /\ \/ t \in Gated /\ gate[t] = "none" /\ NewCalls(th, DoTask("judge", t))
              \/ t \in Gated /\ gate[t] = "blocking" /\ NewCalls(th, Do("block"))
              \/ NewCalls(th, Do("drain"))
<1>1. /\ todo[th] # <<>> /\ Head(todo[th]).task \in Tasks
      /\ CallOK(Head(todo[th])) /\ Head(todo[th]).op = "evaluate"
  BY AtCall, HeadOK DEF EvaluateGate, MissionInv, TaskCalls
<1>2. PICK t \in Tasks : t = Head(todo[th]).task
  BY <1>1
<1>3. trun[t] # 0 /\ UNCHANGED trun
  BY <1>1, <1>2 DEF CallOK, EvaluateGate, taskVars
<1>4. CASE t \in Gated /\ gate[t] = "none"
  <2>1. PICK c \in CallSet : DoTask("judge", t) = <<c>> /\ c.op = "judge" /\ c.task = t
    <3>1. 0 \in 0 .. MaxRuns /\ "none" \in Statuses /\ "judge" \in Ops
      BY MissionAssumption DEF Statuses, Ops
    <3>2. QED
      BY <3>1, OneCall DEF DoTask
  <2>2. CallOK(c)'
    BY <1>3, <1>4, <2>1 DEF CallOK
  <2>3. Then(th, <<c>>)
    BY <1>2, <1>4, <2>1 DEF EvaluateGate
  <2>4. QED
    BY <1>1, <1>2, <1>3, <1>4, <2>1, <2>2, <2>3, OneNewCall DEF OwnCalls
<1>5. CASE t \in Gated /\ gate[t] = "blocking"
  BY <1>1, <1>2, <1>3, <1>5, GateCalls DEF EvaluateGate
<1>6. CASE ~(t \in Gated /\ gate[t] \in {"none", "blocking"})
  BY <1>1, <1>2, <1>3, <1>6, GateCalls DEF EvaluateGate
<1>7. QED
  BY <1>4, <1>5, <1>6

LEMMA JudgeCalls ==
  ASSUME MissionInv, NEW th \in Threads, JudgeGate(th)
  PROVE  \E t \in Gated :
           /\ t = Head(todo[th]).task /\ trun[t] # 0
           /\ gate' = [gate EXCEPT ![t] = verdict[t]] /\ judged' = judged \cup {t}
           /\ NewCalls(th, IF verdict[t] = "blocking" THEN Do("block") ELSE Do("drain"))
<1>1. todo[th] # <<>> /\ CallOK(Head(todo[th])) /\ Head(todo[th]).op = "judge"
  BY AtCall, HeadOK DEF JudgeGate, MissionInv
<1>2. PICK t \in Gated : t = Head(todo[th]).task /\ trun[t] # 0
  BY <1>1 DEF CallOK
<1>3. PICK op \in {"block", "drain"} : op = IF verdict[t] = "blocking" THEN "block" ELSE "drain"
  OBVIOUS
<1>4. NewCalls(th, Do(op))
  BY <1>1, <1>2, <1>3, GateCalls DEF JudgeGate
<1>5. QED
  BY <1>2, <1>3, <1>4 DEF JudgeGate

LEMMA BlockCalls ==
  ASSUME MissionInv, NEW th \in Threads, BlockMission(th)
  PROVE  \/ /\ Terminal(mission) /\ UNCHANGED <<tstatus, gate>> /\ NewCalls(th, <<>>)
         \/ /\ ~Terminal(mission) /\ NewCalls(th, <<Call("end", NoTask, 0, "blocked")>>)
<1>1. todo[th] # <<>> /\ "blocked" \in Statuses
  BY AtCall DEF BlockMission, MissionInv, Statuses
<1>2. QED
  BY <1>1, NoNewCalls, EndCall DEF BlockMission

LEMMA FinishCalls ==
  ASSUME MissionInv, NEW th \in Threads, FinishMission(th)
  PROVE  \/ /\ Terminal(mission) /\ UNCHANGED <<tstatus, gate>> /\ NewCalls(th, <<>>)
         \/ \E s \in {"failed", "cancelled"} :
              ~Terminal(mission) /\ NewCalls(th, <<Call("end", NoTask, 0, s)>>)
<1>1. /\ todo[th] # <<>> /\ CallOK(Head(todo[th])) /\ Head(todo[th]).op = "finish"
  BY AtCall, HeadOK DEF FinishMission, MissionInv
<1>2. PICK s \in {"failed", "cancelled"} : s = Head(todo[th]).status
  BY <1>1 DEF CallOK
<1>3. s \in Statuses /\ s \in TerminalStatuses
  BY DEF Statuses, TerminalStatuses
<1>4. QED
  BY <1>1, <1>2, <1>3, NoNewCalls, EndCall DEF FinishMission

LEMMA CheckDoneCalls ==
  ASSUME MissionInv, NEW th \in Threads, CheckDone(th)
  PROVE  \/ NewCalls(th, <<>>)
         \/ AllHaveCompleted /\ NewCalls(th, <<Call("end", NoTask, 0, "completed")>>)
<1>1. todo[th] # <<>> /\ "completed" \in Statuses /\ "completed" \in TerminalStatuses
  BY AtCall DEF CheckDone, MissionInv, Statuses, TerminalStatuses
<1>2. UNCHANGED <<tstatus, rstatus>>
  BY DEF CheckDone, taskVars, runVars
<1>3. AllDone => AllHaveCompleted
  BY DEF AllDone, AllHaveCompleted, Known, MissionInv, TaskOK
<1>4. AllHaveCompleted => AllHaveCompleted'
  BY <1>2 DEF AllHaveCompleted, HasCompleted, Known
<1>5. CASE Then(th, <<>>)
  BY <1>1, <1>5, NoNewCalls
<1>6. CASE AllDone /\ Then(th, <<Call("end", NoTask, 0, "completed")>>)
  BY <1>1, <1>3, <1>4, <1>6, EndCall
<1>7. QED
  BY <1>5, <1>6 DEF CheckDone

LEMMA CancelMissionCalls ==
  ASSUME MissionInv, NEW th \in Threads, CancelMission(th)
  PROVE  /\ th = Cancel
         /\ \/ /\ Terminal(mission) /\ UNCHANGED <<tstatus, gate>> /\ NewCalls(th, <<>>)
            \/ \E S \in SUBSET Tasks :
                 ~Terminal(mission) /\ NewCalls(th, ForEach("cancelrun", S) \o Do("recheck"))
<1>1. /\ todo[th] # <<>> /\ Head(todo[th]).op = "cancel"
      /\ 1 \in DOMAIN todo[th] /\ Head(todo[th]) = todo[th][1]
  BY AtCall DEF CancelMission, MissionInv
<1>2. th = Cancel
  BY <1>1 DEF MissionInv, CallersKnown, CallerOK, OwnCalls, Caller
<1>3. CASE Terminal(mission)
  BY <1>1, <1>2, <1>3, NoNewCalls DEF CancelMission
<1>4. CASE ~Terminal(mission)
  <2>1. PICK S \in SUBSET Tasks : Then(th, ForEach("cancelrun", S) \o Do("recheck"))
    BY <1>4 DEF CancelMission, Known
  <2> DEFINE calls == ForEach("cancelrun", S) \o Do("recheck")
  <2>2. "cancelrun" \in Ops /\ "recheck" \in Ops
    BY DEF Ops
  <2>3. /\ ForEach("cancelrun", S) \in Seq(CallSet) /\ Do("recheck") \in Seq(CallSet)
        /\ \A i \in DOMAIN ForEach("cancelrun", S) :
             /\ ForEach("cancelrun", S)[i] \in CallSet /\ ForEach("cancelrun", S)[i].op = "cancelrun"
             /\ ForEach("cancelrun", S)[i].task \in Tasks
        /\ DOMAIN Do("recheck") = {1} /\ Do("recheck")[1] \in CallSet
        /\ Do("recheck")[1].op = "recheck"
    BY <2>2, EachCall, DoCall
  <2>4. /\ calls \in Seq(CallSet)
        /\ \A i \in DOMAIN calls :
             /\ calls[i] \in CallSet /\ calls[i].op \in {"cancelrun", "recheck"}
             /\ calls[i].op = "cancelrun" => calls[i].task \in Tasks
    BY <2>3, ConcatElements
  <2>5. \A i \in DOMAIN calls : CallOK(calls[i])'
    BY <2>4, PlainCallOK DEF TaskCalls
  <2>6. \A i \in DOMAIN calls : CallerOK(th, calls[i]) /\ calls[i].op # "add"
    BY <1>2, <2>4 DEF CallerOK, Caller
  <2>7. NewCalls(th, calls)
    BY <1>1, <2>1, <2>4, <2>5, <2>6 DEF NewCalls
  <2>8. QED
    BY <1>2, <1>4, <2>7
<1>5. QED
  BY <1>3, <1>4

LEMMA CancelRunCalls ==
  ASSUME MissionInv, NEW th \in Threads, CancelRun(th)
  PROVE  /\ th = Cancel
         /\ \/ UNCHANGED rstatus /\ NewCalls(th, <<>>)
            \/ \E t \in Tasks, n \in Nums :
                 /\ n = trun[t] /\ rstatus[<<t, n>>] \in {"queued", "running"}
                 /\ rstatus' = [rstatus EXCEPT ![<<t, n>>] = "cancelled"]
                 /\ NewCalls(th, OnTerminalEvent(t, n))
<1>1. /\ todo[th] # <<>> /\ Head(todo[th]).op = "cancelrun" /\ Head(todo[th]).task \in Tasks
      /\ 1 \in DOMAIN todo[th] /\ Head(todo[th]) = todo[th][1]
  BY AtCall, HeadOK DEF CancelRun, MissionInv, TaskCalls
<1>2. th = Cancel
  BY <1>1 DEF MissionInv, CallersKnown, CallerOK, OwnCalls, Caller
<1>3. PICK t \in Tasks : t = Head(todo[th]).task
  BY <1>1
<1>4. CASE UNCHANGED rstatus /\ Then(th, <<>>)
  BY <1>1, <1>2, <1>4, NoNewCalls
<1>5. CASE ~(UNCHANGED rstatus /\ Then(th, <<>>))
  <2>1. /\ trun[t] # 0 /\ rstatus[<<t, trun[t]>>] \in {"queued", "running"}
        /\ rstatus' = [rstatus EXCEPT ![<<t, trun[t]>>] = "cancelled"]
        /\ Then(th, OnTerminalEvent(t, trun[t]))
    BY <1>3, <1>5 DEF CancelRun
  <2>2. PICK n \in Nums : n = trun[t]
    BY <2>1 DEF MissionInv, MissionTypeOK, Nums
  <2>3. NewCalls(th, OnTerminalEvent(t, n))
    <3>1. OnTerminalEvent(t, n) \in Seq(CallSet)
      BY EventCalls
    <3>2. \A i \in DOMAIN OnTerminalEvent(t, n) :
            /\ CallerOK(th, OnTerminalEvent(t, n)[i]) /\ CallOK(OnTerminalEvent(t, n)[i])'
            /\ OnTerminalEvent(t, n)[i].op # "add"
      <4>1. rstatus'[<<t, n>>] # "none"
        BY <2>1, <2>2 DEF MissionInv, MissionTypeOK
      <4>2. QED
        BY <4>1, EventsAreNew
    <3>3. QED
      BY <1>1, <2>1, <2>2, <3>1, <3>2 DEF NewCalls
  <2>4. QED
    BY <1>2, <2>1, <2>2, <2>3
<1>6. QED
  BY <1>4, <1>5

LEMMA RecheckCalls ==
  ASSUME MissionInv, NEW th \in Threads, RecheckMission(th)
  PROVE  /\ th = Cancel
         /\ NewCalls(th, <<>>) \/ NewCalls(th, <<Call("end", NoTask, 0, "cancelled")>>)
<1>1. /\ todo[th] # <<>> /\ Head(todo[th]).op = "recheck"
      /\ 1 \in DOMAIN todo[th] /\ Head(todo[th]) = todo[th][1]
  BY AtCall DEF RecheckMission, MissionInv
<1>2. th = Cancel
  BY <1>1 DEF MissionInv, CallersKnown, CallerOK, OwnCalls, Caller
<1>3. "cancelled" \in Statuses /\ "cancelled" \in TerminalStatuses
  BY DEF Statuses, TerminalStatuses
<1>4. QED
  BY <1>1, <1>2, <1>3, NoNewCalls, EndCall DEF RecheckMission

LEMMA OverrideCalls ==
  ASSUME MissionInv, NEW th \in Threads,
         ApproveGates(th) \/ UnblockTasks(th) \/ ResumeMission(th)
  PROVE  /\ th = Override
         /\ ApproveGates(th) => /\ overrides > 0
                               /\ \/ gate' = gate /\ NewCalls(th, <<>>)
                                  \/ NewCalls(th, Do("unblock"))
         /\ UnblockTasks(th) => NewCalls(th, Do("resume"))
         /\ ResumeMission(th) => NewCalls(th, Do("drain"))
<1>1. /\ todo[th] # <<>> /\ Head(todo[th]).op \in {"override", "unblock", "resume"}
      /\ 1 \in DOMAIN todo[th] /\ Head(todo[th]) = todo[th][1]
      /\ ApproveGates(th) => Head(todo[th]).op = "override" /\ CallOK(Head(todo[th]))
  BY AtCall, HeadOK DEF ApproveGates, UnblockTasks, ResumeMission, MissionInv
<1>2. th = Override
  BY <1>1 DEF MissionInv, CallersKnown, CallerOK, OwnCalls, Caller
<1>3. ApproveGates(th) => overrides > 0
  BY <1>1 DEF CallOK
<1>4. ASSUME Then(th, Do("unblock"))
      PROVE  NewCalls(th, Do("unblock"))
  BY <1>1, <1>2, <1>4, PlainDo DEF Ops, TaskCalls, OwnCalls, Caller
<1>5. ASSUME Then(th, Do("resume"))
      PROVE  NewCalls(th, Do("resume"))
  BY <1>1, <1>2, <1>5, PlainDo DEF Ops, TaskCalls, OwnCalls, Caller
<1>6. ASSUME Then(th, Do("drain"))
      PROVE  NewCalls(th, Do("drain"))
  BY <1>1, <1>6, GateCalls
<1>7. ASSUME ApproveGates(th), \A t \in Tasks : gate[t] # "blocking"
      PROVE  gate' = gate
  <2>1. gate' = [t \in Tasks |-> gate[t]]
    BY <1>7 DEF ApproveGates
  <2>2. QED
    BY <2>1 DEF MissionInv, MissionTypeOK
<1>8. QED
  BY <1>1, <1>2, <1>3, <1>4, <1>5, <1>6, <1>7, NoNewCalls
     DEF ApproveGates, UnblockTasks, ResumeMission
-----------------------------------------------------------------------------

LEMMA FailOrphanCalls ==
  ASSUME MissionInv, NEW th \in Threads, FailOrphan(th)
  PROVE  /\ th = Startup
         /\ \E t \in Tasks, n \in Nums :
              /\ <<t, n>> \in orphans /\ orphans' = orphans \ {<<t, n>>}
              /\ rstatus[<<t, n>>] \in {"queued", "running"}
              /\ rstatus' = [rstatus EXCEPT ![<<t, n>>] = "failed"]
              /\ NewCalls(th, OnTerminalEvent(t, n) \o Do("orphans"))
<1>1. /\ todo[th] # <<>> /\ Head(todo[th]).op = "orphans"
      /\ 1 \in DOMAIN todo[th] /\ Head(todo[th]) = todo[th][1]
  BY AtCall DEF FailOrphan, MissionInv
<1>2. th = Startup
  BY <1>1 DEF MissionInv, CallersKnown, CallerOK, OwnCalls, Caller
<1>3. PICK x \in orphans : /\ orphans' = orphans \ {x}
                           /\ rstatus' = [rstatus EXCEPT ![x] = "failed"]
                           /\ Then(th, OnTerminalEvent(x[1], x[2]) \o Do("orphans"))
  BY DEF FailOrphan
<1>4. PICK t \in Tasks, n \in Nums : x = <<t, n>>
  BY DEF MissionInv, MissionTypeOK
<1>5. x[1] = t /\ x[2] = n
  BY <1>4
<1>6. rstatus[<<t, n>>] \in {"queued", "running"}
  BY <1>4 DEF MissionInv, OrphansOK
<1> DEFINE calls == OnTerminalEvent(t, n) \o Do("orphans")
<1>7. "orphans" \in Ops
  BY DEF Ops
<1>8. /\ OnTerminalEvent(t, n) \in Seq(CallSet) /\ Do("orphans") \in Seq(CallSet)
      /\ DOMAIN Do("orphans") = {1} /\ Do("orphans")[1] \in CallSet
      /\ Do("orphans")[1].op = "orphans"
  BY <1>7, EventCalls, DoCall
<1>9. CallOK(Do("orphans")[1])' /\ CallerOK(th, Do("orphans")[1])
  BY <1>2, <1>8, PlainCallOK DEF TaskCalls, CallerOK, Caller
<1>10. \A i \in DOMAIN OnTerminalEvent(t, n) :
         /\ CallerOK(th, OnTerminalEvent(t, n)[i]) /\ CallOK(OnTerminalEvent(t, n)[i])'
         /\ OnTerminalEvent(t, n)[i].op # "add"
  <2>1. rstatus'[<<t, n>>] # "none"
    BY <1>3, <1>4 DEF MissionInv, MissionTypeOK
  <2>2. QED
    BY <2>1, EventsAreNew
<1>11. calls \in Seq(CallSet)
  BY <1>8, ConcatElements
<1>12. \A i \in DOMAIN calls : \/ calls[i] = Do("orphans")[1]
                               \/ \E j \in DOMAIN OnTerminalEvent(t, n) : calls[i] = OnTerminalEvent(t, n)[j]
  BY <1>8, ConcatElements
<1>13. ASSUME NEW i \in DOMAIN calls
       PROVE  CallerOK(th, calls[i]) /\ CallOK(calls[i])' /\ calls[i].op # "add"
  <2>1. CASE calls[i] = Do("orphans")[1]
    BY <1>8, <1>9, <2>1
  <2>2. ASSUME NEW j \in DOMAIN OnTerminalEvent(t, n), calls[i] = OnTerminalEvent(t, n)[j]
        PROVE  CallerOK(th, calls[i]) /\ CallOK(calls[i])' /\ calls[i].op # "add"
    <3>1. /\ CallerOK(th, OnTerminalEvent(t, n)[j]) /\ CallOK(OnTerminalEvent(t, n)[j])'
          /\ OnTerminalEvent(t, n)[j].op # "add"
      BY <1>10
    <3>2. QED
      BY <2>2, <3>1
  <2>3. QED
    BY <1>12, <2>1, <2>2
<1>14. NewCalls(th, calls)
  BY <1>1, <1>3, <1>5, <1>11, <1>13 DEF NewCalls
<1>15. QED
  BY <1>2, <1>3, <1>4, <1>6, <1>14

LEMMA ReconcileCalls ==
  ASSUME MissionInv, NEW th \in Threads, Reconcile(th) \/ OrphansFailed(th)
  PROVE  /\ th = Startup
         /\ Reconcile(th) => \/ NewCalls(th, <<>>)
                             \/ /\ mission # "absent"
                                /\ \E S \in SUBSET Tasks :
                                     NewCalls(th, ForEach("reconciletask", S) \o Do("drain"))
         /\ OrphansFailed(th) => orphans = {} /\ NewCalls(th, Do("reconcile"))
<1>1. /\ todo[th] # <<>> /\ Head(todo[th]).op \in {"orphans", "reconcile"}
      /\ 1 \in DOMAIN todo[th] /\ Head(todo[th]) = todo[th][1]
  BY AtCall DEF Reconcile, OrphansFailed, MissionInv
<1>2. th = Startup
  BY <1>1 DEF MissionInv, CallersKnown, CallerOK, OwnCalls, Caller
<1>3. CASE OrphansFailed(th)
  <2>1. NewCalls(th, Do("reconcile")) /\ orphans = {}
    BY <1>1, <1>2, <1>3, PlainDo DEF OrphansFailed, Ops, TaskCalls, OwnCalls, Caller
  <2>2. ~Reconcile(th)
    BY <1>1, <1>3 DEF OrphansFailed, Reconcile, At
  <2>3. QED
    BY <1>2, <2>1, <2>2
<1>4. CASE ~OrphansFailed(th) /\ Reconcile(th) /\ (mission = "absent" \/ Terminal(mission))
  BY <1>1, <1>2, <1>4, NoNewCalls DEF Reconcile
<1>5. CASE ~OrphansFailed(th) /\ Reconcile(th) /\ ~(mission = "absent" \/ Terminal(mission))
  <2>1. PICK S \in SUBSET Tasks : Then(th, ForEach("reconciletask", S) \o Do("drain"))
    BY <1>5 DEF Reconcile, Known
  <2> DEFINE calls == ForEach("reconciletask", S) \o Do("drain")
  <2>2. "reconciletask" \in Ops /\ "drain" \in Ops
    BY DEF Ops
  <2>3. /\ ForEach("reconciletask", S) \in Seq(CallSet) /\ Do("drain") \in Seq(CallSet)
        /\ \A i \in DOMAIN ForEach("reconciletask", S) :
             /\ ForEach("reconciletask", S)[i] \in CallSet
             /\ ForEach("reconciletask", S)[i].op = "reconciletask"
             /\ ForEach("reconciletask", S)[i].task \in Tasks
        /\ DOMAIN Do("drain") = {1} /\ Do("drain")[1] \in CallSet
        /\ Do("drain")[1].op = "drain"
    BY <2>2, EachCall, DoCall
  <2>4. /\ calls \in Seq(CallSet)
        /\ \A i \in DOMAIN calls :
             /\ calls[i] \in CallSet /\ calls[i].op \in {"reconciletask", "drain"}
             /\ calls[i].op = "reconciletask" => calls[i].task \in Tasks
    BY <2>3, ConcatElements
  <2>5. \A i \in DOMAIN calls : CallOK(calls[i])'
    BY <2>4, PlainCallOK DEF TaskCalls
  <2>6. \A i \in DOMAIN calls : CallerOK(th, calls[i]) /\ calls[i].op # "add"
    BY <1>2, <2>4 DEF CallerOK, Caller, OwnCalls
  <2>7. NewCalls(th, calls)
    BY <1>1, <2>1, <2>4, <2>5, <2>6 DEF NewCalls
  <2>8. QED
    BY <1>2, <1>5, <2>7
<1>6. QED
  BY <1>3, <1>4, <1>5

LEMMA ReconcileTaskCalls ==
  ASSUME MissionInv, NEW th \in Threads, ReconcileTask(th)
  PROVE  /\ th = Startup
         /\ \E t \in Tasks :
              /\ t = Head(todo[th]).task
              /\ \/ trun[t] = 0 /\ NewCalls(th, <<>>)
                 \/ \E n \in Nums : n = trun[t] /\ NewCalls(th, Sync(t, n))
<1>1. /\ todo[th] # <<>> /\ Head(todo[th]).op = "reconciletask" /\ Head(todo[th]).task \in Tasks
      /\ 1 \in DOMAIN todo[th] /\ Head(todo[th]) = todo[th][1]
  BY AtCall, HeadOK DEF ReconcileTask, MissionInv, TaskCalls
<1>2. th = Startup
  BY <1>1 DEF MissionInv, CallersKnown, CallerOK, OwnCalls, Caller
<1>3. PICK t \in Tasks : t = Head(todo[th]).task
  BY <1>1
<1>4. CASE trun[t] = 0
  BY <1>1, <1>2, <1>3, <1>4, NoNewCalls DEF ReconcileTask
<1>5. CASE trun[t] # 0
  <2>1. PICK n \in Nums : n = trun[t]
    BY <1>5 DEF MissionInv, MissionTypeOK, Nums
  <2>2. rstatus'[<<t, n>>] # "none"
    <3>1. n \in Made(t)
      BY <1>5, <2>1 DEF MissionInv, TaskOK
    <3>2. QED
      BY <3>1 DEF Made, ReconcileTask, runVars
  <2>3. NewCalls(th, Sync(t, n))
    BY <1>1, <1>3, <1>5, <2>1, <2>2, SyncIsNew DEF ReconcileTask
  <2>4. QED
    BY <1>2, <1>3, <2>1, <2>3
<1>6. QED
  BY <1>4, <1>5

(* Every step of a thread pushes such calls.                               *)
LEMMA WorkCalls ==
  ASSUME MissionInv, NEW th \in Threads, Work(th)
  PROVE  \E calls : NewCalls(th, calls)
<1>1. CASE AddTask(th) \/ BeginMission(th) \/ EndMission(th)
  BY <1>1, AddAndBeginCalls
<1>2. CASE Drain(th) \/ StartTask(th) \/ CreateRun(th) \/ CreateRunFails(th) \/ LinkRun(th)
  BY <1>2, DrainCalls, StartTaskCalls, CreateRunCalls, CreateFailsCalls, LinkRunCalls
<1>3. CASE SyncTask(th) \/ ApplyStatus(th) \/ EvaluateGate(th) \/ JudgeGate(th)
  BY <1>3, SyncTaskCalls, ApplyStatusCalls, EvaluateCalls, JudgeCalls
<1>4. CASE BlockMission(th) \/ FinishMission(th) \/ CheckDone(th)
  BY <1>4, BlockCalls, FinishCalls, CheckDoneCalls
<1>5. CASE CancelMission(th) \/ CancelRun(th) \/ RecheckMission(th)
  BY <1>5, CancelMissionCalls, CancelRunCalls, RecheckCalls
<1>6. CASE ApproveGates(th) \/ UnblockTasks(th) \/ ResumeMission(th)
  BY <1>6, OverrideCalls
<1>7. CASE FailOrphan(th) \/ OrphansFailed(th) \/ Reconcile(th) \/ ReconcileTask(th)
  BY <1>7, FailOrphanCalls, ReconcileCalls, ReconcileTaskCalls
<1>8. QED
  BY <1>1, <1>2, <1>3, <1>4, <1>5, <1>6, <1>7 DEF Work

LEMMA NewIsGrown ==
  ASSUME MissionInv, NEW th \in Threads, NEW calls, NewCalls(th, calls)
  PROVE  Grown(th, calls)
<1>1. /\ todo \in [Threads -> Seq(CallSet)] /\ todo[th] # <<>> /\ calls \in Seq(CallSet)
      /\ Then(th, calls)
  BY DEF MissionInv, MissionTypeOK, CallSet, NewCalls
<1>2. /\ todo' \in [Threads -> Seq(CallSet)]
      /\ \A oh \in Threads \ {th} : todo'[oh] = todo[oh]
      /\ \A i \in DOMAIN todo'[th] :
           \/ i \in DOMAIN calls /\ todo'[th][i] = calls[i]
           \/ /\ i - Len(calls) + 1 \in DOMAIN todo[th] \ {1}
              /\ todo'[th][i] = todo[th][i - Len(calls) + 1]
  BY <1>1, ThenElements
<1>3. QED
  BY <1>2 DEF Grown, NewCalls

LEMMA SpawnIsGrown ==
  ASSUME MissionInv, NEW th \in Threads, NEW calls \in Seq(CallSet), Spawn(th, calls),
         \A i \in DOMAIN calls : CallerOK(th, calls[i]) /\ CallOK(calls[i])'
  PROVE  Grown(th, calls)
  BY DEF Grown, Spawn, MissionInv, MissionTypeOK, CallSet
-----------------------------------------------------------------------------
(* The types but for the calls, and that tasks are not lost: only AddTask  *)
(* makes one known.                                                        *)
StatesOK ==
  /\ mission \in {"absent", "created", "running", "blocked"} \cup TerminalStatuses
  /\ tstatus \in [Tasks -> {"absent"} \cup TaskStatuses]
  /\ trun \in [Tasks -> 0 .. MaxRuns]
  /\ gate \in [Tasks -> {"none", "open", "blocking", "overridden"}]
  /\ mapped \in [Tasks -> SUBSET Nums]
  /\ judged \subseteq Gated
  /\ rstatus \in [Tasks \X Nums -> {"none", "queued", "running"} \cup TerminalStatuses]
  /\ orphans \subseteq Tasks \X Nums

LEMMA OnlyMissionStates ==
  ASSUME MissionInv, UNCHANGED <<taskVars, runVars>>,
         mission' \in {"absent", "created", "running", "blocked"} \cup TerminalStatuses
  PROVE  StatesOK' /\ Known' = Known
  BY DEF StatesOK, Known, MissionInv, MissionTypeOK, taskVars, runVars

LEMMA OnlyTaskStates ==
  ASSUME MissionInv, mission' = mission, trun' = trun, mapped' = mapped, rstatus' = rstatus,
         orphans' = orphans, judged' \subseteq Gated,
         tstatus' \in [Tasks -> {"absent"} \cup TaskStatuses],
         gate' \in [Tasks -> {"none", "open", "blocking", "overridden"}],
         \A t \in Tasks : tstatus[t] = "absent" <=> tstatus'[t] = "absent"
  PROVE  StatesOK' /\ Known' = Known
  BY DEF StatesOK, Known, MissionInv, MissionTypeOK

(* What a step may do to the status of one task, or to all of them.        *)
LEMMA StatusOfOne ==
  ASSUME MissionInv, NEW t \in Tasks, NEW s \in TaskStatuses, tstatus[t] # "absent",
         tstatus' = [tstatus EXCEPT ![t] = s]
  PROVE  /\ tstatus' \in [Tasks -> {"absent"} \cup TaskStatuses]
         /\ \A u \in Tasks : tstatus[u] = "absent" <=> tstatus'[u] = "absent"
  BY DEF MissionInv, MissionTypeOK, TaskStatuses, TerminalStatuses

LEMMA StatusOfSome ==
  ASSUME MissionInv, NEW S \in SUBSET Known, NEW s \in TaskStatuses,
         tstatus' = [t \in Tasks |-> IF t \in S THEN s ELSE tstatus[t]]
  PROVE  /\ tstatus' \in [Tasks -> {"absent"} \cup TaskStatuses]
         /\ \A u \in Tasks : tstatus[u] = "absent" <=> tstatus'[u] = "absent"
  BY DEF MissionInv, MissionTypeOK, TaskStatuses, TerminalStatuses, Known

LEMMA GateOfOne ==
  ASSUME MissionInv, NEW t \in Tasks, NEW g \in {"none", "open", "blocking", "overridden"},
         gate' = [gate EXCEPT ![t] = g]
  PROVE  gate' \in [Tasks -> {"none", "open", "blocking", "overridden"}]
  BY DEF MissionInv, MissionTypeOK

LEMMA GateOfSome ==
  ASSUME MissionInv, NEW S, NEW g \in {"none", "open", "blocking", "overridden"},
         gate' = [t \in Tasks |-> IF t \in S THEN g ELSE gate[t]]
  PROVE  gate' \in [Tasks -> {"none", "open", "blocking", "overridden"}]
  BY DEF MissionInv, MissionTypeOK

LEMMA OnlyRunStates ==
  ASSUME MissionInv, UNCHANGED <<mission, taskVars>>, orphans' \subseteq orphans,
         rstatus' = rstatus \/ \E x \in Tasks \X Nums, s \in {"queued", "running"} \cup TerminalStatuses :
                                 rstatus' = [rstatus EXCEPT ![x] = s]
  PROVE  StatesOK' /\ Known' = Known
<1>1. rstatus' \in [Tasks \X Nums -> {"none", "queued", "running"} \cup TerminalStatuses]
  BY DEF MissionInv, MissionTypeOK
<1>2. orphans' \subseteq Tasks \X Nums
  BY DEF MissionInv, MissionTypeOK
<1>3. QED
  BY <1>1, <1>2 DEF StatesOK, Known, MissionInv, MissionTypeOK, taskVars

LEMMA MissionStepStates ==
  ASSUME MissionInv, NEW th \in Threads,
         \/ BeginMission(th) \/ StartTask(th) \/ SyncTask(th) \/ EvaluateGate(th)
         \/ CheckDone(th) \/ EndMission(th) \/ RecheckMission(th) \/ ResumeMission(th)
         \/ OrphansFailed(th) \/ Reconcile(th)
  PROVE  StatesOK' /\ Known' = Known
<1>1. CASE BeginMission(th) \/ ResumeMission(th)
  BY <1>1, OnlyMissionStates DEF BeginMission, ResumeMission, Resumed, MissionInv, MissionTypeOK
<1>2. CASE EndMission(th)
  <2>1. CallOK(Head(todo[th])) /\ Head(todo[th]).op = "end"
    BY <1>2, HeadOK, AtCall DEF EndMission, MissionInv
  <2>2. QED
    BY <1>2, <2>1, OnlyMissionStates DEF EndMission, CallOK
<1>3. CASE mission' = mission /\ UNCHANGED <<taskVars, runVars>>
  BY <1>3, OnlyMissionStates DEF MissionInv, MissionTypeOK
<1>4. QED
  BY <1>1, <1>2, <1>3 DEF StartTask, SyncTask, EvaluateGate, CheckDone, RecheckMission,
     OrphansFailed, Reconcile

LEMMA TaskStepStates ==
  ASSUME MissionInv, NEW th \in Threads,
         \/ Drain(th) \/ CreateRunFails(th) \/ ApplyStatus(th) \/ JudgeGate(th)
         \/ BlockMission(th) \/ FinishMission(th) \/ CancelMission(th)
         \/ ApproveGates(th) \/ UnblockTasks(th) \/ ReconcileTask(th)
  PROVE  StatesOK' /\ Known' = Known
<1> DEFINE StatusesOK == /\ tstatus' \in [Tasks -> {"absent"} \cup TaskStatuses]
                         /\ \A t \in Tasks : tstatus[t] = "absent" <=> tstatus'[t] = "absent"
           GatesOK    == gate' \in [Tasks -> {"none", "open", "blocking", "overridden"}]
<1>1. /\ tstatus' = tstatus => StatusesOK
      /\ gate' = gate => GatesOK
      /\ judged \subseteq Gated
  BY DEF MissionInv, MissionTypeOK
<1>2. \A s \in {"pending", "queued", "running", "completed", "blocked", "failed", "cancelled"} :
        s \in TaskStatuses
  BY DEF TaskStatuses, TerminalStatuses
<1>3. CASE Drain(th)
  <2>1. PICK S \in SUBSET Known :
          tstatus' = [t \in Tasks |-> IF t \in S THEN "queued" ELSE tstatus[t]]
    BY <1>3 DEF Drain, Ready, Known
  <2>2. StatusesOK
    BY <1>2, <2>1, StatusOfSome
  <2>3. QED
    BY <1>1, <1>3, <2>2, OnlyTaskStates DEF Drain, runVars
<1>4. CASE CreateRunFails(th)
  <2>1. PICK t \in Tasks : t = Head(todo[th]).task /\ tstatus[t] # "absent"
    <3>1. /\ CallOK(Head(todo[th])) /\ Head(todo[th]).op = "create" /\ Head(todo[th]).task \in Tasks
      BY <1>4, HeadOK, AtCall DEF CreateRunFails, MissionInv, TaskCalls
    <3>2. QED
      BY <3>1 DEF CallOK
  <2>2. /\ tstatus' = [tstatus EXCEPT ![t] = "failed"] /\ gate' = [gate EXCEPT ![t] = "none"]
    BY <1>4, <2>1 DEF CreateRunFails
  <2>3. StatusesOK /\ GatesOK
    BY <1>2, <2>1, <2>2, StatusOfOne, GateOfOne
  <2>4. QED
    BY <1>1, <1>4, <2>3, OnlyTaskStates DEF CreateRunFails, runVars
<1>5. CASE ApplyStatus(th)
  <2>1. PICK t \in Tasks, s \in {"queued", "running"} \cup TerminalStatuses :
          t = Head(todo[th]).task /\ s = Head(todo[th]).status /\ trun[t] # 0
    <3>1. /\ CallOK(Head(todo[th])) /\ Head(todo[th]).op = "apply" /\ Head(todo[th]).task \in Tasks
      BY <1>5, HeadOK, AtCall DEF ApplyStatus, MissionInv, TaskCalls
    <3>2. QED
      BY <3>1 DEF CallOK
  <2>2. tstatus[t] # "absent" /\ s \in TaskStatuses
    BY <2>1 DEF MissionInv, TaskOK, TaskStatuses
  <2>3. PICK g \in {"none", "open", "blocking", "overridden"} : gate' = [gate EXCEPT ![t] = g]
    <3>1. gate' = [gate EXCEPT ![t] = IF Terminal(s) /\ t \notin Gated THEN "none" ELSE gate[t]]
      BY <1>5, <2>1 DEF ApplyStatus
    <3>2. QED
      BY <3>1 DEF MissionInv, MissionTypeOK
  <2>4. tstatus' = [tstatus EXCEPT ![t] = s]
    BY <1>5, <2>1 DEF ApplyStatus
  <2>5. StatusesOK /\ GatesOK
    BY <2>2, <2>3, <2>4, StatusOfOne, GateOfOne
  <2>6. QED
    BY <1>1, <1>5, <2>5, OnlyTaskStates DEF ApplyStatus, runVars
<1>6. CASE JudgeGate(th)
  <2>1. PICK t \in Gated : gate' = [gate EXCEPT ![t] = verdict[t]] /\ judged' = judged \cup {t}
    BY <1>6, JudgeCalls
  <2>2. t \in Tasks /\ verdict[t] \in {"none", "open", "blocking", "overridden"}
    BY MissionAssumption DEF MissionInv, MissionTypeOK
  <2>3. GatesOK /\ judged' \subseteq Gated
    BY <1>1, <2>1, <2>2, GateOfOne
  <2>4. QED
    BY <1>1, <1>6, <2>3, OnlyTaskStates DEF JudgeGate, runVars
<1>7. CASE BlockMission(th) \/ FinishMission(th) \/ CancelMission(th)
  <2>1. CASE tstatus' = tstatus /\ gate' = gate
    BY <1>1, <1>7, <2>1, OnlyTaskStates DEF BlockMission, FinishMission, CancelMission, runVars
  <2>2. CASE ~(tstatus' = tstatus /\ gate' = gate)
    <3>1. PICK S \in SUBSET Known, s \in {"blocked", "cancelled"}, g \in {"none", "blocking"} :
            /\ tstatus' = [t \in Tasks |-> IF t \in S THEN s ELSE tstatus[t]]
            /\ gate' = [t \in Tasks |-> IF t \in S THEN g ELSE gate[t]]
      <4>1. CASE BlockMission(th)
        BY <2>2, <4>1 DEF BlockMission, Known
      <4>2. CASE FinishMission(th)
        BY <2>2, <4>2 DEF FinishMission, Known
      <4>3. CASE CancelMission(th)
        BY <2>2, <4>3 DEF CancelMission, Known
      <4>4. QED
        BY <1>7, <4>1, <4>2, <4>3
    <3>2. StatusesOK /\ GatesOK
      BY <1>2, <3>1, StatusOfSome, GateOfSome
    <3>3. QED
      BY <1>1, <1>7, <3>2, OnlyTaskStates DEF BlockMission, FinishMission, CancelMission, runVars
  <2>3. QED
    BY <2>1, <2>2
<1>8. CASE ApproveGates(th)
  <2>1. gate' = [t \in Tasks |-> IF t \in {u \in Tasks : gate[u] = "blocking"} THEN "overridden" ELSE gate[t]]
    BY <1>8 DEF ApproveGates
  <2>2. GatesOK
    BY <2>1, GateOfSome
  <2>3. QED
    BY <1>1, <1>8, <2>2, OnlyTaskStates DEF ApproveGates, runVars
<1>9. CASE UnblockTasks(th)
  <2>1. PICK S \in SUBSET Known :
          tstatus' = [t \in Tasks |-> IF t \in S THEN "pending" ELSE tstatus[t]]
    <3>1. tstatus' = [t \in Tasks |-> IF t \in {u \in Known : tstatus[u] = "blocked" /\ trun[u] = 0}
                                     THEN "pending" ELSE tstatus[t]]
      BY <1>9 DEF UnblockTasks, Known
    <3>2. QED
      BY <3>1
  <2>2. StatusesOK
    BY <1>2, <2>1, StatusOfSome
  <2>3. QED
    BY <1>1, <1>9, <2>2, OnlyTaskStates DEF UnblockTasks, runVars
<1>10. CASE ReconcileTask(th)
  <2>1. PICK t \in Tasks : t = Head(todo[th]).task
    BY <1>10, ReconcileTaskCalls
  <2>2. tstatus' = [tstatus EXCEPT ![t] = IF Requeued(t) THEN "pending" ELSE tstatus[t]]
    BY <1>10, <2>1 DEF ReconcileTask
  <2>3. StatusesOK
    BY <1>2, <2>2, StatusOfOne DEF Requeued, MissionInv, MissionTypeOK
  <2>4. QED
    BY <1>1, <1>10, <2>3, OnlyTaskStates DEF ReconcileTask, runVars
<1>11. QED
  BY <1>3, <1>4, <1>5, <1>6, <1>7, <1>8, <1>9, <1>10

LEMMA RunStepStates ==
  ASSUME MissionInv, NEW th \in Threads, CreateRun(th) \/ CancelRun(th) \/ FailOrphan(th)
  PROVE  StatesOK' /\ Known' = Known
<1>1. CASE CreateRun(th)
  BY <1>1, CreateRunCalls, OnlyRunStates DEF CreateRun
<1>2. CASE CancelRun(th)
  BY <1>2, CancelRunCalls, OnlyRunStates DEF CancelRun, TerminalStatuses
<1>3. CASE FailOrphan(th)
  BY <1>3, FailOrphanCalls, OnlyRunStates DEF FailOrphan, TerminalStatuses
<1>4. QED
  BY <1>1, <1>2, <1>3

(* What a call to link a run is about.                                     *)
LEMMA LinkHead ==
  ASSUME MissionInv, NEW th \in Threads, LinkRun(th)
  PROVE  \E t \in Tasks, n \in Nums :
           /\ t = Head(todo[th]).task /\ n = Head(todo[th]).run /\ n \in Made(t)
           /\ trun' = [trun EXCEPT ![t] = n]
           /\ mapped' = [mapped EXCEPT ![t] = @ \cup {n}]
           /\ tstatus' = [tstatus EXCEPT ![t] =
                            IF RunFinal(t, n) THEN "running" ELSE rstatus[<<t, n>>]]
           /\ NewCalls(th, Sync(t, n))
<1>1. PICK t \in Tasks, n \in Nums :
        t = Head(todo[th]).task /\ n = Head(todo[th]).run /\ NewCalls(th, Sync(t, n))
  BY LinkRunCalls
<1>2. CallOK(Head(todo[th])) /\ Head(todo[th]).op = "link"
  BY HeadOK, AtCall DEF LinkRun, MissionInv
<1>3. n \in Made(t)
  BY <1>1, <1>2 DEF CallOK, Made
<1>4. QED
  BY <1>1, <1>3 DEF LinkRun

LEMMA StatesTyped ==
  ASSUME MissionInv, NEW th \in Threads, Work(th)
  PROVE  StatesOK' /\ Known \subseteq Known' /\ (~AddTask(th) => Known' = Known)
<1>1. CASE AddTask(th)
  <2>1. PICK t \in Tasks : t = Head(todo[th]).task
    BY <1>1, HeadOK DEF AddTask, TaskCalls
  <2>2. tstatus' = [tstatus EXCEPT ![t] = "pending"]
    BY <1>1, <2>1 DEF AddTask
  <2>3. QED
    BY <1>1, <2>2 DEF AddTask, StatesOK, Known, MissionInv, MissionTypeOK, TaskStatuses, runVars
<1>2. CASE LinkRun(th)
  <2>1. PICK t \in Tasks, n \in Nums :
           /\ n \in Made(t) /\ trun' = [trun EXCEPT ![t] = n]
           /\ mapped' = [mapped EXCEPT ![t] = @ \cup {n}]
           /\ tstatus' = [tstatus EXCEPT ![t] =
                            IF RunFinal(t, n) THEN "running" ELSE rstatus[<<t, n>>]]
    BY <1>2, LinkHead
  <2>2. /\ tstatus[t] # "absent" /\ n \in 0 .. MaxRuns
        /\ rstatus[<<t, n>>] \in {"queued", "running"} \cup TerminalStatuses
    <3>1. tstatus[t] # "absent"
      BY <2>1 DEF MissionInv, TaskOK
    <3>2. n \in 0 .. MaxRuns
      BY MissionAssumption DEF Nums
    <3>3. QED
      BY <2>1, <3>1, <3>2 DEF MissionInv, MissionTypeOK, Made
  <2>3. /\ tstatus' \in [Tasks -> {"absent"} \cup TaskStatuses]
        /\ \A u \in Tasks : tstatus[u] = "absent" <=> tstatus'[u] = "absent"
    BY <2>1, <2>2 DEF MissionInv, MissionTypeOK, TaskStatuses, TerminalStatuses, RunFinal
  <2>4. trun' \in [Tasks -> 0 .. MaxRuns] /\ mapped' \in [Tasks -> SUBSET Nums]
    BY <2>1, <2>2 DEF MissionInv, MissionTypeOK
  <2>5. QED
    BY <1>2, <2>3, <2>4 DEF LinkRun, StatesOK, Known, MissionInv, MissionTypeOK, runVars
<1>3. QED
  BY <1>1, <1>2, MissionStepStates, TaskStepStates, RunStepStates DEF Work

(* What the threads know after a step of one of them.                      *)
LEMMA NewCallersKnown ==
  ASSUME CallersKnown, NEW th \in Threads, NEW calls, Grown(th, calls)
  PROVE  CallersKnown'
<1>1. ASSUME NEW oh \in Threads, NEW i \in DOMAIN todo'[oh]
      PROVE  CallerOK(oh, todo'[oh][i])
  <2>1. CASE oh # th
    BY <2>1 DEF Grown, CallersKnown
  <2>2. CASE oh = th
    <3>1. ASSUME NEW j \in DOMAIN calls, todo'[th][i] = calls[j]
          PROVE  CallerOK(th, todo'[th][i])
      BY <3>1 DEF Grown
    <3>2. ASSUME NEW j \in DOMAIN todo[th], todo'[th][i] = todo[th][j]
          PROVE  CallerOK(th, todo'[th][i])
      BY <3>2 DEF CallersKnown
    <3>3. QED
      BY <2>2, <3>1, <3>2 DEF Grown
  <2>3. QED
    BY <2>1, <2>2
<1>2. QED
  BY <1>1 DEF CallersKnown, CallerOK

LEMMA WorkCallsOK ==
  ASSUME MissionInv, NEW th \in Threads, Work(th)
  PROVE  CallsOK' /\ CallersKnown' /\ todo' \in [Threads -> Seq(CallSet)]
<1>1. PICK calls : NewCalls(th, calls)
  BY WorkCalls
<1>2. Grown(th, calls)
  BY <1>1, NewIsGrown
<1>3. Forward /\ Known \subseteq Known'
  BY WorkIsForward, StatesTyped
<1>4. ASSUME AddTask(th), NEW c \in CallSet, Pushed(c), c.op = "end", c.status = "completed"
      PROVE  FALSE
  <2>1. todo[th][1].op = "add" /\ 1 \in DOMAIN todo[th]
    BY <1>4, AtCall DEF AddTask, MissionInv
  <2>2. th = Create
    BY <2>1 DEF MissionInv, CallersKnown, CallerOK, OwnCalls, Caller
  <2>3. NothingRuns
    BY <2>1, <2>2 DEF MissionInv, AddingOK, Adding
  <2>4. PICK oh \in Threads : \E i \in DOMAIN todo[oh] : todo[oh][i] = c
    BY <1>4 DEF Pushed
  <2>5. QED
    BY <1>4, <2>3, <2>4 DEF NothingRuns
<1>5. CallsOK'
  BY <1>2, <1>3, <1>4, CallsStayOK, StatesTyped DEF MissionInv
<1>6. QED
  BY <1>2, <1>5, NewCallersKnown DEF MissionInv, Grown

(* What is remembered of faults keeps its type.                            *)
LEMMA WorkHistory ==
  ASSUME MissionInv, NEW th \in Threads, Work(th)
  PROVE  /\ UNCHANGED <<verdict, repeated, overrides, cancels, restarts>>
         /\ stale' \subseteq Tasks /\ twice' \subseteq Tasks /\ crossed' \in BOOLEAN
<1>1. stale \subseteq Tasks /\ twice \subseteq Tasks /\ crossed \in BOOLEAN
  BY DEF MissionInv, MissionTypeOK
<1>2. CASE CreateRunFails(th) \/ ApplyStatus(th)
  <2>1. Head(todo[th]).task \in Tasks
    BY <1>2, HeadOK DEF CreateRunFails, ApplyStatus, TaskCalls
  <2>2. QED
    BY <1>1, <1>2, <2>1 DEF CreateRunFails, ApplyStatus
<1>3. CASE BlockMission(th) \/ ApproveGates(th)
  BY <1>1, <1>3 DEF BlockMission, ApproveGates
<1>4. CASE UnblockTasks(th)
  BY <1>1, <1>4 DEF UnblockTasks, StartedBefore
<1>5. CASE ReconcileTask(th)
  <2>1. Head(todo[th]).task \in Tasks
    BY <1>5, HeadOK DEF ReconcileTask, TaskCalls
  <2>2. StartedBefore({u \in {Head(todo[th]).task} : Requeued(u)}) \subseteq Tasks
    BY <2>1 DEF StartedBefore
  <2>3. QED
    BY <1>1, <1>5, <2>2 DEF ReconcileTask
<1>6. QED
  BY <1>1, <1>2, <1>3, <1>4, <1>5 DEF Work, AddTask, BeginMission, Drain, StartTask, CreateRun,
     LinkRun, SyncTask, EvaluateGate, JudgeGate, FinishMission, CheckDone, EndMission,
     CancelMission, CancelRun, RecheckMission, ResumeMission, FailOrphan, OrphansFailed,
     Reconcile, faultVars

LEMMA WorkTypes ==
  ASSUME MissionInv, NEW th \in Threads, Work(th)
  PROVE  MissionTypeOK'
<1>1. StatesOK' /\ todo' \in [Threads -> Seq(CallSet)]
  BY StatesTyped, WorkCallsOK
<1>2. QED
  BY <1>1, WorkHistory DEF MissionInv, MissionTypeOK, StatesOK, CallSet
-----------------------------------------------------------------------------
(* The tasks and the runs still agree.                                     *)
LEMMA MadeStays ==
  ASSUME Forward, NEW t \in Tasks
  PROVE  Made(t) \subseteq Made(t)'
  BY DEF Forward, Made

LEMMA TaskStaysOK ==
  ASSUME MissionInv, Forward, Known \subseteq Known', NEW t \in Tasks,
         mapped'[t] = mapped[t], trun'[t] = trun[t],
         tstatus'[t] = "completed" => tstatus[t] = "completed" \/ HasCompleted(t),
         tstatus'[t] = "queued" => tstatus[t] = "queued" \/ (MayRun(t) /\ t \in Known),
         Made(t)' # {} => Made(t) # {} \/ (MayRun(t) /\ t \in Known),
         gate'[t] = "open" => gate[t] = "open" \/ (t \in judged' /\ verdict[t] = "open"),
         gate'[t] = "overridden" => gate[t] = "overridden" \/ overrides > 0
  PROVE  TaskOK(t)'
<1>1. TaskOK(t)
  BY DEF MissionInv
<1>2. Made(t) \subseteq Made(t)'
  BY MadeStays
<1>3. /\ HasCompleted(t) => HasCompleted(t)'
      /\ MayRun(t) => MayRun(t)'
  BY ClearedStays
<1>4. t \in Known => tstatus'[t] # "absent"
  BY DEF Known
<1>5. tstatus[t] = "queued" \/ Made(t) # {} => t \in Known
  BY <1>1 DEF TaskOK, Known
<1>6. verdict' = verdict /\ judged \subseteq judged' /\ (overrides > 0 => overrides' > 0)
  BY DEF Forward
<1>7. mapped'[t] \subseteq Made(t)' /\ (mapped'[t] # {} => trun'[t] # 0)
      /\ (trun'[t] # 0 => trun'[t] \in mapped'[t])
  BY <1>1, <1>2 DEF TaskOK
<1>8. tstatus'[t] = "completed" => HasCompleted(t)'
  BY <1>1, <1>3 DEF TaskOK
<1>9. tstatus'[t] = "queued" \/ Made(t)' # {} => MayRun(t)' /\ tstatus'[t] # "absent"
  BY <1>1, <1>3, <1>4, <1>5 DEF TaskOK
<1>10. /\ gate'[t] = "open" => t \in judged' /\ verdict'[t] = "open"
       /\ gate'[t] = "overridden" => overrides' > 0
  BY <1>1, <1>6 DEF TaskOK
<1>11. QED
  BY <1>7, <1>8, <1>9, <1>10 DEF TaskOK

LEMMA SameRuns ==
  ASSUME rstatus' = rstatus, NEW t
  PROVE  Made(t)' = Made(t)
  BY DEF Made

LEMMA LiveRunMade ==
  ASSUME NEW u \in Tasks, NEW n \in Nums, NEW s,
         rstatus \in [Tasks \X Nums -> {"none", "queued", "running"} \cup TerminalStatuses],
         rstatus[<<u, n>>] # "none", s # "none", rstatus' = [rstatus EXCEPT ![<<u, n>>] = s],
         NEW t \in Tasks
  PROVE  Made(t)' = Made(t)
  BY DEF Made

LEMMA WorkTasksOK ==
  ASSUME MissionInv, NEW th \in Threads, Work(th), NEW t \in Tasks
  PROVE  TaskOK(t)'
<1> USE DEF taskVars, runVars
<1>1. Forward /\ Known \subseteq Known'
  BY WorkIsForward, StatesTyped
<1>2. TaskOK(t) /\ (rstatus' = rstatus => Made(t)' = Made(t))
  BY SameRuns DEF MissionInv
<1>3. /\ tstatus \in [Tasks -> {"absent"} \cup TaskStatuses]
      /\ gate \in [Tasks -> {"none", "open", "blocking", "overridden"}]
  BY DEF MissionInv, MissionTypeOK
<1>4. CASE AddTask(th)
  <2>1. tstatus'[t] \in {tstatus[t], "pending"}
    BY <1>3, <1>4 DEF AddTask
  <2>2. QED
    BY <1>1, <1>2, <1>4, <2>1, TaskStaysOK DEF AddTask
<1>5. CASE /\ UNCHANGED <<trun, mapped, gate, judged, tstatus>>
           /\ rstatus' = rstatus
  BY <1>1, <1>2, <1>5, TaskStaysOK
<1>6. CASE Drain(th)
  <2>1. tstatus'[t] = tstatus[t] \/ (tstatus'[t] = "queued" /\ Ready(t))
    BY <1>6 DEF Drain
  <2>2. Ready(t) => t \in Known
    BY DEF Ready, Known
  <2>3. ASSUME Ready(t)
        PROVE  MayRun(t)
    <3>1. ASSUME NEW d \in Deps[t]
          PROVE  Cleared(d)
      <4>1. d \in Tasks
        BY MissionAssumption
      <4>2. TaskOK(d) /\ AllowsDependents(d)
        BY <2>3, <4>1 DEF Ready, MissionInv
      <4>3. QED
        BY <4>1, <4>2 DEF TaskOK, AllowsDependents, Cleared
    <3>2. QED
      BY <3>1 DEF MayRun
  <2>4. QED
    BY <1>1, <1>2, <1>6, <2>1, <2>2, <2>3, TaskStaysOK DEF Drain
<1>7. CASE CreateRun(th)
  <2>1. PICK u \in Tasks, n \in Nums : /\ u = Head(todo[th]).task
                                       /\ rstatus' = [rstatus EXCEPT ![<<u, n>>] = "queued"]
    BY <1>7, CreateRunCalls
  <2>2. CallOK(Head(todo[th])) /\ Head(todo[th]).op = "create"
    BY <1>7, HeadOK, AtCall DEF CreateRun, MissionInv
  <2>3. MayRun(u) /\ u \in Known
    BY <2>1, <2>2 DEF CallOK, Known
  <2>4. t # u => Made(t)' = Made(t)
    BY <2>1 DEF Made, MissionInv, MissionTypeOK
  <2>5. QED
    BY <1>1, <1>2, <1>7, <2>3, <2>4, TaskStaysOK DEF CreateRun
<1>8. CASE CreateRunFails(th)
  <2>1. tstatus'[t] \in {tstatus[t], "failed"} /\ gate'[t] \in {gate[t], "none"}
    BY <1>3, <1>8 DEF CreateRunFails
  <2>2. QED
    BY <1>1, <1>2, <1>8, <2>1, TaskStaysOK DEF CreateRunFails
<1>9. CASE LinkRun(th)
  <2>1. PICK u \in Tasks, n \in Nums :
          /\ n \in Made(u) /\ trun' = [trun EXCEPT ![u] = n]
          /\ mapped' = [mapped EXCEPT ![u] = @ \cup {n}]
          /\ tstatus' = [tstatus EXCEPT ![u] =
                           IF RunFinal(u, n) THEN "running" ELSE rstatus[<<u, n>>]]
    BY <1>9, LinkHead
  <2>2. CASE t # u
    <3>1. tstatus'[t] = tstatus[t] /\ mapped'[t] = mapped[t] /\ trun'[t] = trun[t]
      BY <2>1, <2>2, <1>3 DEF MissionInv, MissionTypeOK
    <3>2. QED
      BY <1>1, <1>2, <1>9, <3>1, TaskStaysOK DEF LinkRun
  <2>3. CASE t = u
    <3>1. /\ trun'[t] = n /\ mapped'[t] = mapped[t] \cup {n} /\ n # 0
          /\ tstatus'[t] = IF RunFinal(t, n) THEN "running" ELSE rstatus[<<t, n>>]
      BY <2>1, <2>3, <1>3 DEF MissionInv, MissionTypeOK, Nums
    <3>2. Made(t)' = Made(t) /\ n \in Made(t)
      BY <1>2, <1>9, <2>1, <2>3 DEF LinkRun
    <3>3. MayRun(t)' /\ tstatus'[t] # "absent"
      BY <1>1, <1>2, <3>2, ClearedStays DEF TaskOK, Known
    <3>4. tstatus'[t] # "completed"
      BY <3>1 DEF RunFinal, TerminalStatuses
    <3>5. UNCHANGED <<gate, judged, verdict, overrides>>
      BY <1>9 DEF LinkRun, faultVars
    <3>6. QED
      BY <1>2, <3>1, <3>2, <3>3, <3>4, <3>5 DEF TaskOK
  <2>4. QED
    BY <2>2, <2>3
<1>10. CASE ApplyStatus(th)
  <2>1. PICK u \in Tasks, s \in Statuses : u = Head(todo[th]).task /\ s = Head(todo[th]).status
    BY <1>10, ApplyStatusCalls
  <2>2. CallOK(Head(todo[th])) /\ Head(todo[th]).op = "apply"
    BY <1>10, HeadOK, AtCall DEF ApplyStatus, MissionInv
  <2>3. trun[u] # 0 /\ (s = "completed" => HasCompleted(u))
    BY <2>1, <2>2 DEF CallOK, HasCompleted
  <2>4. u = t => MayRun(t) /\ t \in Known
    BY <1>2, <2>3 DEF TaskOK, Known
  <2>5. gate'[t] \in {gate[t], "none"} /\ tstatus'[t] \in {tstatus[t], s}
        /\ (t # u => tstatus'[t] = tstatus[t])
    BY <1>3, <1>10, <2>1 DEF ApplyStatus
  <2>6. QED
    BY <1>1, <1>2, <1>10, <2>3, <2>4, <2>5, TaskStaysOK DEF ApplyStatus
<1>11. CASE JudgeGate(th)
  <2>1. PICK u \in Gated : gate' = [gate EXCEPT ![u] = verdict[u]] /\ judged' = judged \cup {u}
    BY <1>11, JudgeCalls
  <2>2. u \in Tasks /\ verdict[u] \in {"open", "blocking"}
    BY MissionAssumption DEF MissionInv, MissionTypeOK
  <2>3. IF t = u THEN gate'[t] = verdict[u] /\ t \in judged' ELSE gate'[t] = gate[t]
    BY <1>3, <2>1, <2>2
  <2>4. QED
    BY <1>1, <1>2, <1>11, <2>2, <2>3, TaskStaysOK DEF JudgeGate
<1>12. CASE BlockMission(th)
  <2>1. gate'[t] \in {gate[t], "blocking"} /\ tstatus'[t] \in {tstatus[t], "blocked"}
    BY <1>12 DEF BlockMission
  <2>2. QED
    BY <1>1, <1>2, <1>12, <2>1, TaskStaysOK DEF BlockMission
<1>13. CASE FinishMission(th)
  <2>1. gate'[t] \in {gate[t], "none"} /\ tstatus'[t] \in {tstatus[t], "blocked"}
    BY <1>13 DEF FinishMission
  <2>2. QED
    BY <1>1, <1>2, <1>13, <2>1, TaskStaysOK DEF FinishMission
<1>14. CASE CancelMission(th)
  <2>1. gate'[t] \in {gate[t], "none"} /\ tstatus'[t] \in {tstatus[t], "cancelled"}
    BY <1>14 DEF CancelMission
  <2>2. QED
    BY <1>1, <1>2, <1>14, <2>1, TaskStaysOK DEF CancelMission
<1>15. CASE CancelRun(th) \/ FailOrphan(th)
  <2>1. \/ rstatus' = rstatus
        \/ \E u \in Tasks, n \in Nums, s \in {"cancelled", "failed"} :
             /\ rstatus[<<u, n>>] \in {"queued", "running"}
             /\ rstatus' = [rstatus EXCEPT ![<<u, n>>] = s]
    BY <1>15, CancelRunCalls, FailOrphanCalls
  <2>2. rstatus \in [Tasks \X Nums -> {"none", "queued", "running"} \cup TerminalStatuses]
    BY DEF MissionInv, MissionTypeOK
  <2>3. Made(t)' = Made(t)
    BY <1>2, <2>1, <2>2, LiveRunMade
  <2>4. QED
    BY <1>1, <1>2, <1>15, <2>3, TaskStaysOK DEF CancelRun, FailOrphan
<1>16. CASE ApproveGates(th)
  <2>1. overrides > 0
    BY <1>16, OverrideCalls
  <2>2. gate'[t] \in {gate[t], "overridden"}
    BY <1>16 DEF ApproveGates
  <2>3. QED
    BY <1>1, <1>2, <1>16, <2>1, <2>2, TaskStaysOK DEF ApproveGates
<1>17. CASE UnblockTasks(th)
  <2>1. tstatus'[t] \in {tstatus[t], "pending"}
    BY <1>17 DEF UnblockTasks
  <2>2. QED
    BY <1>1, <1>2, <1>17, <2>1, TaskStaysOK DEF UnblockTasks
<1>18. CASE ReconcileTask(th)
  <2>1. tstatus'[t] \in {tstatus[t], "pending"}
    BY <1>3, <1>18 DEF ReconcileTask
  <2>2. QED
    BY <1>1, <1>2, <1>18, <2>1, TaskStaysOK DEF ReconcileTask
<1>19. CASE \/ BeginMission(th) \/ StartTask(th) \/ SyncTask(th) \/ EvaluateGate(th)
            \/ CheckDone(th) \/ EndMission(th) \/ RecheckMission(th) \/ ResumeMission(th)
            \/ OrphansFailed(th) \/ Reconcile(th)
  BY <1>5, <1>19 DEF BeginMission, StartTask, SyncTask, EvaluateGate, CheckDone, EndMission,
     RecheckMission, ResumeMission, OrphansFailed, Reconcile
<1>20. QED
  BY <1>4, <1>6, <1>7, <1>8, <1>9, <1>10, <1>11, <1>12, <1>13, <1>14, <1>15, <1>16, <1>17,
     <1>18, <1>19 DEF Work
-----------------------------------------------------------------------------
(* A call that is not made in a step is still to be made.                  *)
LEMMA CallsStay ==
  ASSUME MissionInv, NEW th \in Threads, NEW calls, NewCalls(th, calls),
         NEW oh \in Threads, NEW i \in DOMAIN todo[oh], oh # th \/ i # 1
  PROVE  \E j \in DOMAIN todo'[oh] : todo'[oh][j] = todo[oh][i]
<1>1. /\ todo \in [Threads -> Seq(CallSet)] /\ todo[th] # <<>> /\ calls \in Seq(CallSet)
      /\ Then(th, calls)
  BY DEF MissionInv, MissionTypeOK, CallSet, NewCalls
<1>2. /\ \A xh \in Threads \ {th} : todo'[xh] = todo[xh]
      /\ \A k \in DOMAIN todo[th] \ {1} : /\ k - 1 + Len(calls) \in DOMAIN todo'[th]
                                          /\ todo'[th][k - 1 + Len(calls)] = todo[th][k]
  BY <1>1, ThenElements
<1>3. QED
  BY <1>2

LEMMA WorkCompleted ==
  ASSUME MissionInv, NEW th \in Threads, Work(th), mission' = "completed"
  PROVE  AllHaveCompleted'
<1>1. Forward
  BY WorkIsForward
<1>2. \A t \in Tasks : HasCompleted(t) => HasCompleted(t)'
  BY <1>1, ClearedStays
<1>3. CASE AddTask(th)
  <2>1. todo[th][1].op = "add" /\ 1 \in DOMAIN todo[th] /\ mission = "completed"
    BY <1>3, AtCall DEF AddTask, MissionInv
  <2>2. th = Create
    BY <2>1 DEF MissionInv, CallersKnown, CallerOK, OwnCalls, Caller
  <2>3. QED
    BY <2>1, <2>2 DEF MissionInv, AddingOK, Adding, NothingRuns
<1>4. CASE ~AddTask(th) /\ mission = "completed"
  BY <1>2, <1>4, StatesTyped DEF MissionInv, AllHaveCompleted, Known
<1>5. CASE ~AddTask(th) /\ mission # "completed"
  <2>1. EndMission(th)
    BY <1>5 DEF Work, BeginMission, Drain, StartTask, CreateRun, CreateRunFails,
       LinkRun, SyncTask, ApplyStatus, EvaluateGate, JudgeGate, BlockMission, FinishMission,
       CheckDone, CancelMission, CancelRun, RecheckMission, ApproveGates, UnblockTasks,
       ResumeMission, Resumed, FailOrphan, OrphansFailed, Reconcile, ReconcileTask
  <2>2. CallOK(Head(todo[th])) /\ Head(todo[th]).op = "end" /\ Head(todo[th]).status = "completed"
    BY <2>1, HeadOK, AtCall DEF EndMission, MissionInv
  <2>3. AllHaveCompleted
    BY <2>2 DEF CallOK
  <2>4. QED
    BY <1>2, <1>5, <2>3, StatesTyped DEF AllHaveCompleted, Known
<1>6. QED
  BY <1>3, <1>4, <1>5

LEMMA WorkOrphans ==
  ASSUME MissionInv, NEW th \in Threads, Work(th)
  PROVE  OrphansOK'
<1>1. PICK calls : NewCalls(th, calls)
  BY WorkCalls
<1>2. todo[th] # <<>> /\ \A oh \in Threads \ {th} : todo'[oh] = todo[oh]
  BY <1>1, NewIsGrown DEF NewCalls, Grown
<1>3. OrphansOK
  BY DEF MissionInv
<1>4. CASE orphans' = {}
  BY <1>4 DEF OrphansOK
<1>5. CASE orphans' # {} /\ orphans' \subseteq orphans
  <2>1. PICK i \in DOMAIN todo[Startup] : todo[Startup][i].op = "orphans"
    BY <1>3, <1>5 DEF OrphansOK
  <2>2. Idle(Cancel) /\ th # Cancel
    BY <1>2, <1>3, <1>5 DEF OrphansOK, Idle
  <2>3. Idle(Cancel)'
    BY <1>2, <2>2, ThreadFacts DEF Idle
  <2>4. \E j \in DOMAIN todo'[Startup] : todo'[Startup][j].op = "orphans"
    <3>1. CASE FailOrphan(th)
      <4>1. /\ todo \in [Threads -> Seq(CallSet)]
            /\ \E t \in Tasks, n \in Nums : NewCalls(th, OnTerminalEvent(t, n) \o Do("orphans"))
            /\ th = Startup
        BY <3>1, FailOrphanCalls DEF MissionInv, MissionTypeOK, CallSet
      <4>2. PICK t \in Tasks, n \in Nums : NewCalls(th, OnTerminalEvent(t, n) \o Do("orphans"))
        BY <4>1
      <4> DEFINE new == OnTerminalEvent(t, n) \o Do("orphans")
      <4>3. "orphans" \in Ops
        BY DEF Ops
      <4>4. /\ OnTerminalEvent(t, n) \in Seq(CallSet) /\ Do("orphans") \in Seq(CallSet)
            /\ 1 \in DOMAIN Do("orphans") /\ Do("orphans")[1].op = "orphans"
        BY <4>3, EventCalls, DoCall
      <4>5. PICK k \in DOMAIN new : new[k].op = "orphans"
        <5>1. /\ 1 + Len(OnTerminalEvent(t, n)) \in DOMAIN new
              /\ new[1 + Len(OnTerminalEvent(t, n))] = Do("orphans")[1]
          BY <4>4, ConcatElements
        <5> HIDE DEF new
        <5>2. QED
          BY <4>4, <5>1
      <4>6. new \in Seq(CallSet) /\ todo[th] # <<>> /\ Then(th, new)
        BY <4>2 DEF NewCalls
      <4>7. k \in DOMAIN todo'[th] /\ todo'[th][k] = new[k]
        BY <4>1, <4>6, ThenElements
      <4>8. QED
        BY <4>1, <4>5, <4>7
    <3>2. CASE ~FailOrphan(th)
      <4>1. Startup = th => i # 1
        <5>1. SUFFICES ASSUME Startup = th, i = 1
                       PROVE  FALSE
          OBVIOUS
        <5>2. Head(todo[th]).op = "orphans"
          BY <1>2, <2>1, <5>1, TailElements, ThreadFacts DEF MissionInv, MissionTypeOK
        <5>3. Upcoming(th) = "orphans"
          BY <1>2, <5>2 DEF Upcoming
        <5>4. orphans = {}
          BY <3>2, <5>3 DEF Work, AddTask, BeginMission, Drain, StartTask, CreateRun,
             CreateRunFails, LinkRun, SyncTask, ApplyStatus, EvaluateGate, JudgeGate,
             BlockMission, FinishMission, CheckDone, EndMission, CancelMission, CancelRun,
             RecheckMission, ApproveGates, UnblockTasks, ResumeMission, OrphansFailed,
             Reconcile, ReconcileTask, At
        <5>5. QED
          BY <1>5, <5>4
      <4>2. \E j \in DOMAIN todo'[Startup] : todo'[Startup][j] = todo[Startup][i]
        BY <1>1, <4>1, CallsStay, ThreadFacts
      <4>3. QED
        BY <2>1, <4>2
    <3>3. QED
      BY <3>1, <3>2
  <2>5. ASSUME NEW x \in orphans'
        PROVE  rstatus'[x] \in {"queued", "running"} /\ x[1] \notin Remote
    <3>1. x \in orphans /\ rstatus[x] \in {"queued", "running"} /\ x[1] \notin Remote
      BY <1>3, <1>5 DEF OrphansOK
    <3>2. CASE rstatus' = rstatus
      BY <3>1, <3>2
    <3>3. CASE CreateRun(th)
      <4>1. PICK t \in Tasks, n \in Nums : /\ Made(t) = 1 .. (n - 1)
                                           /\ rstatus' = [rstatus EXCEPT ![<<t, n>>] = "queued"]
        BY <3>3, CreateRunCalls
      <4>2. rstatus[<<t, n>>] = "none"
        BY <4>1, NextRun
      <4>3. QED
        BY <3>1, <4>1, <4>2 DEF MissionInv, MissionTypeOK
    <3>4. CASE FailOrphan(th)
      BY <1>5, <3>1, <3>4, FailOrphanCalls DEF MissionInv, MissionTypeOK
    <3>5. CASE CancelRun(th)
      BY <2>2, <3>5, CancelRunCalls
    <3>6. QED
      BY <3>2, <3>3, <3>4, <3>5 DEF Work, AddTask, BeginMission, Drain, StartTask,
         CreateRunFails, LinkRun, SyncTask, ApplyStatus, EvaluateGate, JudgeGate,
         BlockMission, FinishMission, CheckDone, EndMission, CancelMission,
         RecheckMission, ApproveGates, UnblockTasks, ResumeMission, OrphansFailed,
         Reconcile, ReconcileTask, runVars
  <2>6. QED
    BY <2>3, <2>4, <2>5 DEF OrphansOK
<1>6. orphans' \subseteq orphans
  BY DEF Work, AddTask, BeginMission, Drain, StartTask, CreateRun, CreateRunFails, LinkRun,
     SyncTask, ApplyStatus, EvaluateGate, JudgeGate, BlockMission, FinishMission, CheckDone,
     EndMission, CancelMission, CancelRun, RecheckMission, ApproveGates, UnblockTasks,
     ResumeMission, FailOrphan, OrphansFailed, Reconcile, ReconcileTask, runVars
<1>7. QED
  BY <1>4, <1>5, <1>6

(* What a thread does is what its next call says.                          *)
LEMMA WorkOps ==
  ASSUME NEW th, Work(th)
  PROVE  \/ Upcoming(th) = "add" /\ AddTask(th)
         \/ Upcoming(th) = "begin" /\ BeginMission(th)
         \/ Upcoming(th) = "drain" /\ Drain(th)
         \/ Upcoming(th) = "start" /\ StartTask(th)
         \/ Upcoming(th) = "create" /\ (CreateRun(th) \/ CreateRunFails(th))
         \/ Upcoming(th) = "link" /\ LinkRun(th)
         \/ Upcoming(th) = "sync" /\ SyncTask(th)
         \/ Upcoming(th) = "apply" /\ ApplyStatus(th)
         \/ Upcoming(th) = "evaluate" /\ EvaluateGate(th)
         \/ Upcoming(th) = "judge" /\ JudgeGate(th)
         \/ Upcoming(th) = "block" /\ BlockMission(th)
         \/ Upcoming(th) = "finish" /\ FinishMission(th)
         \/ Upcoming(th) = "check" /\ CheckDone(th)
         \/ Upcoming(th) = "end" /\ EndMission(th)
         \/ Upcoming(th) = "cancel" /\ CancelMission(th)
         \/ Upcoming(th) = "cancelrun" /\ CancelRun(th)
         \/ Upcoming(th) = "recheck" /\ RecheckMission(th)
         \/ Upcoming(th) = "override" /\ ApproveGates(th)
         \/ Upcoming(th) = "unblock" /\ UnblockTasks(th)
         \/ Upcoming(th) = "resume" /\ ResumeMission(th)
         \/ Upcoming(th) = "orphans" /\ (FailOrphan(th) \/ OrphansFailed(th))
         \/ Upcoming(th) = "reconcile" /\ Reconcile(th)
         \/ Upcoming(th) = "reconciletask" /\ ReconcileTask(th)
<1> USE DEF At
<1>1. /\ AddTask(th) => Upcoming(th) = "add"
      /\ BeginMission(th) => Upcoming(th) = "begin"
      /\ Drain(th) => Upcoming(th) = "drain"
      /\ StartTask(th) => Upcoming(th) = "start"
      /\ CreateRun(th) \/ CreateRunFails(th) => Upcoming(th) = "create"
      /\ LinkRun(th) => Upcoming(th) = "link"
  BY DEF AddTask, BeginMission, Drain, StartTask, CreateRun, CreateRunFails, LinkRun
<1>2. /\ SyncTask(th) => Upcoming(th) = "sync"
      /\ ApplyStatus(th) => Upcoming(th) = "apply"
      /\ EvaluateGate(th) => Upcoming(th) = "evaluate"
      /\ JudgeGate(th) => Upcoming(th) = "judge"
      /\ BlockMission(th) => Upcoming(th) = "block"
      /\ FinishMission(th) => Upcoming(th) = "finish"
      /\ CheckDone(th) => Upcoming(th) = "check"
      /\ EndMission(th) => Upcoming(th) = "end"
  BY DEF SyncTask, ApplyStatus, EvaluateGate, JudgeGate, BlockMission, FinishMission,
     CheckDone, EndMission
<1>3. /\ CancelMission(th) => Upcoming(th) = "cancel"
      /\ CancelRun(th) => Upcoming(th) = "cancelrun"
      /\ RecheckMission(th) => Upcoming(th) = "recheck"
      /\ ApproveGates(th) => Upcoming(th) = "override"
      /\ UnblockTasks(th) => Upcoming(th) = "unblock"
      /\ ResumeMission(th) => Upcoming(th) = "resume"
  BY DEF CancelMission, CancelRun, RecheckMission, ApproveGates, UnblockTasks, ResumeMission
<1>4. /\ FailOrphan(th) \/ OrphansFailed(th) => Upcoming(th) = "orphans"
      /\ Reconcile(th) => Upcoming(th) = "reconcile"
      /\ ReconcileTask(th) => Upcoming(th) = "reconciletask"
  BY DEF FailOrphan, OrphansFailed, Reconcile, ReconcileTask
<1>5. QED
  BY <1>1, <1>2, <1>3, <1>4 DEF Work

LEMMA NextOfThread ==
  ASSUME MissionInv, NEW th \in Threads, todo[th] # <<>>
  PROVE  /\ 1 \in DOMAIN todo[th] /\ Head(todo[th]) = todo[th][1]
         /\ Upcoming(th) = todo[th][1].op
  BY TailElements DEF MissionInv, MissionTypeOK, Upcoming

(* While tasks are added: the creating thread adds, others at most cancel. *)
LEMMA AddingWork ==
  ASSUME MissionInv, NEW th \in Threads, Work(th), Adding
  PROVE  \/ th = Create /\ AddTask(th)
         \/ th # Create /\ \/ CancelMission(th) \/ CancelRun(th) \/ RecheckMission(th)
                           \/ EndMission(th) /\ Head(todo[th]).status = "cancelled"
<1>1. todo[th] # <<>>
  BY WorkCalls DEF NewCalls
<1>2. 1 \in DOMAIN todo[th] /\ Head(todo[th]) = todo[th][1] /\ Upcoming(th) = todo[th][1].op
  BY <1>1, NextOfThread
<1>3. NothingRuns /\ AddsFirst
  BY DEF MissionInv, AddingOK
<1>4. CASE th = Create
  <2>1. PICK i \in DOMAIN todo[Create] : todo[Create][i].op = "add"
    BY DEF Adding
  <2>2. 1 \in 1 .. i
    <3>1. todo[Create] \in Seq(CallSet)
      BY ThreadFacts DEF MissionInv, MissionTypeOK, CallSet
    <3>2. i \in 1 .. Len(todo[Create]) /\ Len(todo[Create]) \in Nat
      BY <2>1, <3>1, LenProperties
    <3>3. QED
      BY <3>2
  <2>3. Upcoming(th) = "add"
    BY <1>2, <1>3, <1>4, <2>1, <2>2 DEF AddsFirst
  <2>4. QED
    BY <1>4, <2>3, WorkOps
<1>5. CASE th # Create
  <2>1. \/ Upcoming(th) \in {"cancel", "cancelrun", "recheck"}
        \/ Upcoming(th) = "end" /\ Head(todo[th]).status = "cancelled"
    BY <1>2, <1>3, <1>5 DEF NothingRuns
  <2>2. QED
    BY <1>5, <2>1, WorkOps
<1>6. QED
  BY <1>4, <1>5

(* Two orders of the calls of the creating thread.                         *)
LEMMA AddsStayFirst ==
  ASSUME MissionInv, NEW th \in Threads, Work(th)
  PROVE  AddsFirst' /\ (Adding' => Adding)
<1>1. PICK calls : NewCalls(th, calls)
  BY WorkCalls
<1>2. CASE th # Create
  <2>1. todo'[Create] = todo[Create]
    BY <1>1, <1>2, NewIsGrown, ThreadFacts DEF Grown
  <2>2. QED
    BY <2>1 DEF AddsFirst, Adding, MissionInv, AddingOK
<1>3. CASE th = Create /\ ~Adding
  <2>1. \A i \in DOMAIN todo'[Create] : todo'[Create][i].op # "add"
    BY <1>1, <1>3, NewIsGrown DEF Grown, NewCalls, Adding
  <2>2. QED
    BY <2>1 DEF AddsFirst, Adding
<1>4. CASE th = Create /\ Adding
  <2>1. AddTask(th) /\ Then(th, <<>>)
    BY <1>4, AddingWork DEF AddTask
  <2>2. /\ todo \in [Threads -> Seq(CallSet)] /\ todo[th] # <<>> /\ <<>> \in Seq(CallSet)
        /\ DOMAIN <<>> = {} /\ Len(<<>>) = 0
    BY <1>1, NoCalls DEF MissionInv, MissionTypeOK, CallSet, NewCalls
  <2>3. \A i \in DOMAIN todo'[Create] : /\ i + 1 \in DOMAIN todo[Create]
                                        /\ todo'[Create][i] = todo[Create][i + 1]
                                        /\ i \in Nat \ {0}
    <3>1. PICK new \in Seq(CallSet) : new = <<>>
      BY <2>2
    <3>2. Then(th, new) /\ DOMAIN new = {} /\ Len(new) = 0
      BY <2>1, <2>2, <3>1
    <3>3. /\ todo' \in [Threads -> Seq(CallSet)]
          /\ \A i \in DOMAIN todo'[th] :
               \/ i \in DOMAIN new /\ todo'[th][i] = new[i]
               \/ /\ i > Len(new) /\ i - Len(new) + 1 \in DOMAIN todo[th] \ {1}
                  /\ todo'[th][i] = todo[th][i - Len(new) + 1]
      BY <2>2, <3>2, ThenElements
    <3>4. DOMAIN todo'[th] = 1 .. Len(todo'[th]) /\ Len(todo'[th]) \in Nat
      BY <3>3, LenProperties
    <3>5. ASSUME NEW i \in DOMAIN todo'[th]
          PROVE  /\ i + 1 \in DOMAIN todo[th] /\ todo'[th][i] = todo[th][i + 1]
                 /\ i \in Nat \ {0}
      <4>1. i \in Nat \ {0} /\ i - Len(new) + 1 = i + 1
        BY <3>2, <3>4
      <4>2. QED
        BY <3>2, <3>3, <4>1
    <3>6. QED
      BY <1>4, <3>5
  <2>4. ASSUME NEW i \in DOMAIN todo'[Create], todo'[Create][i].op = "add", NEW j \in 1 .. i
        PROVE  todo'[Create][j].op = "add"
    <3>1. todo[Create][i + 1].op = "add" /\ i + 1 \in DOMAIN todo[Create]
      BY <2>3, <2>4
    <3>2. j + 1 \in 1 .. (i + 1) /\ i \in Nat
      BY <2>3
    <3>3. todo[Create][j + 1].op = "add"
      BY <3>1, <3>2 DEF MissionInv, AddingOK, AddsFirst
    <3>4. j \in DOMAIN todo'[Create]
      <4>1. todo'[Create] \in Seq(CallSet)
        BY <2>1, <2>2, ThenElements, ThreadFacts
      <4>2. DOMAIN todo'[Create] = 1 .. Len(todo'[Create]) /\ Len(todo'[Create]) \in Nat
        BY <4>1, LenProperties
      <4>3. QED
        BY <2>4, <4>2
    <3>5. QED
      BY <2>3, <3>3, <3>4
  <2>5. QED
    BY <1>4, <2>4 DEF AddsFirst
<1>5. QED
  BY <1>2, <1>3, <1>4

LEMMA WorkNothingRuns ==
  ASSUME MissionInv, NEW th \in Threads, Work(th), Adding
  PROVE  NothingRuns'
<1>1. NothingRuns
  BY DEF MissionInv, AddingOK
<1>2. /\ tstatus \in [Tasks -> {"absent"} \cup TaskStatuses]
      /\ gate \in [Tasks -> {"none", "open", "blocking", "overridden"}]
  BY DEF MissionInv, MissionTypeOK
<1>3. \A t \in Tasks : trun[t] = 0
  BY <1>1 DEF NothingRuns, MissionInv, TaskOK
<1>4. ~\E t \in Tasks, n \in Nums : rstatus[<<t, n>>] \in {"queued", "running"}
  BY <1>1 DEF NothingRuns, Made
<1>5. \/ th = Create /\ AddTask(th) /\ NewCalls(th, <<>>)
      \/ /\ th # Create
         /\ \/ CancelMission(th) \/ CancelRun(th) \/ RecheckMission(th)
            \/ EndMission(th) /\ Head(todo[th]).status = "cancelled"
         /\ \E calls : /\ NewCalls(th, calls)
                       /\ \A i \in DOMAIN calls :
                            \/ calls[i].op \in {"cancel", "cancelrun", "recheck"}
                            \/ calls[i].op = "end" /\ calls[i].status = "cancelled"
  <2>1. todo[th] # <<>>
    BY WorkCalls DEF NewCalls
  <2>2. AddTask(th) \/ EndMission(th) => NewCalls(th, <<>>)
    BY <2>1, NoNewCalls DEF AddTask, EndMission
  <2>3. \A i \in DOMAIN <<>> : FALSE
    BY NoCalls
  <2>4. ASSUME CancelMission(th)
        PROVE  \E calls : /\ NewCalls(th, calls)
                          /\ \A i \in DOMAIN calls : calls[i].op \in {"cancel", "cancelrun", "recheck"}
    <3>1. ASSUME NEW S \in SUBSET Tasks, NEW i \in DOMAIN (ForEach("cancelrun", S) \o Do("recheck"))
          PROVE  (ForEach("cancelrun", S) \o Do("recheck"))[i].op \in {"cancelrun", "recheck"}
      <4>1. "cancelrun" \in Ops /\ "recheck" \in Ops
        BY DEF Ops
      <4>2. /\ ForEach("cancelrun", S) \in Seq(CallSet) /\ Do("recheck") \in Seq(CallSet)
            /\ \A j \in DOMAIN ForEach("cancelrun", S) : ForEach("cancelrun", S)[j].op = "cancelrun"
            /\ DOMAIN Do("recheck") = {1} /\ Do("recheck")[1].op = "recheck"
        BY <4>1, EachCall, DoCall
      <4>3. QED
        BY <4>2, ConcatElements
    <3>2. CASE NewCalls(th, <<>>)
      BY <2>3, <3>2
    <3>3. ASSUME NEW S \in SUBSET Tasks, NewCalls(th, ForEach("cancelrun", S) \o Do("recheck"))
          PROVE  \E calls : /\ NewCalls(th, calls)
                            /\ \A i \in DOMAIN calls : calls[i].op \in {"cancel", "cancelrun", "recheck"}
      BY <3>1, <3>3
    <3>4. QED
      BY <2>4, <3>2, <3>3, CancelMissionCalls
  <2>5. ASSUME CancelRun(th)
        PROVE  NewCalls(th, <<>>)
    BY <1>4, <2>5, CancelRunCalls
  <2>6. ASSUME RecheckMission(th)
        PROVE  \E calls : /\ NewCalls(th, calls)
                          /\ \A i \in DOMAIN calls : calls[i].op = "end" /\ calls[i].status = "cancelled"
    <3>1. CASE NewCalls(th, <<>>)
      BY <2>3, <3>1
    <3>2. CASE NewCalls(th, <<Call("end", NoTask, 0, "cancelled")>>)
      BY <3>2 DEF Call
    <3>3. QED
      BY <2>6, <3>1, <3>2, RecheckCalls
  <2>7. QED
    BY AddingWork, <2>2, <2>3, <2>4, <2>5, <2>6
<1>6. \A t \in Tasks : Made(t)' = {} /\ gate'[t] = "none"
  <2>1. rstatus' = rstatus
    BY <1>4, <1>5, CancelRunCalls DEF AddTask, CancelMission, RecheckMission, EndMission, runVars
  <2>2. \A t \in Tasks : Made(t)' = {}
    BY <1>1, <2>1 DEF NothingRuns, Made
  <2>3. \A t \in Tasks : gate'[t] = "none"
    BY <1>1, <1>5 DEF NothingRuns, AddTask, CancelMission, CancelRun, RecheckMission, EndMission,
       taskVars
  <2>4. QED
    BY <2>2, <2>3
<1>7. \A t \in Tasks : tstatus'[t] \in {"absent", "pending", "cancelled"}
  BY <1>1, <1>2, <1>5 DEF NothingRuns, AddTask, CancelMission, CancelRun, RecheckMission,
     EndMission, taskVars
<1>8. mission' # "completed"
  BY <1>1, <1>5 DEF NothingRuns, AddTask, CancelMission, CancelRun, RecheckMission, EndMission
<1>9. CASE th = Create
  <2>1. Grown(th, <<>>) /\ DOMAIN <<>> = {}
    BY <1>5, <1>9, NewIsGrown, NoCalls
  <2>2. /\ \A oh \in Threads \ {Create} : todo'[oh] = todo[oh]
        /\ \A i \in DOMAIN todo'[Create] : \E j \in DOMAIN todo[Create] : todo'[Create][i] = todo[Create][j]
    BY <1>9, <2>1 DEF Grown
  <2>3. /\ \A i \in DOMAIN todo'[Create] : todo'[Create][i].op \in {"add", "begin", "drain"}
        /\ \A oh \in Threads \ {Create} : \A i \in DOMAIN todo'[oh] :
             \/ todo'[oh][i].op \in {"cancel", "cancelrun", "recheck"}
             \/ todo'[oh][i].op = "end" /\ todo'[oh][i].status = "cancelled"
    BY <1>1, <2>2 DEF NothingRuns
  <2>4. QED
    BY <1>6, <1>7, <1>8, <2>3 DEF NothingRuns
<1>10. CASE th # Create
  <2>1. PICK calls : /\ NewCalls(th, calls)
                     /\ \A i \in DOMAIN calls :
                          \/ calls[i].op \in {"cancel", "cancelrun", "recheck"}
                          \/ calls[i].op = "end" /\ calls[i].status = "cancelled"
    BY <1>5, <1>10
  <2>2. /\ \A oh \in Threads \ {th} : todo'[oh] = todo[oh]
        /\ \A i \in DOMAIN todo'[th] : \/ \E j \in DOMAIN calls : todo'[th][i] = calls[j]
                                       \/ \E j \in DOMAIN todo[th] : todo'[th][i] = todo[th][j]
    BY <2>1, NewIsGrown DEF Grown
  <2>3. \A i \in DOMAIN todo'[Create] : todo'[Create][i].op \in {"add", "begin", "drain"}
    BY <1>1, <1>10, <2>2, ThreadFacts DEF NothingRuns
  <2>4. ASSUME NEW oh \in Threads \ {Create}, NEW i \in DOMAIN todo'[oh]
        PROVE  \/ todo'[oh][i].op \in {"cancel", "cancelrun", "recheck"}
               \/ todo'[oh][i].op = "end" /\ todo'[oh][i].status = "cancelled"
    <3>1. CASE oh = th
      BY <1>1, <1>10, <2>1, <2>2, <3>1 DEF NothingRuns
    <3>2. CASE oh # th
      BY <1>1, <2>2, <3>2 DEF NothingRuns
    <3>3. QED
      BY <3>1, <3>2
  <2>5. QED
    BY <1>6, <1>7, <1>8, <2>3, <2>4 DEF NothingRuns
<1>11. QED
  BY <1>9, <1>10

LEMMA WorkAbsent ==
  ASSUME MissionInv, NEW th \in Threads, Work(th)
  PROVE  AbsentOK'
<1>1. SUFFICES ASSUME mission' = "absent"
               PROVE  AbsentOK'
  BY DEF AbsentOK
<1>2. todo[th] # <<>>
  BY WorkCalls DEF NewCalls
<1>3. 1 \in DOMAIN todo[th] /\ Upcoming(th) = todo[th][1].op
  BY <1>2, NextOfThread
<1>4. mission = "absent"
  <2>1. EndMission(th) => Head(todo[th]).status # "absent"
    <3>1. ASSUME EndMission(th)
          PROVE  CallOK(Head(todo[th])) /\ Head(todo[th]).op = "end"
      BY <3>1, HeadOK, AtCall DEF EndMission, MissionInv
    <3>2. QED
      BY <3>1 DEF CallOK, TerminalStatuses
  <2>2. QED
    BY <1>1, <2>1 DEF Work, AddTask, BeginMission, Drain, StartTask, CreateRun, CreateRunFails,
     LinkRun, SyncTask, ApplyStatus, EvaluateGate, JudgeGate, BlockMission, FinishMission,
     CheckDone, EndMission, CancelMission, CancelRun, RecheckMission, ApproveGates, UnblockTasks,
     ResumeMission, Resumed, FailOrphan, OrphansFailed, Reconcile, ReconcileTask
<1>5. /\ \A oh \in Threads \ {Startup} : Idle(oh)
      /\ \A i \in DOMAIN todo[Startup] : todo[Startup][i].op \in {"orphans", "reconcile"}
      /\ \A t \in Tasks : tstatus[t] = "absent" /\ gate[t] = "none" /\ Made(t) = {}
      /\ orphans = {}
  BY <1>4 DEF MissionInv, AbsentOK
<1>6. th = Startup
  BY <1>2, <1>5 DEF Idle
<1>7. OrphansFailed(th) \/ Reconcile(th)
  BY <1>3, <1>5, <1>6, WorkOps DEF FailOrphan
<1>8. UNCHANGED <<tstatus, gate, rstatus, orphans>>
  BY <1>7 DEF OrphansFailed, Reconcile, taskVars, runVars
<1>9. NewCalls(th, <<>>) \/ NewCalls(th, Do("reconcile"))
  BY <1>4, <1>7, ReconcileCalls
<1>10. PICK calls : Grown(th, calls) /\ \A i \in DOMAIN calls : calls[i].op = "reconcile"
  <2>1. "reconcile" \in Ops
    BY DEF Ops
  <2>2. DOMAIN Do("reconcile") = {1} /\ Do("reconcile")[1].op = "reconcile"
    BY <2>1, DoCall
  <2>3. QED
    BY <1>9, <2>2, NoCalls, NewIsGrown
<1>11. /\ \A oh \in Threads \ {Startup} : Idle(oh)'
       /\ \A i \in DOMAIN todo'[Startup] : todo'[Startup][i].op \in {"orphans", "reconcile"}
  BY <1>5, <1>6, <1>10 DEF Grown, Idle
<1>12. \A t \in Tasks : tstatus'[t] = "absent" /\ gate'[t] = "none" /\ Made(t)' = {} /\ orphans' = {}
  BY <1>5, <1>8 DEF Made
<1>13. QED
  BY <1>5, <1>8, <1>11, <1>12 DEF AbsentOK

LEMMA WorkKeepsMissionInv ==
  ASSUME MissionInv, NEW th \in Threads, Work(th)
  PROVE  MissionInv'
<1>1. MissionTypeOK' /\ CallsOK' /\ CallersKnown'
  BY WorkTypes, WorkCallsOK
<1>2. \A t \in Tasks : TaskOK(t)'
  BY WorkTasksOK
<1>3. (mission = "completed" => AllHaveCompleted)' /\ OrphansOK' /\ AbsentOK'
  BY WorkCompleted, WorkOrphans, WorkAbsent
<1>4. AddingOK'
  BY AddsStayFirst, WorkNothingRuns DEF AddingOK
<1>5. QED
  BY <1>1, <1>2, <1>3, <1>4 DEF MissionInv
-----------------------------------------------------------------------------
(* Requests and run events give a thread that had nothing to do its calls. *)
LEMMA SpawnKeepsMissionInv ==
  ASSUME MissionInv, Forward, NEW th \in Threads \ {Create, Startup}, NEW calls, Grown(th, calls),
         UNCHANGED <<mission, taskVars, verdict, orphans>>, mission # "absent",
         rstatus' \in [Tasks \X Nums -> {"none", "queued", "running"} \cup TerminalStatuses],
         repeated' \subseteq Tasks \X Nums, overrides' \in 0 .. MaxOverrides,
         cancels' \in 0 .. MaxCancels, restarts' = restarts, UNCHANGED <<stale, twice, crossed>>,
         \A t \in Tasks : Made(t)' = Made(t),
         \A x \in orphans : rstatus'[x] \in {"queued", "running"},
         th = Cancel => orphans = {},
         Adding => NothingRuns'
  PROVE  MissionInv'
<1>1. MissionTypeOK'
  BY DEF MissionInv, MissionTypeOK, Grown, taskVars, CallSet
<1>2. Known' = Known
  BY DEF Known, taskVars
<1>3. CallsOK' /\ CallersKnown'
  BY <1>2, CallsStayOK, NewCallersKnown DEF MissionInv
<1>4. ASSUME NEW t \in Tasks
      PROVE  TaskOK(t)'
  <2>1. Made(t)' = Made(t)
    OBVIOUS
  <2>2. QED
    BY <1>2, <2>1, TaskStaysOK DEF taskVars
<1>5. \A t \in Tasks : HasCompleted(t) => HasCompleted(t)'
  BY ClearedStays
<1>6. (mission = "completed" => AllHaveCompleted)'
  BY <1>2, <1>5 DEF MissionInv, AllHaveCompleted, Known
<1>7. /\ todo'[Startup] = todo[Startup] /\ todo'[Create] = todo[Create]
      /\ th # Cancel => todo'[Cancel] = todo[Cancel]
  BY ThreadFacts DEF Grown
<1>8. OrphansOK'
  BY <1>7 DEF MissionInv, OrphansOK, Idle
<1>9. AddingOK'
  BY <1>7 DEF MissionInv, AddingOK, AddsFirst, Adding
<1>10. AbsentOK'
  BY DEF AbsentOK
<1>11. QED
  BY <1>1, <1>3, <1>4, <1>6, <1>8, <1>9, <1>10 DEF MissionInv

LEMMA RequestCancelKeeps ==
  ASSUME MissionInv, RequestCancel
  PROVE  MissionInv'
<1> DEFINE c == Do("cancel")[1]
<1>1. Forward
  BY StepIsForward DEF Next, Requests
<1>2. /\ Do("cancel") \in Seq(CallSet) /\ DOMAIN Do("cancel") = {1}
      /\ c \in CallSet /\ c.op = "cancel"
  BY DoCall DEF Ops
<1>3. CallOK(c)' /\ CallerOK(Cancel, c)
  BY <1>2, PlainCallOK DEF TaskCalls, CallerOK, Caller
<1>4. Cancel \in Threads \ {Create, Startup}
  BY ThreadFacts, ThreadsDiffer
<1>5. Grown(Cancel, Do("cancel"))
  BY <1>2, <1>3, <1>4, SpawnIsGrown DEF RequestCancel
<1>6. /\ UNCHANGED <<mission, taskVars, verdict, orphans, rstatus, repeated, overrides, restarts,
                     stale, twice, crossed>>
      /\ mission # "absent" /\ cancels' = cancels + 1 /\ cancels < MaxCancels
      /\ Idle(Startup)
  BY DEF RequestCancel, runVars, Serving
<1>7. orphans = {}
  BY <1>6 DEF MissionInv, OrphansOK, Idle
<1>8. cancels' \in 0 .. MaxCancels
  BY <1>6, MissionAssumption DEF MissionInv, MissionTypeOK
<1>9. \A t \in Tasks : Made(t)' = Made(t)
  BY <1>6, SameRuns
<1>10. ASSUME Adding
       PROVE  NothingRuns'
  <2>1. NothingRuns
    BY <1>10 DEF MissionInv, AddingOK
  <2>2. /\ todo'[Create] = todo[Create]
        /\ \A oh \in Threads \ {Create} : \A i \in DOMAIN todo'[oh] :
             \/ todo'[oh][i].op \in {"cancel", "cancelrun", "recheck"}
             \/ todo'[oh][i].op = "end" /\ todo'[oh][i].status = "cancelled"
    <3>1. todo'[Create] = todo[Create]
      BY <1>4, <1>5, ThreadFacts DEF Grown
    <3>2. ASSUME NEW oh \in Threads \ {Create, Cancel}
          PROVE  todo'[oh] = todo[oh]
      BY <1>5 DEF Grown
    <3>3. ASSUME NEW i \in DOMAIN todo'[Cancel]
          PROVE  \/ todo'[Cancel][i].op = "cancel"
                 \/ \E j \in DOMAIN todo[Cancel] : todo'[Cancel][i] = todo[Cancel][j]
      BY <1>2, <1>5 DEF Grown
    <3>4. QED
      BY <1>4, <2>1, <3>1, <3>2, <3>3 DEF NothingRuns
  <2>3. \A t \in Tasks : /\ tstatus'[t] \in {"absent", "pending", "cancelled"}
                         /\ Made(t)' = {} /\ gate'[t] = "none"
    BY <1>6, <1>9, <2>1 DEF NothingRuns, taskVars
  <2>4. mission' # "completed"
    BY <1>6, <2>1 DEF NothingRuns
  <2>5. \A i \in DOMAIN todo'[Create] : todo'[Create][i].op \in {"add", "begin", "drain"}
    BY <2>1, <2>2 DEF NothingRuns
  <2>6. QED
    BY <2>2, <2>3, <2>4, <2>5 DEF NothingRuns
<1>11. /\ rstatus' \in [Tasks \X Nums -> {"none", "queued", "running"} \cup TerminalStatuses]
       /\ repeated' \subseteq Tasks \X Nums /\ overrides' \in 0 .. MaxOverrides
       /\ \A x \in orphans : rstatus'[x] \in {"queued", "running"}
  BY <1>6, <1>7 DEF MissionInv, MissionTypeOK
<1>12. QED
  BY <1>1, <1>4, <1>5, <1>6, <1>7, <1>8, <1>9, <1>10, <1>11, SpawnKeepsMissionInv

LEMMA RequestOverrideKeeps ==
  ASSUME MissionInv, RequestOverride
  PROVE  MissionInv'
<1> DEFINE c == Do("override")[1]
<1>1. Forward
  BY StepIsForward DEF Next, Requests
<1>2. /\ Do("override") \in Seq(CallSet) /\ DOMAIN Do("override") = {1}
      /\ c \in CallSet /\ c.op = "override"
  BY DoCall DEF Ops
<1>3. /\ UNCHANGED <<mission, taskVars, verdict, orphans, rstatus, repeated, cancels, restarts,
                     stale, twice, crossed>>
      /\ mission # "absent" /\ overrides' = overrides + 1 /\ overrides < MaxOverrides
      /\ \E t \in Tasks : gate[t] = "blocking"
  BY DEF RequestOverride, runVars
<1>4. overrides' \in 0 .. MaxOverrides /\ overrides' > 0
  BY <1>3, MissionAssumption DEF MissionInv, MissionTypeOK
<1>5. CallOK(c)' /\ CallerOK(Override, c)
  BY <1>2, <1>4 DEF CallOK, TaskCalls, CallerOK, Caller
<1>6. Override \in Threads \ {Create, Startup} /\ Override # Cancel
  BY ThreadFacts, ThreadsDiffer
<1>7. Grown(Override, Do("override"))
  BY <1>2, <1>5, <1>6, SpawnIsGrown DEF RequestOverride
<1>8. \A t \in Tasks : Made(t)' = Made(t)
  BY <1>3, SameRuns
<1>9. ~Adding
  BY <1>3 DEF MissionInv, AddingOK, NothingRuns
<1>10. /\ rstatus' \in [Tasks \X Nums -> {"none", "queued", "running"} \cup TerminalStatuses]
       /\ repeated' \subseteq Tasks \X Nums /\ cancels' \in 0 .. MaxCancels
       /\ \A x \in orphans : rstatus'[x] \in {"queued", "running"}
  BY <1>3 DEF MissionInv, MissionTypeOK, OrphansOK
<1>11. QED
  BY <1>1, <1>3, <1>4, <1>6, <1>7, <1>8, <1>9, <1>10, SpawnKeepsMissionInv

LEMMA EventKeeps ==
  ASSUME MissionInv, NEW t \in Tasks, NEW n \in Nums, RunGoesOn(t, n)
  PROVE  MissionInv'
<1>1. Forward
  BY StepIsForward DEF Next
<1>2. rstatus[<<t, n>>] # "none" /\ UNCHANGED <<mission, taskVars, verdict, orphans, overrides,
                                                cancels, restarts, stale, twice, crossed>>
  BY DEF RunGoesOn, RunStarts, RunEnds, RunEndsAgain, RunFinal, TerminalStatuses, faultVars,
     runVars
<1>3. mission # "absent" /\ ~Adding
  BY <1>2 DEF MissionInv, AbsentOK, AddingOK, NothingRuns, Made
<1>4. \A u \in {Started(t, n), Ended(t, n), Again(t, n)} :
        u \in Threads \ {Create, Startup} /\ u # Cancel
  BY ThreadFacts, ThreadsDiffer
<1>5. rstatus'[<<t, n>>] # "none"
  BY <1>1, <1>2 DEF Forward
<1>6. /\ Sync(t, n) \in Seq(CallSet)
      /\ \A th \in Threads, i \in DOMAIN Sync(t, n) :
           CallerOK(th, Sync(t, n)[i]) /\ CallOK(Sync(t, n)[i])'
  <2>1. /\ Sync(t, n) \in Seq(CallSet) /\ DOMAIN Sync(t, n) = {1}
        /\ Sync(t, n)[1].op = "sync" /\ Sync(t, n)[1].task = t /\ Sync(t, n)[1].run = n
    BY SyncCall
  <2>2. CallOK(Sync(t, n)[1])' /\ \A th \in Threads : CallerOK(th, Sync(t, n)[1])
    BY <1>5, <2>1 DEF CallOK, CallerOK, OwnCalls
  <2>3. QED
    BY <2>1, <2>2
<1>7. /\ OnTerminalEvent(t, n) \in Seq(CallSet)
      /\ \A th \in Threads, i \in DOMAIN OnTerminalEvent(t, n) :
           CallerOK(th, OnTerminalEvent(t, n)[i]) /\ CallOK(OnTerminalEvent(t, n)[i])'
  BY <1>5, EventCalls, EventsAreNew
<1>8. PICK th \in {Started(t, n), Ended(t, n), Again(t, n)} : \E calls : Grown(th, calls)
  <2>1. CASE RunStarts(t, n)
    BY <1>4, <1>6, <2>1, SpawnIsGrown DEF RunStarts
  <2>2. CASE \E s \in TerminalStatuses : RunEnds(t, n, s)
    BY <1>4, <1>7, <2>2, SpawnIsGrown DEF RunEnds
  <2>3. CASE RunEndsAgain(t, n)
    BY <1>4, <1>7, <2>3, SpawnIsGrown DEF RunEndsAgain
  <2>4. QED
    BY <2>1, <2>2, <2>3 DEF RunGoesOn
<1>9. /\ repeated' \subseteq Tasks \X Nums
      /\ \/ rstatus' = rstatus
         \/ /\ <<t, n>> \notin orphans
            /\ \E s \in {"running"} \cup TerminalStatuses :
                 rstatus' = [rstatus EXCEPT ![<<t, n>>] = s]
  <2>1. repeated' \subseteq Tasks \X Nums
    BY DEF RunGoesOn, RunStarts, RunEnds, RunEndsAgain, MissionInv, MissionTypeOK, faultVars
  <2>2. t \in Remote => <<t, n>> \notin orphans
    BY DEF MissionInv, OrphansOK
  <2>3. QED
    BY <2>1, <2>2 DEF RunGoesOn, RunStarts, RunEnds, RunEndsAgain, runVars
<1>10. rstatus \in [Tasks \X Nums -> {"none", "queued", "running"} \cup TerminalStatuses]
      /\ overrides' \in 0 .. MaxOverrides /\ cancels' \in 0 .. MaxCancels
  BY <1>2 DEF MissionInv, MissionTypeOK
<1>11. rstatus' \in [Tasks \X Nums -> {"none", "queued", "running"} \cup TerminalStatuses]
  BY <1>9, <1>10
<1>12. ASSUME NEW u \in Tasks
       PROVE  Made(u)' = Made(u)
  <2>1. CASE rstatus' = rstatus
    BY <2>1, SameRuns
  <2>2. CASE \E s \in {"running"} \cup TerminalStatuses : rstatus' = [rstatus EXCEPT ![<<t, n>>] = s]
    BY <1>2, <1>10, <2>2, LiveRunMade DEF TerminalStatuses
  <2>3. QED
    BY <1>9, <2>1, <2>2
<1>13. \A x \in orphans : rstatus'[x] \in {"queued", "running"}
  BY <1>9, <1>10 DEF MissionInv, MissionTypeOK, OrphansOK
<1>14. QED
  BY <1>1, <1>2, <1>3, <1>4, <1>8, <1>9, <1>10, <1>11, <1>12, <1>13, SpawnKeepsMissionInv

(* The calls of a request to create the mission: tasks come first.         *)
LEMMA CreationCalls ==
  ASSUME CreateMission
  PROVE  \E k \in Nat, calls \in Seq(CallSet) :
           /\ Spawn(Create, calls)
           /\ \A i \in DOMAIN calls :
                \/ i \in 1 .. k /\ calls[i].op = "add" /\ calls[i].task \in Tasks
                \/ calls[i].op \in {"begin", "drain"}
           /\ \A i \in 1 .. k : calls[i].op = "add"
<1> DEFINE a == ForEach("add", Tasks)
           b == Do("begin")
           d == Do("drain")
<1>1. "add" \in Ops /\ "begin" \in Ops /\ "drain" \in Ops
  BY DEF Ops
<1>2. /\ a \in Seq(CallSet) /\ \A i \in DOMAIN a : a[i].op = "add" /\ a[i].task \in Tasks
      /\ b \in Seq(CallSet) /\ DOMAIN b = {1} /\ b[1].op = "begin"
      /\ d \in Seq(CallSet) /\ DOMAIN d = {1} /\ d[1].op = "drain"
  BY <1>1, EachCall, DoCall
<1>3. /\ a \o b \in Seq(CallSet)
      /\ \A i \in DOMAIN (a \o b) :
           \/ i \in DOMAIN a /\ (a \o b)[i].op = "add" /\ (a \o b)[i].task \in Tasks
           \/ i - Len(a) \in DOMAIN b /\ (a \o b)[i].op = "begin"
      /\ \A i \in DOMAIN a : (a \o b)[i] = a[i] /\ i \in DOMAIN (a \o b)
  <2> HIDE DEF a, b, d
  <2>1. QED
    BY <1>2, ConcatElements
<1>4. \E calls \in Seq(CallSet) :
        /\ Spawn(Create, calls)
        /\ \A i \in DOMAIN calls :
             \/ i \in DOMAIN a /\ calls[i].op = "add" /\ calls[i].task \in Tasks
             \/ calls[i].op \in {"begin", "drain"}
        /\ \A i \in DOMAIN a : calls[i].op = "add"
  <2>1. Spawn(Create, (a \o b) \o d)
    BY DEF CreateMission
  <2>2. (a \o b) \o d \in Seq(CallSet)
    <3> HIDE DEF a, b, d
    <3>1. QED
      BY <1>2, <1>3, ConcatElements
  <2>3. /\ \A i \in DOMAIN ((a \o b) \o d) :
             \/ i \in DOMAIN (a \o b) /\ ((a \o b) \o d)[i] = (a \o b)[i]
             \/ ((a \o b) \o d)[i] = d[1]
        /\ \A i \in DOMAIN (a \o b) : ((a \o b) \o d)[i] = (a \o b)[i]
    <3> HIDE DEF a, b, d
    <3>1. PICK ab \in Seq(CallSet) : ab = a \o b
      BY <1>3
    <3>2. /\ \A i \in DOMAIN (ab \o d) :
               \/ i \in DOMAIN ab /\ (ab \o d)[i] = ab[i]
               \/ i - Len(ab) \in DOMAIN d /\ (ab \o d)[i] = d[i - Len(ab)]
          /\ \A i \in DOMAIN ab : (ab \o d)[i] = ab[i]
      BY <1>2, ConcatElements
    <3>3. QED
      BY <1>2, <3>1, <3>2
  <2> HIDE DEF a, b, d
  <2>4. \A i \in DOMAIN a : ((a \o b) \o d)[i].op = "add"
    BY <1>2, <1>3, <2>3
  <2>5. \A i \in DOMAIN ((a \o b) \o d) :
          \/ i \in DOMAIN a /\ ((a \o b) \o d)[i].op = "add" /\ ((a \o b) \o d)[i].task \in Tasks
          \/ ((a \o b) \o d)[i].op \in {"begin", "drain"}
    BY <1>2, <1>3, <2>3
  <2>6. QED
    BY <2>1, <2>2, <2>4, <2>5
<1> HIDE DEF a, b, d
<1>5. DOMAIN a = 1 .. Len(a) /\ Len(a) \in Nat
  BY <1>2, LenProperties
<1>6. QED
  BY <1>4, <1>5

LEMMA CreateMissionKeeps ==
  ASSUME MissionInv, CreateMission
  PROVE  MissionInv'
<1>1. Forward
  BY StepIsForward DEF Next, Requests
<1>2. PICK k \in Nat, calls \in Seq(CallSet) :
        /\ Spawn(Create, calls)
        /\ \A i \in DOMAIN calls :
             \/ i \in 1 .. k /\ calls[i].op = "add" /\ calls[i].task \in Tasks
             \/ calls[i].op \in {"begin", "drain"}
        /\ \A i \in 1 .. k : calls[i].op = "add"
  BY CreationCalls
<1>3. DOMAIN calls = 1 .. Len(calls) /\ Len(calls) \in Nat
  BY <1>2, LenProperties
<1>4. \A i \in DOMAIN calls : calls[i] \in CallSet
  BY <1>2, ElementOfSeq, <1>3
<1>5. \A i \in DOMAIN calls : CallOK(calls[i])' /\ CallerOK(Create, calls[i])
  BY <1>2, <1>4, PlainCallOK DEF TaskCalls, CallerOK, OwnCalls, Caller
<1>6. Grown(Create, calls)
  BY <1>2, <1>5, SpawnIsGrown, ThreadFacts
<1>7. /\ UNCHANGED <<taskVars, verdict, rstatus, orphans, repeated, overrides, cancels, restarts,
                     stale, twice, crossed>>
      /\ mission = "absent" /\ mission' = "created" /\ Idle(Startup)
  BY DEF CreateMission, runVars, faultVars, Serving
<1>8. /\ \A th \in Threads : Idle(th) \/ th = Startup
      /\ \A t \in Tasks : tstatus[t] = "absent" /\ gate[t] = "none" /\ Made(t) = {}
      /\ orphans = {}
  BY <1>7 DEF MissionInv, AbsentOK
<1>9. MissionTypeOK'
  BY <1>6, <1>7 DEF MissionInv, MissionTypeOK, Grown, taskVars, CallSet
<1>10. Known' = Known
  BY <1>7 DEF Known, taskVars
<1>11. CallsOK' /\ CallersKnown'
  BY <1>1, <1>6, <1>10, CallsStayOK, NewCallersKnown, ThreadFacts DEF MissionInv
<1>12. ASSUME NEW t \in Tasks
       PROVE  TaskOK(t)'
  <2>1. Made(t)' = Made(t)
    BY <1>7, SameRuns
  <2>2. QED
    BY <1>1, <1>7, <1>10, <2>1, TaskStaysOK DEF taskVars
<1>13. OrphansOK'
  BY <1>7, <1>8 DEF OrphansOK
<1>14. /\ todo'[Create] = calls
       /\ \A th \in Threads \ {Create} : todo'[th] = <<>>
  <2>1. todo' = [todo EXCEPT ![Create] = calls] /\ todo \in [Threads -> Seq(CallSet)]
    BY <1>2 DEF Spawn, MissionInv, MissionTypeOK, CallSet
  <2>2. \A th \in Threads : todo[th] = <<>>
    BY <1>7, <1>8 DEF Idle
  <2>3. QED
    BY <2>1, <2>2, ThreadFacts
<1>15. AddsFirst'
  BY <1>2, <1>3, <1>14 DEF AddsFirst
<1>16. NothingRuns'
  <2>1. \A t \in Tasks : Made(t)' = {} /\ tstatus'[t] = "absent" /\ gate'[t] = "none"
    BY <1>7, <1>8 DEF Made, taskVars
  <2>2. \A th \in Threads \ {Create} : DOMAIN todo'[th] = {}
    BY <1>14, NoCalls
  <2>3. \A i \in DOMAIN todo'[Create] : todo'[Create][i].op \in {"add", "begin", "drain"}
    BY <1>2, <1>14
  <2>4. QED
    BY <1>7, <2>1, <2>2, <2>3 DEF NothingRuns
<1>17. QED
  BY <1>7, <1>9, <1>11, <1>12, <1>13, <1>15, <1>16 DEF MissionInv, AddingOK, AbsentOK

LEMMA RestartKeeps ==
  ASSUME MissionInv, Restart
  PROVE  MissionInv'
<1>1. Forward
  BY StepIsForward DEF Next
<1> DEFINE c == Do("orphans")[1]
<1>2. /\ Do("orphans") \in Seq(CallSet) /\ DOMAIN Do("orphans") = {1}
      /\ c \in CallSet /\ c.op = "orphans"
  BY DoCall DEF Ops
<1>3. CallOK(c)' /\ CallerOK(Startup, c)
  BY <1>2, PlainCallOK DEF TaskCalls, CallerOK, Caller
<1>4. /\ restarts < MaxRestarts /\ restarts' = restarts + 1
      /\ mapped' = [t \in Tasks |-> IF trun[t] = 0 THEN {} ELSE {trun[t]}]
      /\ \A x \in orphans' : x \in (Tasks \ Remote) \X Nums /\ rstatus[x] \in {"queued", "running"}
      /\ todo' = [th \in Threads |-> IF th = Startup THEN Do("orphans") ELSE <<>>]
      /\ UNCHANGED <<mission, tstatus, trun, gate, judged, verdict, rstatus, repeated, overrides,
                     cancels, twice>>
      /\ stale' \subseteq stale \cup Tasks /\ crossed' = (crossed \/ Approving)
  BY DEF Restart
<1>5. /\ todo'[Startup] = Do("orphans") /\ \A th \in Threads \ {Startup} : todo'[th] = <<>>
      /\ todo' \in [Threads -> Seq(CallSet)]
  BY <1>2, <1>4, ThreadFacts, NoCalls
<1>6. \A t \in Tasks : mapped'[t] \subseteq mapped[t] /\ (trun[t] # 0 => mapped'[t] = {trun[t]})
                       /\ (trun[t] = 0 => mapped'[t] = {})
  BY <1>4 DEF MissionInv, TaskOK
<1>7. MissionTypeOK'
  <2>1. mapped' \in [Tasks -> SUBSET Nums]
    BY <1>4, <1>6 DEF MissionInv, MissionTypeOK
  <2>2. restarts' \in 0 .. MaxRestarts
    BY <1>4, MissionAssumption DEF MissionInv, MissionTypeOK
  <2>3. orphans' \subseteq Tasks \X Nums
    BY <1>4
  <2>4. QED
    BY <1>4, <1>5, <2>1, <2>2, <2>3 DEF MissionInv, MissionTypeOK, CallSet
<1>8. CallsOK'
  <2>1. ASSUME NEW e \in CallSet, Pushed(e)'
        PROVE  e = c
    <3>1. PICK th \in Threads : \E i \in DOMAIN todo'[th] : todo'[th][i] = e
      BY <2>1 DEF Pushed
    <3>2. QED
      BY <1>2, <1>5, <3>1, NoCalls
  <2>2. QED
    BY <1>3, <2>1 DEF CallsOK
<1>9. CallersKnown'
  BY <1>2, <1>3, <1>5, NoCalls DEF CallersKnown, CallerOK
<1>10. ASSUME NEW t \in Tasks
       PROVE  TaskOK(t)'
  <2>1. Made(t)' = Made(t) /\ TaskOK(t)
    BY <1>4, SameRuns DEF MissionInv
  <2>2. (HasCompleted(t) => HasCompleted(t)') /\ (MayRun(t) => MayRun(t)')
    BY <1>1, ClearedStays
  <2>3. QED
    BY <1>4, <1>6, <2>1, <2>2 DEF TaskOK
<1>11. (mission = "completed" => AllHaveCompleted)'
  BY <1>4 DEF MissionInv, AllHaveCompleted, Known, HasCompleted
<1>12. OrphansOK'
  <2>1. Idle(Cancel)' /\ \E i \in DOMAIN todo'[Startup] : todo'[Startup][i].op = "orphans"
    BY <1>2, <1>5, ThreadFacts, ThreadsDiffer DEF Idle
  <2>2. \A x \in orphans' : rstatus'[x] \in {"queued", "running"} /\ x[1] \notin Remote
    BY <1>4
  <2>3. QED
    BY <2>1, <2>2 DEF OrphansOK
<1>13. AddingOK'
  BY <1>5, NoCalls, ThreadFacts, ThreadsDiffer DEF AddingOK, AddsFirst, Adding
<1>14. AbsentOK'
  <2>1. ASSUME mission = "absent"
        PROVE  /\ \A t \in Tasks : tstatus'[t] = "absent" /\ gate'[t] = "none" /\ Made(t)' = {}
               /\ orphans' = {}
    <3>1. \A t \in Tasks : tstatus[t] = "absent" /\ gate[t] = "none" /\ Made(t) = {}
      BY <2>1 DEF MissionInv, AbsentOK
    <3>2. \A t \in Tasks, n \in Nums : rstatus[<<t, n>>] = "none"
      BY <3>1 DEF Made
    <3>3. \A t \in Tasks : Made(t)' = {}
      BY <1>4, <3>1, SameRuns
    <3>4. QED
      BY <1>4, <3>1, <3>2, <3>3
  <2>2. /\ \A th \in Threads \ {Startup} : Idle(th)'
        /\ \A i \in DOMAIN todo'[Startup] : todo'[Startup][i].op \in {"orphans", "reconcile"}
    BY <1>2, <1>5 DEF Idle
  <2>3. QED
    BY <1>4, <2>1, <2>2 DEF AbsentOK
<1>15. QED
  BY <1>7, <1>8, <1>9, <1>10, <1>11, <1>12, <1>13, <1>14 DEF MissionInv

LEMMA InitMissionInv ==
  ASSUME Init
  PROVE  MissionInv
<1>1. /\ todo \in [Threads -> Seq(CallSet)] /\ \A th \in Threads : todo[th] = <<>> /\ DOMAIN todo[th] = {}
  BY NoCalls DEF Init
<1>2. \A t \in Tasks : Made(t) = {}
  BY DEF Init, Made
<1>3. MissionTypeOK
  <2>1. 0 \in 0 .. MaxRuns /\ 0 \in 0 .. MaxOverrides /\ 0 \in 0 .. MaxCancels /\ 0 \in 0 .. MaxRestarts
    BY MissionAssumption
  <2>2. stale \subseteq Tasks /\ twice \subseteq Tasks /\ crossed \in BOOLEAN
    BY DEF Init
  <2>3. QED
    BY <1>1, <2>1, <2>2 DEF Init, MissionTypeOK, CallSet, TaskStatuses
<1>4. CallsOK /\ CallersKnown
  BY <1>1 DEF CallsOK, CallersKnown, Pushed
<1>5. \A t \in Tasks : TaskOK(t)
  BY <1>2 DEF TaskOK, Init
<1>6. mission # "completed" /\ OrphansOK
  BY DEF Init, OrphansOK
<1>7. AddingOK
  BY <1>1, ThreadFacts DEF AddingOK, AddsFirst, Adding
<1>8. AbsentOK
  BY <1>1, <1>2, ThreadFacts DEF AbsentOK, Init, Idle
<1>9. QED
  BY <1>3, <1>4, <1>5, <1>6, <1>7, <1>8 DEF MissionInv

LEMMA StutterKeeps ==
  ASSUME MissionInv, UNCHANGED vars
  PROVE  MissionInv'
<1> USE DEF vars, taskVars, runVars, faultVars
<1>1. MissionTypeOK' /\ CallersKnown'
  BY DEF MissionInv, MissionTypeOK, CallersKnown, CallerOK
<1>2. \A t \in Tasks : Made(t)' = Made(t) /\ HasCompleted(t)' = HasCompleted(t)
  BY DEF Made, HasCompleted
<1>3. Forward /\ Known' = Known
  BY DEF Forward, Known
<1>4. ASSUME NEW c \in CallSet, Pushed(c)'
      PROVE  CallOK(c)'
  <2>1. Pushed(c)
    BY <1>4 DEF Pushed
  <2>2. QED
    BY <1>3, <2>1, CallStaysOK DEF MissionInv, CallsOK
<1>5. ASSUME NEW t \in Tasks
      PROVE  TaskOK(t)'
  BY <1>2, <1>3, TaskStaysOK
<1>6. (mission = "completed" => AllHaveCompleted)'
  BY <1>2 DEF MissionInv, AllHaveCompleted, Known
<1>7. OrphansOK'
  BY DEF MissionInv, OrphansOK, Idle
<1>8. AddingOK'
  BY <1>2 DEF MissionInv, AddingOK, AddsFirst, Adding, NothingRuns
<1>9. AbsentOK'
  BY <1>2 DEF MissionInv, AbsentOK, Idle
<1>10. QED
  BY <1>1, <1>4, <1>5, <1>6, <1>7, <1>8, <1>9 DEF MissionInv, CallsOK

LEMMA MissionInvHolds == Spec => []MissionInv
<1>1. Init => MissionInv
  BY InitMissionInv
<1>2. MissionInv /\ [Next]_vars => MissionInv'
  <2>1. SUFFICES ASSUME MissionInv, [Next]_vars
                 PROVE  MissionInv'
    OBVIOUS
  <2>2. CASE Requests
    BY <2>1, <2>2, CreateMissionKeeps, RequestCancelKeeps, RequestOverrideKeeps DEF Requests
  <2>3. CASE Restart
    BY <2>1, <2>3, RestartKeeps
  <2>4. CASE \E th \in Threads : Work(th)
    BY <2>1, <2>4, WorkKeepsMissionInv
  <2>5. CASE \E t \in Tasks, n \in Nums : RunGoesOn(t, n)
    BY <2>1, <2>5, EventKeeps
  <2>6. CASE UNCHANGED vars
    BY <2>1, <2>6, StutterKeeps
  <2>7. QED
    BY <2>1, <2>2, <2>3, <2>4, <2>5, <2>6 DEF Next
<1>3. QED
  BY <1>1, <1>2, PTL DEF Spec
-----------------------------------------------------------------------------
(* Every variable keeps its type, and a thread's calls are calls the code  *)
(* makes: whatever the tasks, the gates, the restarts and the order in     *)
(* which threads go on.                                                    *)
THEOREM MissionTypes == Spec => []MissionTypeOK
<1>1. MissionInv => MissionTypeOK
  BY DEF MissionInv
<1>2. QED
  BY <1>1, MissionInvHolds, PTL

(* A run is made for a task (create_run, called by _start_task) only after *)
(* a run of each task it depends on completed, and if that task is a gate, *)
(* after its artifact was read and let work pass or an operator approved:  *)
(* with any number of threads in _claim_ready_tasks, across cancellations, *)
(* approvals and restarts.                                                 *)
THEOREM DependenciesComeFirst == Spec => []DependenciesFirst
<1>1. ASSUME MissionInv, NEW t \in Tasks, NEW d \in Deps[t], Made(t) # {}
      PROVE  /\ \E n \in Nums : rstatus[<<d, n>>] = "completed"
             /\ d \in Gated => (d \in judged /\ verdict[d] = "open") \/ overrides > 0
  BY <1>1 DEF MissionInv, TaskOK, MayRun, Cleared, HasCompleted
<1>2. MissionInv => DependenciesFirst
  BY <1>1 DEF DependenciesFirst
<1>3. QED
  BY <1>2, MissionInvHolds, PTL

(* When a mission is completed (_complete_if_done and the mission.completed *)
(* that follows it later), each of its tasks has a run that completed,      *)
(* whatever cancelled, blocked, resumed or restarted the mission meanwhile. *)
THEOREM CompletedMissionIsDone == Spec => []CompletedIsDone
<1>1. MissionInv => CompletedIsDone
  BY DEF MissionInv, AllHaveCompleted, HasCompleted, CompletedIsDone
<1>2. QED
  BY <1>1, MissionInvHolds, PTL
=============================================================================
