---------------------------- MODULE ConsoleProofs ----------------------------
(***************************************************************************)
(* What the pages of the console show of an operation, and what becomes of *)
(* a decision, for any number of operations, changes made elsewhere, lost  *)
(* answers and restarts.                                                   *)
(***************************************************************************)
EXTENDS Console, SequenceTheorems, FiniteSetTheorems, WellFoundedInduction, TLAPS

Stages == {"sent", "answered", "accepted", "settling", "over"}

CallRecords ==
  [stage : Stages, decision : Decisions \cup {NoDecision},
   from : {"here", "replaced", "left"}, ok : BOOLEAN, clean : BOOLEAN,
   mark : Nat, step : Nat, wait : SUBSET Keys]

Refreshes == Operations[op].refreshes

(* What an operation refreshes is a sequence of sets of queries.           *)
LEMMA RefreshesAreSequences ==
  ASSUME NEW o \in DOMAIN Operations
  PROVE  /\ Len(Operations[o].refreshes) \in Nat
         /\ DOMAIN Operations[o].refreshes = 1 .. Len(Operations[o].refreshes)
<1> DEFINE Fine(x) == Len(x.refreshes) \in Nat /\ DOMAIN x.refreshes = 1 .. Len(x.refreshes)
<1>1. Fine(CreateRunForm) /\ Fine(CancelRun) /\ Fine(PermissionPanel) /\ Fine(DrainWorker)
  BY DEF CreateRunForm, CancelRun, PermissionPanel, DrainWorker
<1>2. Fine(ResumeWorker) /\ Fine(RetryWorkerRuns) /\ Fine(WorkerRegistrationForm)
  BY DEF ResumeWorker, DrainWorker, RetryWorkerRuns, WorkerRegistrationForm
<1>3. Fine(CreateMissionForm) /\ Fine(CancelMission) /\ Fine(OverrideReviewGate)
  BY DEF CreateMissionForm, CancelMission, OverrideReviewGate
<1>4. Fine(ProfileEditor) /\ Fine(CreateProject) /\ Fine(CreateToken) /\ Fine(ApiTokenList)
  BY DEF ProfileEditor, CreateProject, CreateToken, ApiTokenList
<1>5. Fine(CreateBackup) /\ Fine(RunDrills) /\ Fine(LoginPage) /\ Fine(SignOutButton)
  BY DEF CreateBackup, RunDrills, LoginPage, SignOutButton
<1> HIDE DEF Fine
<1>6. Fine(Operations[o])
  BY <1>1, <1>2, <1>3, <1>4, <1>5 DEF Operations
<1>7. QED
  BY <1>6 DEF Fine

-----------------------------------------------------------------------------
(* The queries: an answer on its way is not older than the one shown, and  *)
(* neither is newer than the server.                                       *)
QueriesOK ==
  /\ ver \in Nat
  /\ cached \in [Keys -> Nat] /\ flight \in [Keys -> Nat]
  /\ \A k \in Keys : cached[k] <= ver /\ flight[k] <= ver
  /\ \A k \in Keys : flight[k] # 0 => cached[k] <= flight[k]

(* Deciding a permission is about no query.                                *)
OperationOK == op \in DOMAIN Operations /\ (Deciding => Keys = {})

(* The query k shows what the call c did, or will when c goes on.          *)
Refreshing(c, k) == cached[k] >= c.mark \/ (k \in c.wait /\ flight[k] >= c.mark)

CallOK(c) ==
  /\ c.mark <= ver
  /\ c.step \in 0 .. Len(Refreshes)
  /\ c.stage \in {"sent", "answered", "accepted"} => c.step = 0 /\ c.wait = {}
  /\ c.stage = "over" => c.wait = {}
  /\ c.stage = "over" /\ c.ok => c.step = Len(Refreshes) \/ Deciding
  /\ c.ok /\ c.clean =>
       \A j \in 1 .. c.step : \A k \in Keys \cap Refreshes[j] : Refreshing(c, k)

ConsoleInv ==
  /\ OperationOK /\ QueriesOK
  /\ calls \in Seq(CallRecords)
  /\ \A i \in DOMAIN calls : CallOK(calls[i])

(* An operation that is over has refreshed all it was to refresh.          *)
LEMMA InvShows == ConsoleInv => OwnWritesAreShown
<1> SUFFICES ASSUME ConsoleInv, NEW i \in DOMAIN calls,
                    calls[i].stage = "over", calls[i].ok, calls[i].clean,
                    NEW k \in Keys \cap Operations[op].changes \cap Refreshed(op)
             PROVE  cached[k] >= calls[i].mark
  BY DEF OwnWritesAreShown
<1>1. PICK j \in DOMAIN Refreshes : k \in Refreshes[j]
  BY DEF Refreshed, Refreshes
<1>2. DOMAIN Refreshes = 1 .. Len(Refreshes)
  BY RefreshesAreSequences DEF ConsoleInv, OperationOK, Refreshes
<1>3. calls[i].step = Len(Refreshes) /\ calls[i].wait = {}
  BY DEF ConsoleInv, OperationOK, CallOK
<1>4. Refreshing(calls[i], k)
  BY <1>1, <1>2, <1>3 DEF ConsoleInv, CallOK
<1>5. QED
  BY <1>3, <1>4 DEF Refreshing

-----------------------------------------------------------------------------
(* How the queries may change: what is shown is never older than before.   *)
QueriesGoOn ==
  /\ op' = op /\ QueriesOK' /\ Keys' = Keys /\ ver <= ver'
  /\ \A k \in Keys : cached[k] <= cached'[k]

(* A call that is what it was, as far as refreshing goes, stays in order   *)
(* if what it waits for comes, or has come, no earlier.                    *)
LEMMA CallGoesOn ==
  ASSUME ConsoleInv, QueriesGoOn, NEW c \in CallRecords, NEW d \in CallRecords, CallOK(c),
         d.ok => c.ok, d.clean => c.clean, d.mark = c.mark, d.step = c.step,
         d.wait \subseteq c.wait,
         \/ d.stage = c.stage
         \/ d.stage # "over"
             /\ (d.stage \in {"answered", "accepted"} => c.stage \in {"sent", "answered"})
             /\ d.stage # "sent"
         \/ d.stage = "over" /\ c.wait = {}
             /\ (d.ok => c.step = Len(Refreshes) \/ Deciding),
         d.ok /\ d.clean =>
           \A k \in c.wait : \/ k \in d.wait /\ flight[k] <= flight'[k]
                             \/ flight[k] <= cached'[k]
  PROVE  CallOK(d)'
<1>1. Refreshes' = Refreshes /\ (Deciding' <=> Deciding)
  BY DEF QueriesGoOn, Refreshes, Deciding
<1>2. /\ d.mark <= ver'
      /\ d.step \in 0 .. Len(Refreshes)
  BY DEF QueriesGoOn, QueriesOK, ConsoleInv, CallOK, CallRecords
<1>3. /\ d.stage \in {"sent", "answered", "accepted"} => d.step = 0 /\ d.wait = {}
      /\ d.stage = "over" => d.wait = {}
      /\ d.stage = "over" /\ d.ok => d.step = Len(Refreshes) \/ Deciding
  BY DEF CallOK
<1>4. ASSUME d.ok, d.clean, NEW j \in 1 .. d.step, NEW k \in Keys \cap Refreshes[j]
      PROVE  Refreshing(d, k)'
  <2>1. Refreshing(c, k)
    BY <1>4 DEF CallOK
  <2>2. {cached[k], cached'[k], flight[k], flight'[k], c.mark} \subseteq Nat
    BY DEF QueriesGoOn, QueriesOK, ConsoleInv, CallRecords
  <2>3. cached'[k] >= c.mark \/ (k \in d.wait /\ flight'[k] >= c.mark)
    BY <1>4, <2>1, <2>2 DEF Refreshing, QueriesGoOn
  <2>4. QED
    BY <2>3 DEF Refreshing
<1>5. Keys' = Keys
  BY DEF QueriesGoOn
<1>6. QED
  BY <1>1, <1>2, <1>3, <1>4, <1>5 DEF CallOK

(* Every call of the step is in order, and with it the tab.                *)
LEMMA CallsGoOn ==
  ASSUME ConsoleInv, QueriesGoOn, calls' \in Seq(CallRecords),
         \A i \in DOMAIN calls' : \A d : d = calls'[i] => CallOK(d)'
  PROVE  ConsoleInv'
<1>1. OperationOK'
  BY DEF ConsoleInv, OperationOK, QueriesGoOn, Deciding
<1>2. CallRecords' = CallRecords
  BY DEF CallRecords, QueriesGoOn
<1>3. ASSUME NEW i \in DOMAIN calls'
      PROVE  CallOK(calls[i])'
  <2>1. PICK d : d = calls'[i]
    OBVIOUS
  <2>2. CallOK(d)'
    BY <2>1, <1>3
  <2>3. QED
    BY <2>1, <2>2 DEF CallOK, Refreshing
<1>4. QED
  BY <1>1, <1>2, <1>3 DEF ConsoleInv, QueriesGoOn

(* A step that leaves the calls as they are.                               *)
LEMMA QueryStep ==
  ASSUME ConsoleInv, QueriesGoOn, calls' = calls,
         \A k \in Keys : flight[k] <= flight'[k]
  PROVE  ConsoleInv'
<1>1. ASSUME NEW i \in DOMAIN calls, NEW d, d = calls[i]
      PROVE  CallOK(d)'
  <2>1. d \in CallRecords /\ CallOK(d)
    BY <1>1 DEF ConsoleInv
  <2>2. d.wait \subseteq Keys
    BY <2>1 DEF CallRecords
  <2>3. QED
    BY <2>1, <2>2, CallGoesOn
<1>2. QED
  BY <1>1, CallsGoOn DEF ConsoleInv

(* A step of one call.                                                     *)
LEMMA CallStep ==
  ASSUME ConsoleInv, QueriesGoOn, NEW i \in DOMAIN calls, NEW c \in CallRecords,
         calls' = [calls EXCEPT ![i] = c], CallOK(c)',
         \A k \in Keys : flight[k] <= flight'[k]
  PROVE  ConsoleInv'
<1>1. calls' \in Seq(CallRecords) /\ DOMAIN calls' = DOMAIN calls
  BY ExceptSeq DEF ConsoleInv
<1>2. ASSUME NEW j \in DOMAIN calls, NEW d, d = calls'[j]
      PROVE  CallOK(d)'
  <2>1. CASE j = i
    <3>1. d = c
      BY <1>2, <2>1 DEF ConsoleInv
    <3>2. QED
      BY <3>1
  <2>2. CASE j # i
    <3>1. d = calls[j]
      BY <1>2, <2>2 DEF ConsoleInv
    <3>2. d \in CallRecords /\ CallOK(d)
      BY <3>1 DEF ConsoleInv
    <3>3. d.wait \subseteq Keys
      BY <3>2 DEF CallRecords
    <3>4. QED
      BY <3>2, <3>3, CallGoesOn
  <2>3. QED
    BY <2>1, <2>2
<1>3. QED
  BY <1>1, <1>2, CallsGoOn
-----------------------------------------------------------------------------
(* The queries of a page.                                                  *)
LEMMA KeysStay ==
  ASSUME QueriesOK, cached' \in [Keys -> Nat]
  PROVE  Keys' = Keys
BY DEF Keys

LEMMA SameQueries ==
  ASSUME ConsoleInv, op' = op, cached' = cached, flight' = flight,
         ver' \in Nat, ver <= ver'
  PROVE  QueriesGoOn /\ \A k \in Keys : flight[k] <= flight'[k]
<1>1. Keys' = Keys
  BY DEF Keys
<1>2. QueriesOK'
  BY <1>1 DEF ConsoleInv, QueriesOK
<1>3. QED
  BY <1>1, <1>2 DEF ConsoleInv, QueriesOK, QueriesGoOn

(* Every fetch that is begun is read from the server as it is now.         *)
LEMMA FetchedNow ==
  ASSUME ConsoleInv, UNCHANGED <<op, ver, cached>>,
         flight' \in [Keys -> Nat],
         \A k \in Keys : flight'[k] \in {flight[k], ver}
  PROVE  QueriesGoOn /\ \A k \in Keys : flight[k] <= flight'[k]
<1>1. Keys' = Keys
  BY DEF Keys
<1>2. ASSUME NEW k \in Keys
      PROVE  /\ flight[k] <= flight'[k] /\ flight'[k] <= ver
             /\ cached[k] <= ver /\ cached[k] <= cached[k]
             /\ flight'[k] # 0 => cached[k] <= flight'[k]
  <2>1. {cached[k], flight[k], ver} \subseteq Nat
    BY DEF ConsoleInv, QueriesOK
  <2>2. flight'[k] = flight[k] \/ flight'[k] = ver
    OBVIOUS
  <2>3. QED
    BY <2>1, <2>2 DEF ConsoleInv, QueriesOK
<1>3. QueriesOK'
  BY <1>1, <1>2 DEF ConsoleInv, QueriesOK
<1>4. QED
  BY <1>1, <1>2, <1>3 DEF ConsoleInv, QueriesOK, QueriesGoOn

LEMMA RefetchedNow ==
  ASSUME ConsoleInv, NEW S, flight' = Refetched(S)
  PROVE  /\ flight' \in [Keys -> Nat]
         /\ \A k \in Keys : flight'[k] \in {flight[k], ver}
         /\ \A k \in Keys \cap S : flight'[k] = ver \/ k \in FirstLoads(S)
BY DEF ConsoleInv, QueriesOK, Refetched, Joined

LEMMA PollKeeps ==
  ASSUME ConsoleInv, NEW k \in Keys, Poll(k)
  PROVE  ConsoleInv'
<1>1. UNCHANGED <<op, ver, cached, calls>> /\ flight' = [flight EXCEPT ![k] = ver]
  BY DEF Poll, serverVars
<1>2. /\ flight' \in [Keys -> Nat]
      /\ \A q \in Keys : flight'[q] \in {flight[q], ver}
  BY <1>1 DEF ConsoleInv, QueriesOK
<1>3. QED
  BY <1>1, <1>2, FetchedNow, QueryStep

LEMMA RefreshKeeps ==
  ASSUME ConsoleInv, RefreshButton
  PROVE  ConsoleInv'
<1>1. UNCHANGED <<op, ver, cached, calls>> /\ flight' = Refetched({Subject})
  BY DEF RefreshButton, serverVars
<1>2. QED
  BY <1>1, RefetchedNow, FetchedNow, QueryStep

LEMMA CallIsOK ==
  ASSUME ConsoleInv, NEW i \in DOMAIN calls, NEW c, c = calls[i]
  PROVE  c \in CallRecords /\ CallOK(c) /\ c.wait \subseteq Keys
<1>1. c \in CallRecords /\ CallOK(c)
  BY DEF ConsoleInv
<1>2. QED
  BY <1>1 DEF CallRecords

(* The calls that waited for a fetch go on.                                *)
LEMMA ArrivedCalls ==
  ASSUME ConsoleInv, NEW k \in Keys, NEW ok \in BOOLEAN, NEW i \in DOMAIN calls
  PROVE  LET d == Arrived(k, ok)[i]
         IN  /\ d \in CallRecords /\ d.stage = calls[i].stage /\ d.ok = calls[i].ok
             /\ d.decision = calls[i].decision /\ d.from = calls[i].from
             /\ d.clean = (calls[i].clean /\ (k \in calls[i].wait => ok))
             /\ d.mark = calls[i].mark /\ d.step = calls[i].step
             /\ d.wait = calls[i].wait \ {k}
<1>1. calls[i] \in CallRecords
  BY DEF ConsoleInv
<1>2. CASE k \in calls[i].wait
  <2>1. Arrived(k, ok)[i] = [calls[i] EXCEPT !.wait = @ \ {k}, !.clean = @ /\ ok]
    BY <1>2 DEF Arrived
  <2>2. PICK d : d = Arrived(k, ok)[i]
    OBVIOUS
  <2>3. PICK c : c = calls[i]
    OBVIOUS
  <2>4. c \in CallRecords /\ d = [c EXCEPT !.wait = @ \ {k}, !.clean = @ /\ ok]
    BY <1>1, <2>1, <2>2, <2>3
  <2>5. /\ d \in CallRecords /\ d.stage = c.stage /\ d.decision = c.decision /\ d.from = c.from
        /\ d.ok = c.ok /\ d.clean = (c.clean /\ ok) /\ d.mark = c.mark
        /\ d.step = c.step /\ d.wait = c.wait \ {k}
    BY <2>4 DEF CallRecords
  <2>6. d.clean = (c.clean /\ (k \in c.wait => ok))
    BY <1>2, <2>3, <2>5
  <2>7. QED
    BY <2>2, <2>3, <2>5, <2>6
<1>3. CASE k \notin calls[i].wait
  <2>1. Arrived(k, ok)[i] = calls[i]
    BY <1>3 DEF Arrived
  <2>2. calls[i].wait \ {k} = calls[i].wait /\ calls[i].clean \in BOOLEAN
    BY <1>1, <1>3 DEF CallRecords
  <2>3. QED
    BY <1>1, <1>3, <2>1, <2>2
<1>4. QED
  BY <1>2, <1>3

LEMMA ArrivedSeq ==
  ASSUME ConsoleInv, NEW k \in Keys, NEW ok \in BOOLEAN
  PROVE  /\ Arrived(k, ok) \in Seq(CallRecords)
         /\ DOMAIN Arrived(k, ok) = DOMAIN calls
<1>1. DOMAIN Arrived(k, ok) = 1 .. Len(calls) /\ Len(calls) \in Nat
  BY DEF ConsoleInv, Arrived
<1>2. \A i \in 1 .. Len(calls) : Arrived(k, ok)[i] \in CallRecords
  BY ArrivedCalls DEF ConsoleInv
<1>3. Arrived(k, ok) = [i \in 1 .. Len(calls) |-> Arrived(k, ok)[i]]
  BY <1>1 DEF Arrived
<1>4. QED
  BY <1>1, <1>2, <1>3, IsASeq DEF ConsoleInv

LEMMA ReceiveKeeps ==
  ASSUME ConsoleInv, NEW k \in Keys, Receive(k)
  PROVE  ConsoleInv'
<1>1. /\ UNCHANGED <<op, ver>> /\ calls' = Arrived(k, TRUE) /\ flight[k] # 0
      /\ cached' = [cached EXCEPT ![k] = flight[k]]
      /\ flight' = [flight EXCEPT ![k] = 0]
  BY DEF Receive, serverVars
<1>2. cached' \in [Keys -> Nat] /\ flight' \in [Keys -> Nat]
  BY <1>1 DEF ConsoleInv, QueriesOK
<1>3. Keys' = Keys
  BY <1>2, KeysStay DEF ConsoleInv
<1>4. QueriesGoOn
  BY <1>1, <1>2, <1>3 DEF ConsoleInv, QueriesOK, QueriesGoOn
<1>5. ASSUME NEW i \in DOMAIN calls, NEW d, d = calls'[i]
      PROVE  CallOK(d)'
  <2>1. PICK c : c = calls[i]
    OBVIOUS
  <2>2. c \in CallRecords /\ CallOK(c) /\ c.wait \subseteq Keys
    BY <2>1, CallIsOK
  <2>3. /\ d \in CallRecords /\ d.stage = c.stage /\ d.ok = c.ok
        /\ d.clean => c.clean
        /\ d.mark = c.mark /\ d.step = c.step /\ d.wait = c.wait \ {k}
    BY <1>1, <1>5, <2>1, ArrivedCalls
  <2>4. \A q \in c.wait : \/ q \in d.wait /\ flight[q] <= flight'[q]
                          \/ flight[q] <= cached'[q]
    BY <1>1, <2>2, <2>3 DEF ConsoleInv, QueriesOK
  <2>5. QED
    BY <1>4, <2>2, <2>3, <2>4, CallGoesOn
<1>6. QED
  BY <1>1, <1>4, <1>5, ArrivedSeq, CallsGoOn

LEMMA FailFetchKeeps ==
  ASSUME ConsoleInv, NEW k \in Keys, FailFetch(k)
  PROVE  ConsoleInv'
<1>1. /\ UNCHANGED <<op, ver, cached>> /\ calls' = Arrived(k, FALSE)
      /\ flight' = [flight EXCEPT ![k] = 0]
  BY DEF FailFetch, serverVars
<1>2. flight' \in [Keys -> Nat] /\ Keys' = Keys
  BY <1>1 DEF ConsoleInv, QueriesOK, Keys
<1>3. QueriesGoOn
  BY <1>1, <1>2 DEF ConsoleInv, QueriesOK, QueriesGoOn
<1>4. ASSUME NEW i \in DOMAIN calls, NEW d, d = calls'[i]
      PROVE  CallOK(d)'
  <2>1. PICK c : c = calls[i]
    OBVIOUS
  <2>2. c \in CallRecords /\ CallOK(c) /\ c.wait \subseteq Keys
    BY <2>1, CallIsOK
  <2>3. /\ d \in CallRecords /\ d.stage = c.stage /\ d.ok = c.ok
        /\ d.clean => c.clean /\ k \notin c.wait
        /\ d.mark = c.mark /\ d.step = c.step /\ d.wait = c.wait \ {k}
    BY <1>1, <1>4, <2>1, ArrivedCalls
  <2>4. d.ok /\ d.clean => \A q \in c.wait : q \in d.wait /\ flight[q] <= flight'[q]
    BY <1>1, <2>2, <2>3 DEF ConsoleInv, QueriesOK
  <2>5. QED
    BY <1>3, <2>2, <2>3, <2>4, CallGoesOn
<1>5. QED
  BY <1>1, <1>3, <1>4, ArrivedSeq, CallsGoOn
-----------------------------------------------------------------------------
(* The operation.                                                          *)

(* A step of the server or of anybody who leaves the tab alone.            *)
LEMMA ElsewhereKeeps ==
  ASSUME ConsoleInv, UNCHANGED <<op, cached, flight, calls>>,
         ver' = ver \/ ver' = ver + 1
  PROVE  ConsoleInv'
<1>1. ver' \in Nat /\ ver <= ver'
  BY DEF ConsoleInv, QueriesOK
<1>2. QED
  BY <1>1, SameQueries, QueryStep

LEMMA PressKeeps ==
  ASSUME ConsoleInv, NEW decision \in Decisions \cup {NoDecision}, Press(decision)
  PROVE  ConsoleInv'
<1> DEFINE new == [stage |-> "sent", decision |-> decision, from |-> "here", ok |-> TRUE,
                   clean |-> TRUE, mark |-> 0, step |-> 0, wait |-> {}]
<1>1. UNCHANGED <<op, ver, cached, flight>> /\ calls' = Append(calls, new)
  BY DEF Press, serverVars
<1>2. QueriesGoOn /\ \A k \in Keys : flight[k] <= flight'[k]
  BY <1>1, SameQueries DEF ConsoleInv, QueriesOK
<1>3. new \in CallRecords
  BY DEF CallRecords, Stages
<1>4. /\ calls' \in Seq(CallRecords) /\ DOMAIN calls' = 1 .. Len(calls) + 1
      /\ \A i \in 1 .. Len(calls) : calls'[i] = calls[i]
      /\ calls'[Len(calls) + 1] = new
  BY <1>1, <1>3, AppendProperties DEF ConsoleInv
<1>5. ASSUME NEW i \in DOMAIN calls', NEW d, d = calls'[i]
      PROVE  CallOK(d)'
  <2>1. CASE i \in DOMAIN calls
    <3>1. d = calls[i]
      BY <1>4, <1>5, <2>1 DEF ConsoleInv
    <3>2. d \in CallRecords /\ CallOK(d) /\ d.wait \subseteq Keys
      BY <2>1, <3>1, CallIsOK
    <3>3. QED
      BY <1>2, <3>2, CallGoesOn
  <2>2. CASE i \notin DOMAIN calls
    <3>1. d = new
      BY <1>4, <1>5, <2>2 DEF ConsoleInv
    <3>2. /\ d.stage = "sent" /\ d.mark = 0 /\ d.step = 0 /\ d.wait = {}
      BY <3>1
    <3>3. Len(Refreshes)' \in Nat /\ ver' \in Nat
      BY <1>1, RefreshesAreSequences DEF ConsoleInv, OperationOK, QueriesOK, Refreshes
    <3>4. QED
      BY <3>2, <3>3 DEF CallOK
  <2>3. QED
    BY <2>1, <2>2
<1>6. QED
  BY <1>2, <1>4, <1>5, CallsGoOn

(* What the server does, or the cookie.                                    *)
LEMMA EffectKeeps ==
  ASSUME ConsoleInv, NEW i \in DOMAIN calls, UNCHANGED <<op, cached, flight>>,
         NEW stage \in {"answered", "accepted"}, Effect(i, stage),
         calls[i].stage \in {"sent", "answered"}
  PROVE  ConsoleInv'
<1>1. PICK c : c = calls[i]
  OBVIOUS
<1>2. PICK d : d = [c EXCEPT !.stage = stage, !.mark = ver + 1]
  OBVIOUS
<1>3. c \in CallRecords /\ CallOK(c) /\ c.wait \subseteq Keys
  BY <1>1, CallIsOK
<1>4. calls' = [calls EXCEPT ![i] = d] /\ ver' = ver + 1
  BY <1>1, <1>2 DEF Effect, Update
<1>5. ver \in Nat /\ ver + 1 \in Nat /\ stage \in Stages
  BY DEF ConsoleInv, QueriesOK, Stages
<1>6. /\ d \in CallRecords /\ d.stage = stage /\ d.mark = ver + 1
      /\ d.step = c.step /\ d.wait = c.wait
  BY <1>2, <1>3, <1>5 DEF CallRecords
<1>7. c.step = 0 /\ c.wait = {}
  BY <1>1, <1>3 DEF CallOK
<1>8. QueriesGoOn /\ \A k \in Keys : flight[k] <= flight'[k]
  BY <1>4, <1>5, SameQueries
<1>9. CallOK(d)'
  <2>1. Len(Refreshes)' \in Nat
    BY RefreshesAreSequences DEF ConsoleInv, OperationOK, Refreshes
  <2>2. QED
    BY <1>4, <1>5, <1>6, <1>7, <2>1 DEF CallOK
<1>10. QED
  BY <1>4, <1>6, <1>8, <1>9, CallStep

(* A call goes on to another stage without an effect on the server.        *)
LEMMA StageKeeps ==
  ASSUME ConsoleInv, NEW i \in DOMAIN calls, UNCHANGED <<op, ver, cached, flight>>,
         NEW c, c = calls[i], NEW d \in CallRecords, calls' = [calls EXCEPT ![i] = d],
         d.ok => c.ok, d.clean => c.clean, d.mark = c.mark, d.step = c.step, d.wait = c.wait,
         \/ d.stage = "answered" /\ c.stage = "sent"
         \/ d.stage = "settling"
         \/ d.stage = "over" /\ c.wait = {}
             /\ (d.ok => c.step = Len(Refreshes) \/ Deciding)
  PROVE  ConsoleInv'
<1>1. c \in CallRecords /\ CallOK(c) /\ c.wait \subseteq Keys
  BY CallIsOK
<1>2. QueriesGoOn /\ \A k \in Keys : flight[k] <= flight'[k]
  BY SameQueries DEF ConsoleInv, QueriesOK
<1>3. CallOK(d)'
  BY <1>1, <1>2, CallGoesOn
<1>4. QED
  BY <1>2, <1>3, CallStep

LEMMA ServeKeeps ==
  ASSUME ConsoleInv, NEW i \in DOMAIN calls, Serve(i) \/ TakeCookie(i)
  PROVE  ConsoleInv'
<1>1. UNCHANGED <<op, cached, flight>>
  BY DEF Serve, TakeCookie
<1>2. CASE TakeCookie(i)
  BY <1>1, <1>2, EffectKeeps DEF TakeCookie
<1>3. CASE Serve(i) /\ ~Is("cookie")
  BY <1>1, <1>3, EffectKeeps DEF Serve
<1>4. CASE Serve(i) /\ Is("cookie")
  <2>1. PICK c : c = calls[i]
    OBVIOUS
  <2>2. PICK d : d = [c EXCEPT !.stage = "answered"]
    OBVIOUS
  <2>3. c \in CallRecords /\ c.stage = "sent" /\ "answered" \in Stages
    BY <1>4, <2>1 DEF ConsoleInv, Serve, Stages
  <2>4. ver' = ver /\ calls' = [calls EXCEPT ![i] = d]
    BY <1>4, <2>1, <2>2 DEF Serve, Update
  <2>5. /\ d \in CallRecords /\ d.stage = "answered"
        /\ d.ok = c.ok /\ d.clean = c.clean /\ d.mark = c.mark
        /\ d.step = c.step /\ d.wait = c.wait
    BY <2>2, <2>3 DEF CallRecords
  <2>6. QED
    BY <1>1, <2>1, <2>3, <2>4, <2>5, StageKeeps
<1>5. QED
  BY <1>2, <1>3, <1>4

LEMMA EndKeeps ==
  ASSUME ConsoleInv, NEW i \in DOMAIN calls,
         (\E ok \in BOOLEAN : ServeDecision(i, ok)) \/ FailCall(i) \/ Finish(i)
  PROVE  ConsoleInv'
<1>1. UNCHANGED <<op, ver, cached, flight>>
  BY DEF ServeDecision, FailCall, Finish, serverVars
<1>2. PICK c : c = calls[i]
  OBVIOUS
<1>3. c \in CallRecords /\ CallOK(c) /\ "over" \in Stages /\ "settling" \in Stages
  BY <1>2, CallIsOK DEF Stages
<1>4. CASE \E ok \in BOOLEAN : ServeDecision(i, ok)
  <2>1. PICK ok \in BOOLEAN : ServeDecision(i, ok)
    BY <1>4
  <2>2. PICK d : d = [c EXCEPT !.stage = "over", !.ok = ok]
    OBVIOUS
  <2>3. c.stage = "sent" /\ Deciding /\ calls' = [calls EXCEPT ![i] = d]
    BY <1>2, <2>1, <2>2 DEF ServeDecision, Update
  <2>4. /\ d \in CallRecords /\ d.stage = "over"
        /\ d.clean = c.clean /\ d.mark = c.mark /\ d.step = c.step /\ d.wait = c.wait
    BY <1>3, <2>2 DEF CallRecords
  <2>5. c.wait = {} /\ c.step = 0
    BY <1>3, <2>3 DEF CallOK
  <2>6. CallOK(d)'
    <3>1. Len(Refreshes)' \in Nat /\ Deciding'
      BY <1>1, <2>3, RefreshesAreSequences DEF ConsoleInv, OperationOK, Refreshes, Deciding
    <3>2. d.mark <= ver'
      BY <1>1, <1>3, <2>4 DEF CallOK
    <3>3. QED
      BY <2>4, <2>5, <3>1, <3>2 DEF CallOK
  <2>7. QueriesGoOn /\ \A k \in Keys : flight[k] <= flight'[k]
    BY <1>1, SameQueries DEF ConsoleInv, QueriesOK
  <2>8. QED
    BY <2>3, <2>4, <2>6, <2>7, CallStep
<1>5. CASE FailCall(i)
  <2>1. PICK s \in {"settling", "over"} : calls' = [calls EXCEPT ![i] =
                                       [calls[i] EXCEPT !.ok = FALSE, !.stage = s]]
    BY <1>5 DEF FailCall, Update
  <2>2. PICK d : d = [c EXCEPT !.ok = FALSE, !.stage = s]
    OBVIOUS
  <2>3. calls' = [calls EXCEPT ![i] = d] /\ c.stage \in {"sent", "answered"} /\ s \in Stages
    BY <1>2, <1>3, <1>5, <2>1, <2>2 DEF FailCall
  <2>4. /\ d \in CallRecords /\ d.stage = s /\ d.ok = FALSE
        /\ d.clean = c.clean /\ d.mark = c.mark /\ d.step = c.step /\ d.wait = c.wait
    BY <1>3, <2>2, <2>3 DEF CallRecords
  <2>5. c.wait = {}
    BY <1>3, <2>3 DEF CallOK
  <2>6. QED
    BY <1>1, <1>2, <2>3, <2>4, <2>5, StageKeeps
<1>6. CASE Finish(i)
  <2>1. PICK d : d = [c EXCEPT !.stage = "over"]
    OBVIOUS
  <2>2. /\ calls' = [calls EXCEPT ![i] = d]
        /\ c.wait = {} /\ c.step = Len(Refreshes)
    BY <1>2, <1>6, <2>1 DEF Finish, Update, Refreshes
  <2>3. /\ d \in CallRecords /\ d.stage = "over" /\ d.ok = c.ok
        /\ d.clean = c.clean /\ d.mark = c.mark /\ d.step = c.step /\ d.wait = c.wait
    BY <1>3, <2>1 DEF CallRecords
  <2>4. QED
    BY <1>1, <1>2, <2>2, <2>3, StageKeeps
<1>7. QED
  BY <1>4, <1>5, <1>6

(* Whose button it was makes no difference to what is refreshed.           *)
LEMMA AbandonedCalls ==
  ASSUME NEW cs \in Seq(CallRecords), NEW how \in {"replaced", "left"}
  PROVE  /\ Abandoned(cs, how) \in Seq(CallRecords)
         /\ DOMAIN Abandoned(cs, how) = DOMAIN cs
         /\ \A i \in DOMAIN cs : \A d : d = Abandoned(cs, how)[i] =>
              /\ d.stage = cs[i].stage /\ d.ok = cs[i].ok /\ d.clean = cs[i].clean
              /\ d.decision = cs[i].decision /\ d.from # "here"
              /\ d.mark = cs[i].mark /\ d.step = cs[i].step /\ d.wait = cs[i].wait
<1>1. DOMAIN Abandoned(cs, how) = 1 .. Len(cs) /\ Len(cs) \in Nat /\ DOMAIN cs = 1 .. Len(cs)
  BY DEF Abandoned
<1>2. ASSUME NEW i \in 1 .. Len(cs), NEW d, d = Abandoned(cs, how)[i]
      PROVE  /\ d \in CallRecords
             /\ d.stage = cs[i].stage /\ d.ok = cs[i].ok /\ d.clean = cs[i].clean
             /\ d.decision = cs[i].decision /\ d.from # "here"
             /\ d.mark = cs[i].mark /\ d.step = cs[i].step /\ d.wait = cs[i].wait
  <2>1. PICK c : c = cs[i]
    OBVIOUS
  <2>2. c \in CallRecords
    BY <2>1
  <2>3. PICK f \in {"replaced", "left"} : d = [c EXCEPT !.from = f]
    <3>1. d = [c EXCEPT !.from = IF @ = "left" THEN @ ELSE how]
      BY <1>1, <1>2, <2>1 DEF Abandoned
    <3>2. CASE c.from = "left"
      BY <3>1, <3>2
    <3>3. CASE c.from # "left"
      BY <3>1, <3>3
    <3>4. QED
      BY <3>2, <3>3
  <2>4. f \in {"here", "replaced", "left"}
    OBVIOUS
  <2>5. /\ d \in CallRecords
        /\ d.stage = c.stage /\ d.ok = c.ok /\ d.clean = c.clean /\ d.decision = c.decision /\ d.from # "here"
        /\ d.mark = c.mark /\ d.step = c.step /\ d.wait = c.wait
    BY <2>2, <2>3, <2>4 DEF CallRecords
  <2>6. QED
    BY <2>1, <2>5
<1>3. Abandoned(cs, how) = [i \in 1 .. Len(cs) |-> Abandoned(cs, how)[i]]
  BY <1>1 DEF Abandoned
<1>4. Abandoned(cs, how) \in Seq(CallRecords)
  BY <1>1, <1>2, <1>3, IsASeq
<1>5. QED
  BY <1>1, <1>2, <1>4

LEMMA MovedCalls ==
  ASSUME ConsoleInv, UNCHANGED <<op, ver, cached, flight>>, NEW how \in {"replaced", "left"},
         calls' = Abandoned(calls, how)
  PROVE  ConsoleInv'
<1>1. QueriesGoOn /\ \A k \in Keys : flight[k] <= flight'[k]
  BY SameQueries DEF ConsoleInv, QueriesOK
<1>2. calls' \in Seq(CallRecords) /\ DOMAIN calls' = DOMAIN calls
  BY AbandonedCalls DEF ConsoleInv
<1>3. ASSUME NEW i \in DOMAIN calls, NEW d, d = calls'[i]
      PROVE  CallOK(d)'
  <2>1. PICK c : c = calls[i]
    OBVIOUS
  <2>2. c \in CallRecords /\ CallOK(c) /\ c.wait \subseteq Keys
    BY <2>1, CallIsOK
  <2>3. /\ d \in CallRecords /\ d.stage = c.stage /\ d.ok = c.ok /\ d.clean = c.clean
        /\ d.mark = c.mark /\ d.step = c.step /\ d.wait = c.wait
    BY <1>2, <1>3, <2>1, AbandonedCalls DEF ConsoleInv
  <2>4. QED
    BY <1>1, <2>2, <2>3, CallGoesOn
<1>4. QED
  BY <1>1, <1>2, <1>3, CallsGoOn

LEMMA SucceedKeeps ==
  ASSUME ConsoleInv, NEW i \in DOMAIN calls, Succeed(i)
  PROVE  ConsoleInv'
<1>1. UNCHANGED <<op, ver, cached, flight>>
  BY DEF Succeed, serverVars
<1>2. QueriesGoOn /\ \A k \in Keys : flight[k] <= flight'[k]
  BY <1>1, SameQueries DEF ConsoleInv, QueriesOK
<1>3. PICK after : after = [calls EXCEPT ![i].stage = "settling"]
  OBVIOUS
<1>4. /\ calls' = after \/ calls' = Abandoned(after, "replaced")
      /\ calls[i].stage \in {"answered", "accepted"}
  BY <1>3 DEF Succeed
<1>5. PICK s : s = [calls[i] EXCEPT !.stage = "settling"]
  OBVIOUS
<1>6. after = [calls EXCEPT ![i] = s]
  BY <1>3, <1>5
<1>7. /\ s \in CallRecords /\ s.stage = "settling"
      /\ s.ok = calls[i].ok /\ s.clean = calls[i].clean
      /\ s.mark = calls[i].mark /\ s.step = calls[i].step /\ s.wait = calls[i].wait
  <2>1. PICK c : c = calls[i]
    OBVIOUS
  <2>2. c \in CallRecords /\ s = [c EXCEPT !.stage = "settling"] /\ "settling" \in Stages
    BY <1>5, <2>1 DEF ConsoleInv, Stages
  <2>3. /\ s \in CallRecords /\ s.stage = "settling"
        /\ s.ok = c.ok /\ s.clean = c.clean
        /\ s.mark = c.mark /\ s.step = c.step /\ s.wait = c.wait
    BY <2>2 DEF CallRecords
  <2>4. QED
    BY <2>1, <2>3
<1>8. after \in Seq(CallRecords) /\ DOMAIN after = DOMAIN calls
  BY <1>6, <1>7, ExceptSeq DEF ConsoleInv
<1>9. calls' \in Seq(CallRecords) /\ DOMAIN calls' = DOMAIN calls
  BY <1>4, <1>8, AbandonedCalls
<1>10. ASSUME NEW j \in DOMAIN calls, NEW d, d = calls'[j]
       PROVE  CallOK(d)'
  <2>1. PICK c : c = calls[j]
    OBVIOUS
  <2>2. c \in CallRecords /\ CallOK(c) /\ c.wait \subseteq Keys
    BY <2>1, CallIsOK
  <2>3. PICK a : a = after[j]
    OBVIOUS
  <2>4. /\ a.ok = c.ok /\ a.clean = c.clean
        /\ a.mark = c.mark /\ a.step = c.step /\ a.wait = c.wait
        /\ a.stage = c.stage \/ a.stage = "settling"
    <3>1. CASE j = i
      <4>1. a = s
        BY <1>6, <2>3, <3>1 DEF ConsoleInv
      <4>2. QED
        BY <1>7, <2>1, <3>1, <4>1
    <3>2. CASE j # i
      <4>1. a = c
        BY <1>6, <2>1, <2>3, <3>2 DEF ConsoleInv
      <4>2. QED
        BY <4>1
    <3>3. QED
      BY <3>1, <3>2
  <2>5. /\ d.ok = a.ok /\ d.clean = a.clean
        /\ d.mark = a.mark /\ d.step = a.step /\ d.wait = a.wait
        /\ d.stage = a.stage
    BY <1>4, <1>8, <1>10, <2>3, AbandonedCalls
  <2>6. d \in CallRecords
    BY <1>9, <1>10
  <2>7. d.stage = c.stage \/ d.stage = "settling"
    BY <2>4, <2>5
  <2>8. QED
    BY <1>2, <2>2, <2>4, <2>5, <2>6, <2>7, CallGoesOn
<1>11. QED
  BY <1>2, <1>9, <1>10, CallsGoOn

(* One more set of queries is fetched anew and waited for.                 *)
LEMMA InvalidateKeeps ==
  ASSUME ConsoleInv, NEW i \in DOMAIN calls, Invalidate(i)
  PROVE  ConsoleInv'
<1> DEFINE S == Awaited(i)
           b == calls[i].clean /\ here /\ FirstLoads(S) = {}
<1>1. UNCHANGED <<op, ver, cached>> /\ flight' = Refetched(S)
  BY DEF Invalidate, serverVars
<1>2. /\ flight' \in [Keys -> Nat]
      /\ \A k \in Keys : flight'[k] \in {flight[k], ver}
      /\ \A k \in Keys \cap S : flight'[k] = ver \/ k \in FirstLoads(S)
  BY <1>1, RefetchedNow
<1>3. QueriesGoOn /\ \A k \in Keys : flight[k] <= flight'[k]
  BY <1>1, <1>2, FetchedNow
<1>4. PICK c : c = calls[i]
  OBVIOUS
<1>5. c \in CallRecords /\ CallOK(c) /\ c.wait = {} /\ c.stage = "settling"
  BY <1>4, CallIsOK DEF Invalidate
<1>6. c.step \in Nat /\ c.step + 1 \in Nat /\ c.step < Len(Refreshes) /\ Len(Refreshes) \in Nat
  <2>1. c.step \in Nat /\ c.step < Len(Refreshes)
    BY <1>4, <1>5 DEF Invalidate, Refreshes, CallRecords
  <2>2. QED
    BY <2>1, RefreshesAreSequences DEF ConsoleInv, OperationOK, Refreshes
<1>7. S \in SUBSET Keys /\ (here => S = Keys \cap Refreshes[c.step + 1])
  BY <1>4 DEF Awaited, Refreshes
<1>8. PICK d : d = [c EXCEPT !.step = @ + 1, !.wait = S, !.clean = @ /\ here /\ FirstLoads(S) = {}]
  OBVIOUS
<1>9. calls' = [calls EXCEPT ![i] = d]
  BY <1>4, <1>8 DEF Invalidate, Update
<1>10. /\ d \in CallRecords /\ d.stage = c.stage /\ d.ok = c.ok /\ d.mark = c.mark
       /\ d.step = c.step + 1 /\ d.wait = S
       /\ d.clean => c.clean /\ here /\ FirstLoads(S) = {}
  BY <1>5, <1>6, <1>7, <1>8 DEF CallRecords
<1>11. CallOK(d)'
  <2>1. Refreshes' = Refreshes /\ Keys' = Keys
    BY <1>3 DEF QueriesGoOn, Refreshes
  <2>2. /\ d.mark <= ver' /\ d.step \in 0 .. Len(Refreshes) /\ d.stage = "settling"
    BY <1>1, <1>5, <1>6, <1>10 DEF CallOK
  <2>3. ASSUME d.ok, d.clean, NEW j \in 1 .. d.step, NEW k \in Keys \cap Refreshes[j]
        PROVE  cached'[k] >= d.mark \/ (k \in d.wait /\ flight'[k] >= d.mark)
    <3>1. CASE j \in 1 .. c.step
      <4>1. Refreshing(c, k)
        BY <1>5, <1>10, <2>3, <3>1 DEF CallOK
      <4>2. QED
        BY <1>1, <1>5, <1>10, <4>1 DEF Refreshing
    <3>2. CASE j \notin 1 .. c.step
      <4>1. j = c.step + 1
        BY <1>6, <1>10, <2>3, <3>2
      <4>2. k \in S /\ flight'[k] = ver
        BY <1>2, <1>7, <1>10, <2>3, <4>1
      <4>3. ver >= d.mark
        BY <1>5, <1>10, ver \in Nat, d.mark \in Nat DEF CallOK, ConsoleInv, QueriesOK, CallRecords
      <4>4. QED
        BY <1>10, <4>2, <4>3
    <3>3. QED
      BY <3>1, <3>2
  <2>4. QED
    BY <2>1, <2>2, <2>3 DEF CallOK, Refreshing
<1>12. QED
  BY <1>3, <1>9, <1>10, <1>11, CallStep

LEMMA ServerKeeps ==
  ASSUME ConsoleInv, ChangeElsewhere \/ ServePermissions \/ OpenPage \/ UNCHANGED vars
  PROVE  ConsoleInv'
<1>1. UNCHANGED <<op, cached, flight, calls>> /\ (ver' = ver \/ ver' = ver + 1)
  BY DEF ChangeElsewhere, ServePermissions, OpenPage, vars, cVars, serverVars, tabVars
<1>2. QED
  BY <1>1, ElsewhereKeeps

LEMMA MoveKeeps ==
  ASSUME ConsoleInv, LeavePage \/ PickProfile
  PROVE  ConsoleInv'
<1>1. UNCHANGED <<op, ver, cached, flight>>
  BY DEF LeavePage, PickProfile, serverVars
<1>2. PICK how \in {"replaced", "left"} : calls' = Abandoned(calls, how)
  BY DEF LeavePage, PickProfile
<1>3. QED
  BY <1>1, <1>2, MovedCalls

LEMMA StepKeeps ==
  ASSUME ConsoleInv, [Next]_vars
  PROVE  ConsoleInv'
<1>1. CASE ChangeElsewhere \/ ServePermissions \/ OpenPage \/ UNCHANGED vars
  BY <1>1, ServerKeeps
<1>2. CASE \E k \in Keys : Poll(k) \/ Receive(k) \/ FailFetch(k)
  BY <1>2, PollKeeps, ReceiveKeeps, FailFetchKeeps
<1>3. CASE RefreshButton
  BY <1>3, RefreshKeeps
<1>4. CASE \E decision \in Decisions \cup {NoDecision} : Press(decision)
  BY <1>4, PressKeeps
<1>5. CASE \E i \in DOMAIN calls : Answer(i) \/ FailCall(i)
  BY <1>5, ServeKeeps, SucceedKeeps, InvalidateKeeps, EndKeeps DEF Answer
<1>6. CASE LeavePage \/ PickProfile
  BY <1>6, MoveKeeps
<1>7. QED
  BY <1>1, <1>2, <1>3, <1>4, <1>5, <1>6 DEF Next

LEMMA InvInit == Init => ConsoleInv
<1> SUFFICES ASSUME Init PROVE ConsoleInv
  OBVIOUS
<1>1. PICK S \in Glimpses(op) : cached = [k \in S |-> 0]
  BY DEF Init
<1>2. Keys = S /\ flight = cached
  BY <1>1 DEF Init, Keys
<1>3. Deciding => S = {}
  BY DEF Deciding, Glimpses
<1>4. OperationOK /\ QueriesOK
  BY <1>1, <1>2, <1>3 DEF Init, OperationOK, QueriesOK
<1>5. calls = <<>>
  BY DEF Init
<1>6. QED
  BY <1>4, <1>5 DEF ConsoleInv

-----------------------------------------------------------------------------
(* The queries and calls of a tab stay in order.                           *)
THEOREM Invariance == Spec => []ConsoleInv
<1>1. ConsoleInv /\ [Next]_vars => ConsoleInv'
  BY StepKeeps
<1>2. QED
  BY InvInit, <1>1, PTL DEF Spec

(* When an operation is over its page shows what it did, whatever polls    *)
(* were under way and however late they are answered.                      *)
THEOREM OwnWritesShow == Spec => []OwnWritesAreShown
<1>1. QED
  BY InvShows, Invariance, PTL

-----------------------------------------------------------------------------
(* A set of numbers has a smallest.                                        *)
LEMMA Ordered == \A m, n \in Nat : m < n => <<m, n>> \in OpToRel(<, Nat)
BY Zenon DEF OpToRel

LEMMA Smallest ==
  ASSUME NEW S \in SUBSET Nat, S # {}
  PROVE  \E n \in S : \A m \in S : n <= m
<1>1. PICK less : less = OpToRel(<, Nat)
  OBVIOUS
<1>2. \A m, n \in Nat : m < n => <<m, n>> \in less
  BY <1>1, Ordered, Zenon
<1>3. PICK n \in S : \A m \in S : ~ (<<m, n>> \in less)
  BY <1>1, WFMin, NatLessThanWellFounded, Zenon
<1>4. ASSUME NEW m \in S
      PROVE  n <= m
  <2>1. m \in Nat /\ n \in Nat /\ ~ (m < n)
    BY <1>2, <1>3
  <2>2. QED
    BY <2>1
<1>5. QED
  BY <1>4

-----------------------------------------------------------------------------
(* The log of a permission.                                                *)
Types ==
  {"permission.requested", "permission.resolved", "permission.resolve_failed",
   "permission.resolve_requested", "run.failed"}

Says == Decisions \cup {NoDecision, Announced, "startup", "worker"}

Records == [type : Types, decision : Says, worker_id : Workers \cup {"nobody"}]

(* What an entry may say when the daemon took the decision d.              *)
Fits(e, d) ==
  /\ e.type = "permission.resolved" => d # NoDecision /\ e.decision \in {d, Announced}
  /\ e.type = "permission.resolve_requested" => e.decision \in Decisions

LogOK(pl, d) ==
  /\ pl \in Seq(Records) /\ d \in Decisions \cup {NoDecision}
  /\ \A n \in DOMAIN pl : Fits(pl[n], d)

LEMMA Entries ==
  ASSUME NEW type \in Types, NEW decision \in Says
  PROVE  /\ Entry(type, decision) \in Records /\ Entry(type, decision).type = type
         /\ Entry(type, decision).decision = decision
BY DEF Entry, Records

LEMMA Recordings ==
  ASSUME NEW decision \in Decisions, NEW w \in Workers
  PROVE  /\ Recorded(decision, w) \in Records
         /\ Recorded(decision, w).type = "permission.resolve_requested"
         /\ Recorded(decision, w).decision = decision
BY DEF Recorded, Records, Types, Says

(* What has been told stays, and an entry that fits is added.              *)
LEMMA Added ==
  ASSUME NEW pl, NEW d, LogOK(pl, d), NEW e \in Records,
         NEW f \in Decisions \cup {NoDecision}, d # NoDecision => f = d, Fits(e, f)
  PROVE  /\ LogOK(Append(pl, e), f) /\ DOMAIN pl \subseteq DOMAIN Append(pl, e)
         /\ \A n \in DOMAIN pl : Append(pl, e)[n] = pl[n]
<1>1. pl \in Seq(Records) /\ DOMAIN pl = 1 .. Len(pl) /\ Len(pl) \in Nat
  BY DEF LogOK
<1>2. /\ Append(pl, e) \in Seq(Records) /\ DOMAIN Append(pl, e) = 1 .. Len(pl) + 1
      /\ \A n \in 1 .. Len(pl) : Append(pl, e)[n] = pl[n]
      /\ Append(pl, e)[Len(pl) + 1] = e
  BY <1>1, AppendProperties
<1>3. ASSUME NEW n \in DOMAIN Append(pl, e)
      PROVE  Fits(Append(pl, e)[n], f)
  <2>1. CASE n \in DOMAIN pl
    BY <1>1, <1>2, <2>1 DEF LogOK, Fits
  <2>2. CASE n \notin DOMAIN pl
    BY <1>1, <1>2, <1>3, <2>2
  <2>3. QED
    BY <2>1, <2>2
<1>4. QED
  BY <1>1, <1>2, <1>3 DEF LogOK

-----------------------------------------------------------------------------
(* What the threads of the workers and the calls of the tab know.          *)
Places == {"off", "runs", "checked", "raised", "ended"}

Pickings ==
  /\ picked \in [Threads -> SUBSET Nat] /\ thread \in [Threads -> Places]
  /\ \A t \in Threads :
       /\ picked[t] \subseteq Indices("permission.resolve_requested")
       /\ thread[t] = "checked" => picked[t] # {}

Asked ==
  /\ calls \in Seq(CallRecords)
  /\ Deciding => \A i \in DOMAIN calls : calls[i].decision \in Decisions

DecisionInv == LogOK(plog, told) /\ Pickings /\ Asked

LEMMA DecisionInvStands == DecisionInv => DecisionStands
BY DEF DecisionInv, LogOK, Fits, DecisionStands, Indices

(* A log that goes on: by at most one entry.                               *)
Continues == DOMAIN plog \subseteq DOMAIN plog' /\ \A n \in DOMAIN plog : plog'[n] = plog[n]

Logs(e) ==
  /\ told' \in Decisions \cup {NoDecision} /\ (told # NoDecision => told' = told)
  /\ plog' = plog \/ (e \in Records /\ Fits(e, told') /\ plog' = Append(plog, e))

LEMMA LogStep ==
  ASSUME LogOK(plog, told), NEW e, Logs(e)
  PROVE  LogOK(plog', told') /\ Continues
<1>1. PICK pl : pl = plog
  OBVIOUS
<1>2. PICK d : d = told
  OBVIOUS
<1>3. PICK f : f = told'
  OBVIOUS
<1>4. CASE plog' = plog
  BY <1>4 DEF Logs, LogOK, Fits, Continues
<1>5. CASE e \in Records /\ Fits(e, told') /\ plog' = Append(plog, e)
  <2>1. /\ LogOK(Append(pl, e), f) /\ DOMAIN pl \subseteq DOMAIN Append(pl, e)
        /\ \A n \in DOMAIN pl : Append(pl, e)[n] = pl[n]
    BY <1>1, <1>2, <1>3, <1>5, Added DEF Logs
  <2>2. QED
    BY <1>1, <1>3, <1>5, <2>1 DEF Continues
<1>6. QED
  BY <1>4, <1>5 DEF Logs

LEMMA PickingsStay ==
  ASSUME Pickings, Continues, picked' = picked, thread' = thread
  PROVE  Pickings'
BY DEF Pickings, Continues, Indices

(* The daemon takes the first decision.                                    *)
LEMMA PostStep ==
  ASSUME told \in Decisions \cup {NoDecision}, NEW decision \in Decisions, NEW ok, NEW asked,
         PostDecision(decision, ok, asked)
  PROVE  /\ told' \in Decisions \cup {NoDecision} /\ (told # NoDecision => told' = told)
         /\ told' \in {told, decision}
         /\ ok => told' = decision
         /\ told' # told => told' = decision /\ decision # NoDecision
BY DEF PostDecision, Decisions, NoDecision

(* Entries that are about no decision, or not about one that was taken.    *)
LEMMA PlainFits ==
  ASSUME NEW type \in Types \ {"permission.resolved", "permission.resolve_requested"},
         NEW decision \in Says, NEW d
  PROVE  Entry(type, decision) \in Records /\ Fits(Entry(type, decision), d)
BY Entries DEF Fits

(* What the adapter, or a worker's thread, appends about a decision.       *)
LEMMA ResolvedFits ==
  ASSUME NEW decision \in Decisions
  PROVE  /\ Entry("permission.resolved", decision) \in Records
         /\ Fits(Entry("permission.resolved", decision), decision)
<1>1. PICK e : e = Entry("permission.resolved", decision)
  OBVIOUS
<1>2. e \in Records /\ e.type = "permission.resolved" /\ e.decision = decision
  BY <1>1, Entries DEF Types, Says
<1>3. Fits(e, decision)
  BY <1>2 DEF Fits, Decisions, NoDecision
<1>4. QED
  BY <1>1, <1>2, <1>3

LEMMA ResolveStep ==
  ASSUME LogOK(plog, told), NEW decision \in Decisions, NEW ok \in BOOLEAN,
         ResolvePermission(decision, ok)
  PROVE  LogOK(plog', told') /\ Continues
<1>1. told \in Decisions \cup {NoDecision}
  BY DEF LogOK
<1>2. CASE owner \in Workers /\ ~RunOver
  <2>1. PICK e : e = Recorded(decision, owner)
    OBVIOUS
  <2>2. plog' = Append(plog, e) /\ told' = told
    BY <1>2, <2>1 DEF ResolvePermission
  <2>3. /\ e \in Records /\ e.type = "permission.resolve_requested"
        /\ e.decision = decision
    BY <1>2, <2>1, Recordings
  <2>4. Logs(e)
    BY <1>1, <2>2, <2>3 DEF Logs, Fits
  <2>5. QED
    BY <2>4, LogStep
<1>3. CASE ~(owner \in Workers /\ ~RunOver)
  <2>1. PICK e : e = Entry(Outcome(ok), decision)
    OBVIOUS
  <2>2. plog' = Append(plog, e) /\ PostDecision(decision, ok, Local)
    BY <1>3, <2>1 DEF ResolvePermission
  <2>3. /\ told' \in Decisions \cup {NoDecision} /\ (told # NoDecision => told' = told)
        /\ ok => told' = decision
    BY <1>1, <2>2, PostStep
  <2>4. CASE ok
    BY <2>1, <2>2, <2>3, <2>4, ResolvedFits, LogStep DEF Logs, Outcome
  <2>5. CASE ~ok
    <3>1. e \in Records /\ Fits(e, told')
      BY <2>1, <2>5, PlainFits DEF Outcome, Types, Says
    <3>2. QED
      BY <2>2, <2>3, <3>1, LogStep DEF Logs
  <2>6. QED
    BY <2>4, <2>5
<1>4. QED
  BY <1>2, <1>3

LEMMA PlainStep ==
  ASSUME LogOK(plog, told), told' = told,
         NEW type \in Types \ {"permission.resolved", "permission.resolve_requested"},
         NEW decision \in Says,
         plog' = plog \/ plog' = Append(plog, Entry(type, decision))
  PROVE  LogOK(plog', told') /\ Continues
<1>1. PICK e : e = Entry(type, decision)
  OBVIOUS
<1>2. e \in Records /\ Fits(e, told')
  BY <1>1, PlainFits
<1>3. Logs(e)
  BY <1>1, <1>2 DEF Logs, LogOK
<1>4. QED
  BY <1>3, LogStep

LEMMA AnnounceStep ==
  ASSUME LogOK(plog, told), AnnounceDecision
  PROVE  LogOK(plog', told') /\ Continues
<1>1. PICK e : e = Entry("permission.resolved", Announced)
  OBVIOUS
<1>2. /\ e \in Records /\ e.type = "permission.resolved" /\ e.decision = Announced
  BY <1>1, Entries DEF Types, Says
<1>3. /\ plog' = Append(plog, e) /\ told' = told /\ told # NoDecision
      /\ told \in Decisions \cup {NoDecision}
  BY <1>1 DEF AnnounceDecision, LogOK
<1>4. Logs(e)
  BY <1>2, <1>3 DEF Fits, Logs
<1>5. QED
  BY <1>4, LogStep

(* The control a thread is about to apply is one it has picked.            *)
LEMMA DueIsPicked ==
  ASSUME Pickings, NEW t \in Threads, picked[t] # {}
  PROVE  Due(t) \in Indices("permission.resolve_requested") /\ Due(t) \in picked[t]
<1>1. picked[t] \in SUBSET Nat
  BY DEF Pickings
<1>2. \E n \in picked[t] : \A m \in picked[t] : n <= m
  BY <1>1, Smallest
<1>3. Due(t) \in picked[t]
  BY <1>2 DEF Due
<1>4. QED
  BY <1>3 DEF Pickings

(* A thread that goes on.                                                  *)
LEMMA ThreadStays ==
  ASSUME Pickings, Continues, NEW t \in Threads, NEW S \in SUBSET picked[t],
         NEW p \in Places, p = "checked" => S # {},
         picked' = [picked EXCEPT ![t] = S], thread' = [thread EXCEPT ![t] = p]
  PROVE  Pickings'
BY DEF Pickings, Continues, Indices

LEMMA ControlStep ==
  ASSUME LogOK(plog, told), Pickings, NEW t \in Threads,
         ApplyControl(t) \/ FailControl(t) \/ LoseReport(t)
  PROVE  LogOK(plog', told') /\ Pickings'
<1>1. PICK n : n = Due(t)
  OBVIOUS
<1>2. /\ picked[t] # {} /\ n \in picked[t]
      /\ n \in DOMAIN plog /\ plog[n].type = "permission.resolve_requested"
  BY <1>1, DueIsPicked DEF ApplyControl, FailControl, LoseReport, Adds, At, Pickings, Indices
<1>3. PICK decision : decision = plog[n].decision
  OBVIOUS
<1>4. decision \in Decisions /\ told \in Decisions \cup {NoDecision}
  BY <1>2, <1>3 DEF LogOK, Fits
<1>5. PICK e : e = Entry("permission.resolved", decision)
  OBVIOUS
<1>6. PICK g : g = Entry("permission.resolve_failed", decision)
  OBVIOUS
<1>7. e \in Records /\ Fits(e, decision) /\ g \in Records /\ Fits(g, told')
  <2>1. e \in Records /\ Fits(e, decision)
    BY <1>4, <1>5, ResolvedFits
  <2>2. g \in Records /\ Fits(g, told')
    BY <1>4, <1>6, PlainFits DEF Types, Says
  <2>3. QED
    BY <2>1, <2>2
<1>8. Logs(e) \/ Logs(g)
  <2>1. CASE ApplyControl(t)
    <3>1. PostDecision(decision, TRUE, t \in FirstThreads) /\ plog' = Append(plog, e)
      BY <1>1, <1>3, <1>5, <2>1 DEF ApplyControl
    <3>2. told' = decision /\ (told # NoDecision => told' = told)
      BY <1>4, <3>1, PostStep
    <3>3. QED
      BY <1>4, <1>7, <3>1, <3>2 DEF Logs
  <2>2. CASE FailControl(t)
    <3>1. PICK ok \in BOOLEAN : PostDecision(decision, ok, t \in FirstThreads)
      BY <1>1, <1>3, <2>2 DEF FailControl
    <3>2. told' \in Decisions \cup {NoDecision} /\ (told # NoDecision => told' = told)
      BY <1>4, <3>1, PostStep
    <3>3. plog' = plog \/ plog' = Append(plog, g)
      BY <1>1, <1>3, <1>6, <2>2 DEF FailControl
    <3>4. QED
      BY <1>7, <3>2, <3>3 DEF Logs
  <2>3. CASE LoseReport(t)
    <3>1. \/ /\ told = NoDecision /\ told' = decision
             /\ plog' = plog \/ plog' = Append(plog, e)
          \/ told' = told /\ plog' = plog
      BY <1>1, <1>3, <1>5, <2>3 DEF LoseReport
    <3>2. QED
      BY <1>4, <1>7, <3>1 DEF Logs
  <2>4. QED
    BY <2>1, <2>2, <2>3
<1>9. LogOK(plog', told') /\ Continues
  BY <1>8, LogStep
<1>10. PICK S \in SUBSET picked[t], p \in Places \ {"checked"} :
         picked' = [picked EXCEPT ![t] = S] /\ thread' = [thread EXCEPT ![t] = p]
  <2>1. CASE ApplyControl(t)
    <3>1. /\ picked' = [picked EXCEPT ![t] = picked[t] \ {Due(t)}]
          /\ thread' = [thread EXCEPT ![t] = "runs"]
      BY <2>1 DEF ApplyControl
    <3>2. QED
      BY <3>1 DEF Places
  <2>2. CASE Raises(t)
    <3>1. PICK p : p = IF t = "heartbeat" THEN "ended" ELSE "raised"
      OBVIOUS
    <3>2. p \in Places \ {"checked"}
      BY <3>1 DEF Places
    <3>3. QED
      BY <2>2, <3>1, <3>2 DEF Raises
  <2>3. QED
    BY <2>1, <2>2 DEF FailControl, LoseReport
<1>11. QED
  BY <1>9, <1>10, ThreadStays

LEMMA PermissionStep ==
  ASSUME LogOK(plog, told), Pickings, PermissionsNext
  PROVE  LogOK(plog', told') /\ Pickings'
<1>1. ASSUME NEW type \in Types \ {"permission.resolved", "permission.resolve_requested"},
             NEW decision \in Says,
             plog' = plog \/ plog' = Append(plog, Entry(type, decision)),
             told' = told, picked' = picked, thread' = thread
      PROVE  LogOK(plog', told') /\ Pickings'
  BY <1>1, PlainStep, PickingsStay
<1>2. CASE AskPermission
  BY <1>1, <1>2 DEF AskPermission, Types, Says, daemonVars, workerVars
<1>3. CASE AnnounceDecision
  BY <1>3, AnnounceStep, PickingsStay DEF AnnounceDecision, workerVars
<1>4. CASE RestartControlPlane
  BY <1>1, <1>4 DEF RestartControlPlane, Types, Says, daemonVars, workerVars
<1>5. CASE WatchdogWakes
  BY <1>1, <1>5 DEF WatchdogWakes, Types, Says, daemonVars, workerVars
<1>6. CASE \E ok \in BOOLEAN : WatchdogDenies(ok)
  <2>1. PICK ok \in BOOLEAN : ResolvePermission("deny", ok)
    BY <1>6 DEF WatchdogDenies
  <2>2. LogOK(plog', told') /\ Continues
    BY <2>1, ResolveStep DEF Decisions
  <2>3. QED
    BY <1>6, <2>2, PickingsStay DEF WatchdogDenies, workerVars
<1>7. CASE CrashWorker
  BY <1>1, <1>7 DEF CrashWorker, Types, Says, daemonVars
<1>8. CASE LoseRun
  BY <1>1, <1>8 DEF LoseRun, Types, Says, daemonVars, workerVars
<1>9. CASE ClaimAgain
  <2>1. PICK p : p = IF owner' = "local" THEN "off" ELSE "runs"
    OBVIOUS
  <2>2. p \in Places \ {"checked"}
    BY <2>1 DEF Places
  <2>3. /\ plog' = plog /\ told' = told /\ picked' = picked
        /\ thread' = [thread EXCEPT !["later"] = p]
    BY <1>9, <2>1 DEF ClaimAgain, daemonVars
  <2>4. LogOK(plog', told') /\ Pickings'
    BY <2>2, <2>3 DEF Pickings, Indices
  <2>5. QED
    BY <2>4
<1>10. CASE \E t \in Threads : FetchControl(t)
  <2>1. PICK t \in Threads : FetchControl(t)
    BY <1>10
  <2>2. PICK S : S = Outstanding(Home(t))
    OBVIOUS
  <2>3. /\ plog' = plog /\ told' = told /\ thread' = thread
        /\ picked' = [picked EXCEPT ![t] = S] /\ S # {}
    BY <2>1, <2>2 DEF FetchControl, daemonVars
  <2>4. S \subseteq Indices("permission.resolve_requested") /\ S \in SUBSET Nat
    BY <2>2 DEF Outstanding, Indices, LogOK
  <2>5. QED
    BY <2>3, <2>4 DEF Pickings, Indices
<1>11. CASE \E t \in Threads : SkipControl(t) \/ CheckControl(t)
  <2>1. PICK t \in Threads : SkipControl(t) \/ CheckControl(t)
    BY <1>11
  <2>2. plog' = plog /\ told' = told
    BY <2>1 DEF SkipControl, CheckControl, daemonVars
  <2>3. Pickings'
    <3>1. CASE SkipControl(t)
      BY <2>2, <3>1 DEF SkipControl, At, Pickings, Indices
    <3>2. CASE CheckControl(t)
      BY <2>2, <3>2 DEF CheckControl, Pickings, Indices, Places
    <3>3. QED
      BY <2>1, <3>1, <3>2
  <2>4. QED
    BY <2>2, <2>3
<1>12. CASE \E t \in Threads : ApplyControl(t) \/ FailControl(t) \/ LoseReport(t)
  BY <1>12, ControlStep
<1>13. CASE \E t \in Threads : ReportFailure(t)
  <2>1. PICK t \in Threads : ReportFailure(t)
    BY <1>13
  <2>2. /\ plog' = plog \/ plog' = Append(plog, Entry("run.failed", "worker"))
        /\ told' = told /\ picked' = picked /\ thread' = [thread EXCEPT ![t] = "ended"]
    BY <2>1 DEF ReportFailure, daemonVars
  <2>3. LogOK(plog', told') /\ Continues
    BY <2>2, PlainStep DEF Types, Says
  <2>4. Pickings'
    BY <2>2, <2>3 DEF Pickings, Continues, Indices, Places
  <2>5. QED
    BY <2>3, <2>4
<1>14. QED
  BY <1>2, <1>3, <1>4, <1>5, <1>6, <1>7, <1>8, <1>9, <1>10, <1>11, <1>12, <1>13
  DEF PermissionsNext, GoesOn

-----------------------------------------------------------------------------
(* The calls of the tab keep the decision they were made with.             *)
DecisionsStay ==
  /\ DOMAIN calls' = DOMAIN calls
  /\ \A i \in DOMAIN calls : calls'[i].decision = calls[i].decision

LEMMA AskedStays ==
  ASSUME Asked, ConsoleInv, ConsoleInv', op' = op, DecisionsStay
  PROVE  Asked'
BY DEF Asked, ConsoleInv, DecisionsStay, Deciding

LEMMA UpdateStays ==
  ASSUME ConsoleInv, NEW i \in DOMAIN calls, NEW d, d.decision = calls[i].decision,
         calls' = [calls EXCEPT ![i] = d]
  PROVE  DecisionsStay
BY DEF ConsoleInv, DecisionsStay

LEMMA CallDecisionsStay ==
  ASSUME ConsoleInv, NEW i \in DOMAIN calls, Answer(i) \/ FailCall(i)
  PROVE  DecisionsStay
<1>1. PICK c : c = calls[i]
  OBVIOUS
<1>2. c \in CallRecords
  BY <1>1 DEF ConsoleInv
<1>3. CASE \/ Serve(i) \/ TakeCookie(i) \/ Finish(i) \/ FailCall(i) \/ Invalidate(i)
           \/ \E ok \in BOOLEAN : ServeDecision(i, ok)
  <2>1. PICK d : calls' = [calls EXCEPT ![i] = d] /\ d.decision = c.decision
    <3>1. CASE Serve(i)
      <4>1. CASE calls' = [calls EXCEPT ![i] = [calls[i] EXCEPT !.stage = "answered"]]
        <5>1. PICK d : d = [c EXCEPT !.stage = "answered"]
          OBVIOUS
        <5>2. d.decision = c.decision
          BY <1>2, <5>1 DEF CallRecords
        <5>3. QED
          BY <1>1, <4>1, <5>1, <5>2
      <4>2. CASE calls' = [calls EXCEPT ![i] =
                             [calls[i] EXCEPT !.stage = "answered", !.mark = ver + 1]]
        <5>1. PICK d : d = [c EXCEPT !.stage = "answered", !.mark = ver + 1]
          OBVIOUS
        <5>2. d.decision = c.decision
          BY <1>2, <5>1 DEF CallRecords
        <5>3. QED
          BY <1>1, <4>2, <5>1, <5>2
      <4>3. QED
        BY <3>1, <4>1, <4>2 DEF Serve, Effect, Update
    <3>2. CASE TakeCookie(i)
      <4>1. PICK d : d = [c EXCEPT !.stage = "accepted", !.mark = ver + 1]
        OBVIOUS
      <4>2. d.decision = c.decision
        BY <1>2, <4>1 DEF CallRecords
      <4>3. QED
        BY <1>1, <3>2, <4>1, <4>2 DEF TakeCookie, Effect, Update
    <3>3. CASE Finish(i)
      <4>1. PICK d : d = [c EXCEPT !.stage = "over"]
        OBVIOUS
      <4>2. d.decision = c.decision
        BY <1>2, <4>1 DEF CallRecords
      <4>3. QED
        BY <1>1, <3>3, <4>1, <4>2 DEF Finish, Update
    <3>4. CASE FailCall(i)
      <4>1. PICK s : calls' = [calls EXCEPT ![i] = [calls[i] EXCEPT !.ok = FALSE, !.stage = s]]
        BY <3>4 DEF FailCall, Update
      <4>2. PICK d : d = [c EXCEPT !.ok = FALSE, !.stage = s]
        OBVIOUS
      <4>3. d.decision = c.decision
        BY <1>2, <4>2 DEF CallRecords
      <4>4. QED
        BY <1>1, <4>1, <4>2, <4>3
    <3>5. CASE Invalidate(i)
      <4>1. PICK d : d = [c EXCEPT !.step = @ + 1, !.wait = Awaited(i),
                            !.clean = @ /\ here /\ FirstLoads(Awaited(i)) = {}]
        OBVIOUS
      <4>2. d.decision = c.decision
        BY <1>2, <4>1 DEF CallRecords
      <4>3. QED
        BY <1>1, <3>5, <4>1, <4>2 DEF Invalidate, Update
    <3>6. CASE \E ok \in BOOLEAN : ServeDecision(i, ok)
      <4>1. PICK b : calls' = [calls EXCEPT ![i] = [calls[i] EXCEPT !.stage = "over", !.ok = b]]
        BY <3>6 DEF ServeDecision, Update
      <4>2. PICK d : d = [c EXCEPT !.stage = "over", !.ok = b]
        OBVIOUS
      <4>3. d.decision = c.decision
        BY <1>2, <4>2 DEF CallRecords
      <4>4. QED
        BY <1>1, <4>1, <4>2, <4>3
    <3>7. QED
      BY <1>3, <3>1, <3>2, <3>3, <3>4, <3>5, <3>6
  <2>2. QED
    BY <1>1, <2>1, UpdateStays
<1>4. CASE Succeed(i)
  <2>1. PICK after : after = [calls EXCEPT ![i].stage = "settling"]
    OBVIOUS
  <2>2. calls' = after \/ calls' = Abandoned(after, "replaced")
    BY <1>4, <2>1 DEF Succeed
  <2>3. PICK s : s = [c EXCEPT !.stage = "settling"]
    OBVIOUS
  <2>4. s \in CallRecords /\ s.decision = c.decision
    BY <1>2, <2>3, "settling" \in Stages DEF CallRecords, Stages
  <2>5. after = [calls EXCEPT ![i] = s]
    BY <1>1, <2>1, <2>3
  <2>6. /\ after \in Seq(CallRecords) /\ DOMAIN after = DOMAIN calls
        /\ \A j \in DOMAIN calls : after[j].decision = calls[j].decision
    BY <1>1, <2>4, <2>5, ExceptSeq DEF ConsoleInv
  <2>7. CASE calls' = after
    BY <2>6, <2>7 DEF DecisionsStay
  <2>8. CASE calls' = Abandoned(after, "replaced")
    BY <2>6, <2>8, AbandonedCalls DEF DecisionsStay
  <2>9. QED
    BY <2>2, <2>7, <2>8
<1>5. QED
  BY <1>3, <1>4 DEF Answer

(* Every other step keeps the calls, hides their buttons, or adds one.     *)
LEMMA AskedStep ==
  ASSUME ConsoleInv, Asked, [Next]_vars
  PROVE  Asked'
<1>1. ConsoleInv'
  BY StepKeeps
<1>2. op' = op
  BY DEF Next, ChangeElsewhere, ServePermissions, cVars, Poll, Receive, FailFetch,
         RefreshButton, Press, Answer, Serve, TakeCookie, Succeed, Invalidate, Finish,
         ServeDecision, FailCall, LeavePage, OpenPage, PickProfile, vars
<1>3. CASE calls' = calls
  BY <1>1, <1>2, <1>3, AskedStays DEF DecisionsStay
<1>4. CASE \E k \in Keys : Receive(k) \/ FailFetch(k)
  <2>1. PICK k \in Keys, ok \in BOOLEAN : calls' = Arrived(k, ok)
    BY <1>4 DEF Receive, FailFetch
  <2>2. DecisionsStay
    BY <2>1, ArrivedCalls, ArrivedSeq DEF DecisionsStay
  <2>3. QED
    BY <1>1, <1>2, <2>2, AskedStays
<1>5. CASE \E decision \in Decisions \cup {NoDecision} : Press(decision)
  <2>1. PICK decision \in Decisions \cup {NoDecision} : Press(decision)
    BY <1>5
  <2>2. PICK new : /\ calls' = Append(calls, new) /\ new.decision = decision
    BY <2>1 DEF Press
  <2>3. ASSUME Deciding
        PROVE  \A i \in DOMAIN calls' : calls'[i].decision \in Decisions
    <3>1. decision \in Decisions
      <4>1. Operations["resolvePermission"].flags = {"choice"}
        BY DEF Operations, PermissionPanel
      <4>2. Is("choice")
        BY <2>3, <4>1 DEF Is, Deciding
      <4>3. QED
        BY <2>1, <4>2 DEF Press
    <3>2. calls \in Seq(CallRecords) /\ \A i \in DOMAIN calls : calls[i].decision \in Decisions
      BY <2>3 DEF Asked
    <3>3. QED
      BY <2>2, <3>1, <3>2
  <2>4. QED
    BY <1>1, <1>2, <2>3 DEF Asked, ConsoleInv, Deciding
<1>6. CASE \E i \in DOMAIN calls : Answer(i) \/ FailCall(i)
  BY <1>1, <1>2, <1>6, CallDecisionsStay, AskedStays
<1>7. CASE LeavePage \/ PickProfile
  <2>1. PICK how \in {"replaced", "left"} : calls' = Abandoned(calls, how)
    BY <1>7 DEF LeavePage, PickProfile
  <2>2. DecisionsStay
    BY <2>1, AbandonedCalls DEF ConsoleInv, DecisionsStay
  <2>3. QED
    BY <1>1, <1>2, <2>2, AskedStays
<1>8. CASE \/ ChangeElsewhere \/ ServePermissions \/ RefreshButton \/ OpenPage
           \/ UNCHANGED vars \/ \E k \in Keys : Poll(k)
  <2>1. calls' = calls
    BY <1>8 DEF ChangeElsewhere, ServePermissions, RefreshButton, OpenPage, Poll, vars, cVars
  <2>2. QED
    BY <1>3, <2>1
<1>9. QED
  BY <1>4, <1>5, <1>6, <1>7, <1>8 DEF Next

LEMMA DecisionStep ==
  ASSUME ConsoleInv, DecisionInv, [Next]_vars
  PROVE  DecisionInv'
<1>1. Asked'
  BY AskedStep DEF DecisionInv
<1>2. CASE ServePermissions
  BY <1>1, <1>2, PermissionStep DEF ServePermissions, DecisionInv
<1>3. CASE \E i \in DOMAIN calls, ok \in BOOLEAN : ServeDecision(i, ok)
  <2>1. PICK i \in DOMAIN calls, ok \in BOOLEAN : ServeDecision(i, ok)
    BY <1>3
  <2>2. calls[i].decision \in Decisions
    BY <2>1 DEF DecisionInv, Asked, ServeDecision
  <2>3. LogOK(plog', told') /\ Continues
    BY <2>1, <2>2, ResolveStep DEF DecisionInv, ServeDecision
  <2>4. QED
    BY <1>1, <2>1, <2>3, PickingsStay DEF DecisionInv, ServeDecision, workerVars
<1>4. CASE UNCHANGED <<plog, told, picked, thread>>
  BY <1>1, <1>4 DEF DecisionInv, Pickings, Indices
<1>5. ASSUME ~ServePermissions, ~\E i \in DOMAIN calls, ok \in BOOLEAN : ServeDecision(i, ok)
      PROVE  UNCHANGED <<plog, told, picked, thread>>
  BY <1>5
  DEF Next, ChangeElsewhere, Poll, Receive, FailFetch, RefreshButton, Press, Answer, Serve,
      TakeCookie, Succeed, Invalidate, Finish, FailCall, LeavePage, OpenPage, PickProfile,
      vars, pVars, daemonVars, workerVars
<1>6. QED
  BY <1>2, <1>3, <1>4, <1>5

LEMMA DecisionInit == Init => DecisionInv
<1> SUFFICES ASSUME Init PROVE DecisionInv
  OBVIOUS
<1>1. plog = <<>> /\ told = NoDecision /\ picked = [t \in Threads |-> {}] /\ calls = <<>>
  BY DEF Init, PermissionsInit
<1>2. thread = [t \in Threads |-> IF t = "later" THEN "off" ELSE "runs"]
  BY DEF Init, PermissionsInit
<1>3. QED
  BY <1>1, <1>2 DEF DecisionInv, LogOK, Pickings, Places, Asked

(* What is recorded as resolved is what the agent was told, whichever of   *)
(* operators, watchdog and worker threads decides how often, and whoever   *)
(* crashes or is given the run meanwhile.                                  *)
THEOREM DecisionsStand == Spec => []DecisionStands
<1>1. Init => ConsoleInv /\ DecisionInv
  BY InvInit, DecisionInit
<1>2. ConsoleInv /\ DecisionInv /\ [Next]_vars => ConsoleInv' /\ DecisionInv'
  BY StepKeeps, DecisionStep
<1>3. QED
  BY <1>1, <1>2, DecisionInvStands, PTL DEF Spec

-----------------------------------------------------------------------------
(* What the worker's threads apply when there is one decision, nothing     *)
(* fails, and the run stays with them.                                     *)
Asking == Indices("permission.resolve_requested")

OnlyOne == \A m, n \in Asking : m = n

Undisturbed == faults = 0 /\ OnlyOne /\ ~raced /\ ~taken

(* The first attempt is the only one, none of its threads ends, one at a   *)
(* time is between looking and adding, and what the agent was told whoever *)
(* told it remembers.                                                      *)
Calm ==
  /\ owner \in {"local", "worker"} /\ thread["later"] = "off"
  /\ \A t \in FirstThreads :
       /\ thread[t] \in {"runs", "checked"}
       /\ thread[t] = "checked" => Due(t) \notin applied["first"]
  /\ ~(thread["main"] = "checked" /\ thread["heartbeat"] = "checked")
  /\ owner = "local" => Asking = {}
  /\ owner = "worker" =>
       ~RunOver /\ (told # NoDecision => Asking # {} /\ Asking \subseteq applied["first"])

SparesInv ==
  /\ faults \in Nat /\ applied \in [{"first", "later"} -> SUBSET Nat]
  /\ Undisturbed => Calm

LEMMA FewerBefore ==
  ASSUME Continues
  PROVE  Asking \subseteq Asking' /\ (OnlyOne' => OnlyOne)
BY DEF Continues, Asking, Indices, OnlyOne

(* Whether a request fails is counted.                                     *)
LEMMA FailsCounts == ASSUME faults \in Nat, Fails PROVE faults' \in Nat /\ faults' # 0
BY DEF Fails

LEMMA PostCounts ==
  ASSUME faults \in Nat, NEW decision, NEW ok \in BOOLEAN, NEW asked,
         PostDecision(decision, ok, asked)
  PROVE  /\ faults' \in Nat
         /\ faults' = 0 => /\ faults = 0 /\ faults' = faults
                           /\ ~ok => Refuses(asked) /\ told' = told
BY FailsCounts DEF PostDecision

(* One more entry in the log.                                              *)
LEMMA OneMore ==
  ASSUME LogOK(plog, told), NEW e \in Records, plog' = Append(plog, e)
  PROVE  /\ Continues
         /\ Len(plog) + 1 \in DOMAIN plog' /\ plog'[Len(plog) + 1] = e
         /\ Len(plog) + 1 \notin DOMAIN plog
         /\ \A n \in DOMAIN plog' : n \in DOMAIN plog \/ n = Len(plog) + 1
<1>1. plog \in Seq(Records) /\ DOMAIN plog = 1 .. Len(plog) /\ Len(plog) \in Nat
  BY DEF LogOK
<1>2. /\ DOMAIN Append(plog, e) = 1 .. Len(plog) + 1
      /\ \A n \in 1 .. Len(plog) : Append(plog, e)[n] = plog[n]
      /\ Append(plog, e)[Len(plog) + 1] = e
  BY <1>1, AppendProperties
<1>3. QED
  BY <1>1, <1>2 DEF Continues

(* An entry of another type than the given one.                            *)
LEMMA OtherEntry ==
  ASSUME LogOK(plog, told), NEW e \in Records, plog' = Append(plog, e),
         NEW type, e.type # type
  PROVE  Indices(type)' = Indices(type)
<1>1. /\ Continues /\ plog'[Len(plog) + 1] = e
      /\ \A n \in DOMAIN plog' : n \in DOMAIN plog \/ n = Len(plog) + 1
  BY OneMore
<1>2. QED
  BY <1>1 DEF Continues, Indices

LEMMA PlainEntry ==
  ASSUME LogOK(plog, told),
         NEW type \in Types \ {"permission.resolve_requested", "run.failed"},
         NEW decision \in Says,
         plog' = plog \/ plog' = Append(plog, Entry(type, decision))
  PROVE  Continues /\ Asking' = Asking /\ RunOver' = RunOver
<1>1. PICK e : e = Entry(type, decision)
  OBVIOUS
<1>2. e \in Records /\ e.type = type
  BY <1>1, Entries
<1>3. CASE plog' = plog
  BY <1>3 DEF Continues, Asking, Indices, RunOver
<1>4. CASE plog' = Append(plog, e)
  BY <1>2, <1>4, OneMore, OtherEntry DEF Asking, RunOver
<1>5. QED
  BY <1>1, <1>3, <1>4

(* A step that leaves all of this alone.                                   *)
LEMMA SameSpares ==
  ASSUME SparesInv, Asking' = Asking, RunOver' = RunOver,
         UNCHANGED <<owner, taken, told, thread, picked, applied, raced, faults>>
  PROVE  SparesInv'
<1>1. Undisturbed' <=> Undisturbed
  BY DEF Undisturbed, OnlyOne
<1>2. Calm' <=> Calm
  BY DEF Calm, Due
<1>3. QED
  BY <1>1, <1>2 DEF SparesInv

(* A decision of an operator or of the watchdog.                           *)
LEMMA ResolveSpares ==
  ASSUME LogOK(plog, told), Pickings, SparesInv, NEW decision \in Decisions,
         NEW ok \in BOOLEAN, ResolvePermission(decision, ok),
         UNCHANGED <<owner, taken, thread, picked, applied, raced>>
  PROVE  SparesInv'
<1>1. CASE owner \in Workers /\ ~RunOver
  <2>1. PICK e : e = Recorded(decision, owner)
    OBVIOUS
  <2>2. /\ e \in Records /\ e.type = "permission.resolve_requested"
        /\ plog' = Append(plog, e) /\ told' = told /\ faults' = faults
    BY <1>1, <2>1, Recordings DEF ResolvePermission
  <2>3. RunOver' = RunOver
    BY <2>2, OtherEntry DEF RunOver
  <2>4. OnlyOne' => OnlyOne /\ Asking = {}
    <3>1. Len(plog) + 1 \in Asking' /\ Len(plog) + 1 \notin Asking /\ Continues
      BY <2>2, OneMore DEF Asking, Indices
    <3>2. QED
      BY <3>1, FewerBefore DEF OnlyOne
  <2>5. ASSUME Undisturbed'
        PROVE  Calm'
    <3>1. Calm /\ Asking = {}
      BY <2>2, <2>4, <2>5 DEF Undisturbed, SparesInv
    <3>2. owner = "worker" /\ told = NoDecision
      BY <1>1, <3>1 DEF Calm, Workers
    <3>3. QED
      BY <2>2, <2>3, <3>1, <3>2 DEF Calm, Due
  <2>6. QED
    BY <2>2, <2>5 DEF SparesInv
<1>2. CASE ~(owner \in Workers /\ ~RunOver)
  <2>1. PostDecision(decision, ok, Local) /\ plog' = Append(plog, Entry(Outcome(ok), decision))
    BY <1>2 DEF ResolvePermission
  <2>2. Asking' = Asking /\ RunOver' = RunOver
    BY <2>1, PlainEntry DEF Outcome, Types, Says
  <2>3. faults' \in Nat /\ (faults' = 0 => faults = 0)
    BY <2>1, FailsCounts DEF PostDecision, SparesInv
  <2>4. ASSUME Undisturbed'
        PROVE  Calm'
    <3>1. Calm
      BY <2>2, <2>3, <2>4 DEF Undisturbed, OnlyOne, SparesInv
    <3>2. owner = "local"
      BY <1>2, <3>1 DEF Calm, Workers
    <3>3. QED
      BY <2>2, <3>1, <3>2 DEF Calm, Due
  <2>5. QED
    BY <2>3, <2>4 DEF SparesInv
<1>3. QED
  BY <1>1, <1>2

(* Threads that look at what they have picked.                             *)
LEMMA LookSpares ==
  ASSUME LogOK(plog, told), Pickings, SparesInv, NEW t \in Threads,
         FetchControl(t) \/ SkipControl(t)
  PROVE  SparesInv'
<1>1. PICK S : picked' = [picked EXCEPT ![t] = S]
  BY DEF FetchControl, SkipControl
<1>2. /\ thread[t] = "runs"
      /\ UNCHANGED <<owner, taken, plog, told, thread, applied, raced, faults>>
  BY DEF FetchControl, SkipControl, At, runVars, daemonVars
<1>3. Asking' = Asking /\ RunOver' = RunOver
  BY <1>2 DEF Asking, Indices, RunOver
<1>4. Undisturbed' <=> Undisturbed
  BY <1>2, <1>3 DEF Undisturbed, OnlyOne
<1>5. ASSUME NEW u \in Threads, thread[u] = "checked"
      PROVE  picked'[u] = picked[u]
  BY <1>1, <1>2, <1>5 DEF Pickings
<1>6. Calm => Calm'
  BY <1>2, <1>3, <1>5 DEF Calm, Due, Threads
<1>7. QED
  BY <1>2, <1>4, <1>6 DEF SparesInv

LEMMA CheckSpares ==
  ASSUME LogOK(plog, told), Pickings, SparesInv, NEW t \in Threads, CheckControl(t)
  PROVE  SparesInv'
<1>1. /\ thread[t] = "runs" /\ picked[t] # {} /\ Due(t) \notin applied[Context(t)]
      /\ thread' = [thread EXCEPT ![t] = "checked"] /\ raced' = (raced \/ Racing(t))
      /\ UNCHANGED <<owner, taken, plog, told, picked, applied, faults>>
  BY DEF CheckControl, At, AlreadyApplied, runVars, daemonVars
<1>2. Asking' = Asking /\ RunOver' = RunOver
  BY <1>1 DEF Asking, Indices, RunOver
<1>3. ASSUME Undisturbed'
      PROVE  Calm'
  <2>1. ~raced /\ ~Racing(t)
    BY <1>1, <1>3, Zenon DEF Undisturbed
  <2>2. OnlyOne /\ Calm
    BY <1>1, <1>2, <1>3, <2>1 DEF Undisturbed, OnlyOne, SparesInv
  <2>3. t \in FirstThreads /\ Context(t) = "first" /\ t # "later"
    BY <1>1, <2>2 DEF Calm, Threads, Context, FirstThreads
  <2>4. ASSUME NEW u \in FirstThreads \ {t}, thread[u] = "checked"
        PROVE  FALSE
    <3>1. Due(u) \in Asking /\ Due(t) \in Asking
      BY <1>1, <2>4, DueIsPicked DEF Pickings, Asking, Threads
    <3>2. QED
      BY <2>1, <2>2, <2>3, <2>4, <3>1 DEF Racing, OnlyOne
  <2>5. /\ \A u \in Threads : Due(u)' = Due(u)
        /\ \A u \in Threads \ {t} : thread'[u] = thread[u]
        /\ thread'[t] = "checked"
    BY <1>1 DEF Due, Pickings
  <2>6. QED
    BY <1>1, <1>2, <2>2, <2>3, <2>4, <2>5 DEF Calm, FirstThreads, Threads
<1>4. QED
  BY <1>1, <1>3 DEF SparesInv

(* A thread that has looked, and is alone with what it is about to apply.  *)
LEMMA DueOfMain ==
  ASSUME LogOK(plog, told), Pickings, NEW t \in Threads, thread[t] = "checked", OnlyOne, Calm
  PROVE  /\ t \in FirstThreads /\ Context(t) = "first" /\ Due(t) \in Nat
         /\ Asking = {Due(t)} /\ Due(t) \notin applied["first"]
         /\ Accepted(t) /\ owner = "worker" /\ told = NoDecision
<1>1. t \in FirstThreads /\ Context(t) = "first" /\ Home(t) = "worker"
  BY DEF Calm, Threads, FirstThreads, Context, Home
<1>2. Due(t) \in Asking /\ Due(t) \in Nat
  BY DueIsPicked DEF Pickings, Asking
<1>3. Asking = {Due(t)}
  BY <1>2 DEF OnlyOne
<1>4. QED
  BY <1>1, <1>2, <1>3 DEF Calm, Accepted

LEMMA ApplySpares ==
  ASSUME LogOK(plog, told), Pickings, SparesInv, NEW t \in Threads, ApplyControl(t)
  PROVE  SparesInv'
<1>1. PICK decision : decision = plog[Due(t)].decision
  OBVIOUS
<1>2. /\ thread[t] = "checked" /\ thread' = [thread EXCEPT ![t] = "runs"]
      /\ picked' = [picked EXCEPT ![t] = picked[t] \ {Due(t)}]
      /\ applied' = [applied EXCEPT ![Context(t)] = applied[Context(t)] \cup {Due(t)}]
      /\ PostDecision(decision, TRUE, t \in FirstThreads)
      /\ plog' = Append(plog, Entry("permission.resolved", decision))
      /\ UNCHANGED <<owner, taken, raced>>
  BY <1>1 DEF ApplyControl, Adds, At, runVars
<1>3. Due(t) \in Asking /\ Due(t) \in Nat /\ Due(t) \in DOMAIN plog
  BY <1>2, DueIsPicked DEF Pickings, Asking, Indices
<1>4. decision \in Decisions
  BY <1>1, <1>3 DEF LogOK, Fits, Asking, Indices
<1>5. Asking' = Asking /\ RunOver' = RunOver
  BY <1>2, <1>4, PlainEntry DEF Types, Says
<1>6. faults' \in Nat /\ (faults' = 0 => faults = 0)
  BY <1>2, PostCounts DEF SparesInv
<1>7. applied' \in [{"first", "later"} -> SUBSET Nat]
  BY <1>2, <1>3 DEF SparesInv
<1>8. ASSUME Undisturbed'
      PROVE  Calm'
  <2>1. OnlyOne /\ Calm
    BY <1>2, <1>5, <1>6, <1>8 DEF Undisturbed, OnlyOne, SparesInv
  <2>2. /\ t \in FirstThreads /\ Context(t) = "first" /\ Asking = {Due(t)}
        /\ owner = "worker"
    BY <1>2, <2>1, DueOfMain
  <2>3. ASSUME NEW u \in FirstThreads
        PROVE  thread'[u] = "runs"
    BY <1>2, <2>1, <2>2, <2>3 DEF Calm, FirstThreads, Pickings, Threads
  <2>4. thread'["later"] = "off"
    BY <1>2, <2>1, <2>2 DEF Calm, FirstThreads, Pickings, Threads
  <2>5. Asking \subseteq applied'["first"]
    BY <1>2, <2>2 DEF SparesInv
  <2>6. QED
    BY <1>2, <1>5, <2>1, <2>2, <2>3, <2>4, <2>5 DEF Calm, FirstThreads
<1>9. QED
  BY <1>6, <1>7, <1>8 DEF SparesInv

(* A thread fails only if the agent was told already, or a request failed. *)
LEMMA FailSpares ==
  ASSUME LogOK(plog, told), Pickings, SparesInv, NEW t \in Threads,
         FailControl(t) \/ LoseReport(t)
  PROVE  SparesInv'
<1>1. PICK decision : decision = plog[Due(t)].decision
  OBVIOUS
<1>2. /\ thread[t] = "checked"
      /\ applied' = [applied EXCEPT ![Context(t)] = applied[Context(t)] \cup {Due(t)}]
      /\ UNCHANGED <<owner, taken, raced>>
  BY DEF FailControl, LoseReport, Adds, At, runVars
<1>3. Due(t) \in Asking /\ Due(t) \in Nat /\ Due(t) \in DOMAIN plog
  BY <1>2, DueIsPicked DEF Pickings, Asking, Indices
<1>4. applied' \in [{"first", "later"} -> SUBSET Nat]
  BY <1>2, <1>3 DEF SparesInv
<1>5. Continues
  <2>1. decision \in Decisions
    BY <1>1, <1>3 DEF LogOK, Fits, Asking, Indices
  <2>2. PICK type \in {"permission.resolved", "permission.resolve_failed"} :
          plog' = plog \/ plog' = Append(plog, Entry(type, decision))
    BY <1>1 DEF FailControl, LoseReport
  <2>3. QED
    BY <2>1, <2>2, PlainEntry DEF Types, Says
<1>6. CASE LoseReport(t)
  BY <1>4, <1>6, FailsCounts DEF LoseReport, SparesInv, Undisturbed
<1>7. CASE FailControl(t)
  <2>1. PICK ok \in BOOLEAN : /\ ok => ~Accepted(t)
                              /\ PostDecision(decision, ok, t \in FirstThreads)
    BY <1>1, <1>7 DEF FailControl
  <2>2. /\ faults' \in Nat
        /\ faults' = 0 => faults = 0 /\ (~ok => Refuses(t \in FirstThreads))
    BY <2>1, PostCounts DEF SparesInv
  <2>3. ASSUME Undisturbed'
        PROVE  FALSE
    <3>1. OnlyOne /\ Calm /\ faults' = 0
      BY <1>2, <1>5, <2>2, <2>3, FewerBefore DEF Undisturbed, SparesInv
    <3>2. t \in FirstThreads /\ Accepted(t) /\ told = NoDecision
      BY <1>2, <3>1, DueOfMain
    <3>3. ~Refuses(t \in FirstThreads)
      BY <3>2 DEF Refuses, Accepted
    <3>4. QED
      BY <2>1, <2>2, <3>1, <3>2, <3>3
  <2>4. QED
    BY <1>4, <2>2, <2>3 DEF SparesInv
<1>8. QED
  BY <1>6, <1>7

LEMMA ReportSpares ==
  ASSUME Pickings, SparesInv, LogOK(plog, told), NEW t \in Threads, ReportFailure(t)
  PROVE  SparesInv'
<1>1. /\ thread[t] = "raised"
      /\ plog' = plog \/ plog' = Append(plog, Entry("run.failed", "worker"))
      /\ UNCHANGED <<owner, taken, told, picked, applied, raced>>
  BY DEF ReportFailure, At, runVars, daemonVars
<1>2. faults' \in Nat /\ (faults' = 0 => faults = 0)
  BY FailsCounts DEF ReportFailure, SparesInv
<1>3. Continues
  BY <1>1, PlainStep DEF Types, Says
<1>4. Undisturbed' => Undisturbed
  BY <1>1, <1>2, <1>3, FewerBefore DEF Undisturbed
<1>5. ~Calm
  BY <1>1 DEF Calm, Threads
<1>6. QED
  BY <1>1, <1>2, <1>4, <1>5 DEF SparesInv

LEMMA RestartSpares ==
  ASSUME LogOK(plog, told), SparesInv, RestartControlPlane
  PROVE  SparesInv'
<1>1. /\ plog' = plog \/ (owner = "local" /\ plog' = Append(plog, Entry("run.failed", "startup")))
      /\ UNCHANGED <<owner, taken, told, thread, picked, applied, raced, faults>>
  BY DEF RestartControlPlane, runVars, daemonVars, workerVars
<1>2. CASE plog' = plog
  BY <1>1, <1>2, SameSpares DEF Asking, Indices, RunOver
<1>3. CASE owner = "local" /\ plog' = Append(plog, Entry("run.failed", "startup"))
  <2>1. PICK e : e = Entry("run.failed", "startup")
    OBVIOUS
  <2>2. e \in Records /\ e.type = "run.failed"
    BY <2>1, Entries DEF Types, Says
  <2>3. Asking' = Asking
    BY <1>3, <2>1, <2>2, OtherEntry DEF Asking
  <2>4. Undisturbed' <=> Undisturbed
    BY <1>1, <2>3 DEF Undisturbed, OnlyOne
  <2>5. Calm => Calm'
    BY <1>1, <1>3, <2>3 DEF Calm, Due
  <2>6. QED
    BY <1>1, <2>4, <2>5 DEF SparesInv
<1>4. QED
  BY <1>1, <1>2, <1>3

LEMMA PermissionSpares ==
  ASSUME LogOK(plog, told), Pickings, SparesInv, PermissionsNext
  PROVE  SparesInv'
<1>1. ASSUME NEW type \in Types \ {"permission.resolve_requested", "run.failed"},
             NEW decision \in Says,
             plog' = plog \/ plog' = Append(plog, Entry(type, decision)),
             UNCHANGED <<owner, taken, told, thread, picked, applied, raced, faults>>
      PROVE  SparesInv'
  BY <1>1, PlainEntry, SameSpares
<1>2. CASE AskPermission
  BY <1>1, <1>2 DEF AskPermission, Types, Says, runVars, daemonVars, workerVars
<1>3. CASE AnnounceDecision
  BY <1>1, <1>3 DEF AnnounceDecision, Types, Says, runVars, workerVars
<1>4. CASE RestartControlPlane
  BY <1>4, RestartSpares
<1>5. CASE WatchdogWakes
  BY <1>1, <1>5 DEF WatchdogWakes, Types, Says, runVars, daemonVars, workerVars
<1>6. CASE \E ok \in BOOLEAN : WatchdogDenies(ok)
  BY <1>6, ResolveSpares DEF WatchdogDenies, Decisions, runVars, workerVars
<1>7. CASE CrashWorker
  BY <1>1, <1>7 DEF CrashWorker, Types, Says, runVars, daemonVars
<1>8. CASE LoseRun
  <2>1. faults' = faults /\ applied' = applied /\ taken'
    BY <1>8 DEF LoseRun, workerVars
  <2>2. QED
    BY <2>1 DEF SparesInv, Undisturbed
<1>9. CASE ClaimAgain
  <2>1. /\ owner = "queue" /\ UNCHANGED <<plog, taken, applied, raced, faults>>
    BY <1>9 DEF ClaimAgain
  <2>2. ~Calm
    BY <2>1 DEF Calm
  <2>3. Undisturbed' <=> Undisturbed
    BY <2>1 DEF Undisturbed, OnlyOne, Asking, Indices
  <2>4. QED
    BY <2>1, <2>2, <2>3 DEF SparesInv
<1>10. CASE \E t \in Threads : FetchControl(t) \/ SkipControl(t)
  BY <1>10, LookSpares
<1>11. CASE \E t \in Threads : CheckControl(t) \/ ApplyControl(t)
  BY <1>11, CheckSpares, ApplySpares
<1>12. CASE \E t \in Threads : FailControl(t) \/ LoseReport(t) \/ ReportFailure(t)
  BY <1>12, FailSpares, ReportSpares
<1>13. QED
  BY <1>2, <1>3, <1>4, <1>5, <1>6, <1>7, <1>8, <1>9, <1>10, <1>11, <1>12
  DEF PermissionsNext, GoesOn

LEMMA SparesStep ==
  ASSUME ConsoleInv, DecisionInv, SparesInv, [Next]_vars
  PROVE  SparesInv'
<1>1. CASE ServePermissions
  BY <1>1, PermissionSpares DEF ServePermissions, DecisionInv
<1>2. CASE \E i \in DOMAIN calls, ok \in BOOLEAN : ServeDecision(i, ok)
  <2>1. PICK i \in DOMAIN calls, ok \in BOOLEAN : ServeDecision(i, ok)
    BY <1>2
  <2>2. calls[i].decision \in Decisions
    BY <2>1 DEF DecisionInv, Asked, ServeDecision
  <2>3. UNCHANGED <<owner, taken, thread, picked, applied, raced>>
    BY <2>1 DEF ServeDecision, runVars, workerVars
  <2>4. QED
    BY <2>1, <2>2, <2>3, ResolveSpares DEF ServeDecision, DecisionInv
<1>3. CASE /\ UNCHANGED <<plog, owner, taken, told, thread, picked, applied, raced>>
           /\ faults' = faults \/ Fails
  <2>1. Asking' = Asking /\ RunOver' = RunOver
    BY <1>3 DEF Asking, Indices, RunOver
  <2>2. CASE faults' = faults
    BY <1>3, <2>1, <2>2, SameSpares
  <2>3. CASE Fails
    <3>1. faults' \in Nat /\ faults' # 0 /\ applied' = applied
      BY <1>3, <2>3, FailsCounts DEF SparesInv
    <3>2. QED
      BY <3>1 DEF SparesInv, Undisturbed
  <2>4. QED
    BY <1>3, <2>2, <2>3
<1>4. QED
  BY <1>1, <1>2, <1>3
  DEF Next, ChangeElsewhere, Poll, Receive, FailFetch, RefreshButton, Press, Answer, Serve,
      TakeCookie, Succeed, Invalidate, Finish, FailCall, LeavePage, OpenPage, PickProfile,
      vars, pVars, runVars, daemonVars, workerVars

LEMMA SparesInit == Init => SparesInv
<1> SUFFICES ASSUME Init PROVE SparesInv
  OBVIOUS
<1>1. /\ plog = <<>> /\ told = NoDecision /\ faults = 0 /\ owner \in {"local", "worker"}
      /\ thread = [t \in Threads |-> IF t = "later" THEN "off" ELSE "runs"]
      /\ applied = [c \in {"first", "later"} |-> {}]
  BY DEF Init, PermissionsInit
<1>2. Asking = {} /\ ~RunOver
  BY <1>1 DEF Asking, Indices, RunOver
<1>3. thread["later"] = "off" /\ \A t \in FirstThreads : thread[t] = "runs"
  BY <1>1 DEF FirstThreads, Threads
<1>4. QED
  BY <1>1, <1>2, <1>3 DEF SparesInv, Calm, FirstThreads

(* More than one: counted.                                                 *)
LEMMA AtMostOne ==
  ASSUME LogOK(plog, told), ~(Cardinality(Asking) > 1)
  PROVE  OnlyOne
<1>1. Len(plog) \in Nat /\ Asking \in SUBSET (1 .. Len(plog))
  BY DEF LogOK, Asking, Indices
<1>2. IsFiniteSet(Asking)
  <2>1. IsFiniteSet(1 .. Len(plog))
    BY <1>1, FS_Interval
  <2>2. QED
    BY <1>1, <2>1, FS_Subset
<1>3. Cardinality(Asking) = 0 \/ Cardinality(Asking) = 1
  BY <1>2, FS_CardinalityType
<1>4. Asking = {} \/ \E x : Asking = {x}
  BY <1>2, <1>3, FS_EmptySet, FS_Singleton
<1>5. QED
  BY <1>4 DEF OnlyOne

(* One decision ends neither the run nor one of the worker's threads,      *)
(* though both may fetch it and the log may show it late, unless a request *)
(* fails, the run is taken from the worker, or both threads look before    *)
(* either adds it to applied_controls.  The worker may crash and the       *)
(* control plane restart any number of times.                              *)
THEOREM OneDecisionSpares == Spec => []OneDecisionSparesTheRun
<1>1. Init => ConsoleInv /\ DecisionInv /\ SparesInv
  BY InvInit, DecisionInit, SparesInit
<1>2. /\ ConsoleInv /\ DecisionInv /\ SparesInv /\ [Next]_vars
      => ConsoleInv' /\ DecisionInv' /\ SparesInv'
  BY StepKeeps, DecisionStep, SparesStep
<1>3. DecisionInv /\ SparesInv => OneDecisionSparesTheRun
  <2>1. SUFFICES ASSUME DecisionInv, SparesInv, faults = 0, ~taken, ~raced,
                        ~(Cardinality(Asking) > 1)
                 PROVE  \A t \in Threads : thread[t] \notin {"raised", "ended"}
    BY DEF OneDecisionSparesTheRun, SparesInv, Asking
  <2>2. OnlyOne
    BY <2>1, AtMostOne DEF DecisionInv
  <2>3. Calm
    BY <2>1, <2>2 DEF SparesInv, Undisturbed
  <2>4. QED
    BY <2>3 DEF Calm, Threads, FirstThreads
<1>4. QED
  BY <1>1, <1>2, <1>3, PTL DEF Spec
=============================================================================
