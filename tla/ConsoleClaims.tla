---------------------------- MODULE ConsoleClaims ----------------------------
(***************************************************************************)
(* What a tab of the console holds, and that what a guarded button did is  *)
(* not done again while that withdraws the button, for any number of uses, *)
(* changes made elsewhere, lost answers and visits of the page.            *)
(***************************************************************************)
EXTENDS ConsoleProofs

(* The operation took effect through this call.                            *)
Took(c) == c.stage # "sent" /\ (Is("cookie") => c.stage # "answered")

TookCalls == {i \in DOMAIN calls : Took(calls[i])}

(* How a call goes on: what went wrong stays so, and so does the effect (a *)
(* decision is right or wrong when it is answered).                        *)
Goes(c, d) ==
  /\ d.ok => c.ok \/ Deciding
  /\ d.clean => c.clean
  /\ d.from = "here" => c.from = "here"
  /\ Took(c) => Took(d)
  /\ c.stage = "over" => d.stage = "over"

(* It goes on without an effect, or fails.                                 *)
Quiet(c, d) == d.mark = c.mark /\ (Took(d) /\ d.ok => Took(c))

(* It waits for fetches that are under way.                                *)
Waits(c) == \A k \in c.wait : flight[k] # 0

(* Every step but pressing the button leaves the calls there are.          *)
CallsGo ==
  /\ op' = op /\ DOMAIN calls' = DOMAIN calls
  /\ \A i \in DOMAIN calls : \A c, d : c = calls[i] /\ d = calls'[i] => Goes(c, d)

CallsQuiet ==
  /\ CallsGo
  /\ \A i \in DOMAIN calls : \A c, d : c = calls[i] /\ d = calls'[i] => Quiet(c, d)

WaitsOK == \A i \in DOMAIN calls : \A c : c = calls[i] => Waits(c)

-----------------------------------------------------------------------------
(* Steps of the calls.                                                     *)
LEMMA SameCalls ==
  ASSUME op' = op, calls' = calls
  PROVE  CallsQuiet
BY DEF CallsQuiet, CallsGo, Goes, Quiet

LEMMA OneCall ==
  ASSUME ConsoleInv, op' = op, NEW i \in DOMAIN calls, NEW d, calls' = [calls EXCEPT ![i] = d],
         NEW c, c = calls[i], Goes(c, d)
  PROVE  CallsGo /\ (Quiet(c, d) => CallsQuiet)
<1>1. DOMAIN calls' = DOMAIN calls
  BY DEF ConsoleInv
<1>2. \A j \in DOMAIN calls : calls'[j] = IF j = i THEN d ELSE calls[j]
  BY DEF ConsoleInv
<1>3. \A x : Goes(x, x) /\ Quiet(x, x)
  BY DEF Goes, Quiet
<1>4. QED
  BY <1>1, <1>2, <1>3 DEF CallsGo, CallsQuiet

LEMMA ArrivedGo ==
  ASSUME ConsoleInv, op' = op, NEW k \in Keys, NEW ok \in BOOLEAN, calls' = Arrived(k, ok)
  PROVE  CallsQuiet
<1>1. DOMAIN calls' = DOMAIN calls
  BY ArrivedSeq
<1>2. ASSUME NEW i \in DOMAIN calls, NEW c, NEW d, c = calls[i], d = calls'[i]
      PROVE  Goes(c, d) /\ Quiet(c, d)
  <2>1. /\ d.stage = c.stage /\ d.ok = c.ok /\ d.from = c.from /\ d.mark = c.mark
        /\ d.clean = (c.clean /\ (k \in c.wait => ok))
    BY <1>2, ArrivedCalls
  <2>2. QED
    BY <2>1 DEF Goes, Quiet, Took
<1>3. QED
  BY <1>1, <1>2 DEF CallsQuiet, CallsGo

(* cs is what the calls have become before their button is abandoned.      *)
LEMMA AbandonedGo ==
  ASSUME op' = op, NEW cs \in Seq(CallRecords), NEW how \in {"replaced", "left"},
         calls' = Abandoned(cs, how), DOMAIN cs = DOMAIN calls,
         \A i \in DOMAIN calls : \A c, d : c = calls[i] /\ d = cs[i] => Goes(c, d) /\ Quiet(c, d)
  PROVE  CallsQuiet /\ \A i \in DOMAIN calls : \A d : d = calls'[i] => d.from # "here"
<1>1. /\ DOMAIN calls' = DOMAIN calls
      /\ \A i \in DOMAIN cs : \A d : d = calls'[i] =>
           /\ d.stage = cs[i].stage /\ d.ok = cs[i].ok /\ d.clean = cs[i].clean
           /\ d.from # "here" /\ d.mark = cs[i].mark
  BY AbandonedCalls
<1>2. ASSUME NEW i \in DOMAIN calls, NEW c, NEW d, c = calls[i], d = calls'[i]
      PROVE  Goes(c, d) /\ Quiet(c, d) /\ d.from # "here"
  <2>1. PICK e : e = cs[i]
    OBVIOUS
  <2>2. Goes(c, e) /\ Quiet(c, e)
    BY <1>2, <2>1
  <2>3. /\ d.stage = e.stage /\ d.ok = e.ok /\ d.clean = e.clean
        /\ d.from # "here" /\ d.mark = e.mark
    BY <1>1, <1>2, <2>1
  <2>4. QED
    BY <2>2, <2>3 DEF Goes, Quiet, Took
<1>3. QED
  BY <1>1, <1>2 DEF CallsQuiet, CallsGo

LEMMA MoveGoes ==
  ASSUME ConsoleInv, LeavePage \/ PickProfile
  PROVE  /\ CallsQuiet
         /\ \A i \in DOMAIN calls : \A d : d = calls'[i] => d.from # "here"
<1>1. op' = op /\ calls \in Seq(CallRecords)
  BY DEF LeavePage, PickProfile, ConsoleInv
<1>2. PICK how \in {"replaced", "left"} : calls' = Abandoned(calls, how)
  BY DEF LeavePage, PickProfile
<1>3. \A c : Goes(c, c) /\ Quiet(c, c)
  BY DEF Goes, Quiet
<1>4. QED
  BY <1>1, <1>2, <1>3, AbandonedGo

LEMMA SucceedGoes ==
  ASSUME ConsoleInv, NEW i \in DOMAIN calls, Succeed(i)
  PROVE  CallsQuiet
<1>1. op' = op /\ calls \in Seq(CallRecords)
  BY DEF Succeed, ConsoleInv
<1>2. PICK c : c = calls[i]
  OBVIOUS
<1>3. PICK s : s = [c EXCEPT !.stage = "settling"]
  OBVIOUS
<1>4. PICK after : after = [calls EXCEPT ![i] = s]
  OBVIOUS
<1>5. calls' = after \/ calls' = Abandoned(after, "replaced")
  BY <1>2, <1>3, <1>4 DEF Succeed
<1>6. c \in CallRecords /\ c.stage = IF Is("cookie") THEN "accepted" ELSE "answered"
  BY <1>1, <1>2 DEF Succeed
<1>7. /\ s \in CallRecords /\ s.stage = "settling" /\ s.ok = c.ok /\ s.clean = c.clean
      /\ s.from = c.from /\ s.mark = c.mark
  BY <1>3, <1>6 DEF CallRecords, Stages
<1>8. Goes(c, s) /\ Quiet(c, s)
  BY <1>6, <1>7 DEF Goes, Quiet, Took
<1>9. CASE calls' = after
  BY <1>1, <1>2, <1>4, <1>8, <1>9, OneCall
<1>10. CASE calls' = Abandoned(after, "replaced")
  <2>1. after \in Seq(CallRecords) /\ DOMAIN after = DOMAIN calls
    BY <1>1, <1>4, <1>7, ExceptSeq
  <2>2. \A j \in DOMAIN calls : after[j] = IF j = i THEN s ELSE calls[j]
    BY <1>1, <1>4
  <2>3. \A x : Goes(x, x) /\ Quiet(x, x)
    BY DEF Goes, Quiet
  <2>4. \A j \in DOMAIN calls : \A x, y : x = calls[j] /\ y = after[j] => Goes(x, y) /\ Quiet(x, y)
    BY <1>2, <1>8, <2>2, <2>3
  <2>5. QED
    BY <1>1, <1>10, <2>1, <2>4, AbandonedGo
<1>11. QED
  BY <1>5, <1>9, <1>10

(* The steps of one call that have no effect on the server.                *)
LEMMA AnswerGoes ==
  ASSUME ConsoleInv, NEW i \in DOMAIN calls,
         \/ Serve(i) /\ Is("cookie")
         \/ Invalidate(i) \/ Finish(i) \/ FailCall(i)
         \/ \E ok \in BOOLEAN : ServeDecision(i, ok)
  PROVE  CallsGo /\ (Deciding \/ CallsQuiet)
<1>1. op' = op
  BY DEF Serve, Invalidate, Finish, FailCall, ServeDecision
<1>2. PICK c : c = calls[i]
  OBVIOUS
<1>3. c \in CallRecords /\ "settling" \in Stages /\ "over" \in Stages /\ "answered" \in Stages
  BY <1>2, CallIsOK DEF Stages
<1>4. CASE Serve(i) /\ Is("cookie")
  <2>1. PICK d : d = [c EXCEPT !.stage = "answered"]
    OBVIOUS
  <2>2. calls' = [calls EXCEPT ![i] = d] /\ c.stage = "sent"
    BY <1>2, <1>4, <2>1 DEF Serve, Update
  <2>3. /\ d.stage = "answered" /\ d.ok = c.ok /\ d.clean = c.clean /\ d.from = c.from
        /\ d.mark = c.mark
    BY <1>3, <2>1 DEF CallRecords
  <2>4. Goes(c, d) /\ Quiet(c, d)
    BY <1>4, <2>2, <2>3 DEF Goes, Quiet, Took
  <2>5. QED
    BY <1>1, <1>2, <2>2, <2>4, OneCall
<1>5. CASE Invalidate(i)
  <2>1. PICK S : S = Awaited(i)
    OBVIOUS
  <2>2. PICK b : b = (c.clean /\ here /\ FirstLoads(S) = {})
    OBVIOUS
  <2>3. PICK d : d = [c EXCEPT !.step = @ + 1, !.wait = S, !.clean = b]
    OBVIOUS
  <2>4. calls' = [calls EXCEPT ![i] = d] /\ c.stage = "settling"
    <3>1. [c EXCEPT !.step = @ + 1, !.wait = S, !.clean = @ /\ here /\ FirstLoads(S) = {}] = d
      BY <2>2, <2>3
    <3>2. QED
      BY <1>2, <1>5, <2>1, <3>1 DEF Invalidate, Update
  <2>5. /\ d.stage = "settling" /\ d.ok = c.ok /\ (d.clean => c.clean) /\ d.from = c.from
        /\ d.mark = c.mark
    BY <1>3, <2>2, <2>3, <2>4 DEF CallRecords
  <2>6. Goes(c, d) /\ Quiet(c, d)
    BY <2>4, <2>5 DEF Goes, Quiet, Took
  <2>7. QED
    BY <1>1, <1>2, <2>4, <2>6, OneCall
<1>6. CASE Finish(i)
  <2>1. PICK d : d = [c EXCEPT !.stage = "over"]
    OBVIOUS
  <2>2. calls' = [calls EXCEPT ![i] = d] /\ c.stage = "settling"
    BY <1>2, <1>6, <2>1 DEF Finish, Update
  <2>3. /\ d.stage = "over" /\ d.ok = c.ok /\ d.clean = c.clean /\ d.from = c.from
        /\ d.mark = c.mark
    BY <1>3, <2>1 DEF CallRecords
  <2>4. Goes(c, d) /\ Quiet(c, d)
    BY <2>2, <2>3 DEF Goes, Quiet, Took
  <2>5. QED
    BY <1>1, <1>2, <2>2, <2>4, OneCall
<1>7. CASE FailCall(i)
  <2>1. PICK s \in {"settling", "over"} :
          calls' = [calls EXCEPT ![i] = [calls[i] EXCEPT !.ok = FALSE, !.stage = s]]
    BY <1>7 DEF FailCall, Update
  <2>2. PICK d : d = [c EXCEPT !.ok = FALSE, !.stage = s]
    OBVIOUS
  <2>3. calls' = [calls EXCEPT ![i] = d]
    BY <1>2, <2>1, <2>2
  <2>4. /\ d.stage = s /\ d.ok = FALSE /\ d.clean = c.clean /\ d.from = c.from
        /\ d.mark = c.mark /\ c.stage # "over"
    BY <1>2, <1>3, <1>7, <2>2 DEF CallRecords, FailCall
  <2>5. Goes(c, d) /\ Quiet(c, d)
    BY <2>1, <2>4 DEF Goes, Quiet, Took
  <2>6. QED
    BY <1>1, <1>2, <2>3, <2>5, OneCall
<1>8. CASE \E ok \in BOOLEAN : ServeDecision(i, ok)
  <2>1. PICK ok \in BOOLEAN : ServeDecision(i, ok)
    BY <1>8
  <2>2. PICK d : d = [c EXCEPT !.stage = "over", !.ok = ok]
    OBVIOUS
  <2>3. calls' = [calls EXCEPT ![i] = d] /\ Deciding /\ c.stage = "sent"
    BY <1>2, <2>1, <2>2 DEF ServeDecision, Update
  <2>4. d.stage = "over" /\ d.clean = c.clean /\ d.from = c.from /\ d.ok = ok
    BY <1>3, <2>2 DEF CallRecords
  <2>5. Goes(c, d)
    BY <2>3, <2>4 DEF Goes, Took
  <2>6. QED
    BY <1>1, <1>2, <2>3, <2>5, OneCall
<1>9. QED
  BY <1>4, <1>5, <1>6, <1>7, <1>8

-----------------------------------------------------------------------------
(* The step in which the operation takes effect through the call i.        *)
Effective(i) == (Serve(i) /\ ~Is("cookie")) \/ TakeCookie(i)

LEMMA EffectIs ==
  ASSUME NEW i \in DOMAIN calls, Effective(i)
  PROVE  /\ \E stage \in {"answered", "accepted"} :
              Effect(i, stage) /\ (stage = "accepted" <=> Is("cookie"))
         /\ calls[i].stage = IF Is("cookie") THEN "answered" ELSE "sent"
         /\ UNCHANGED <<op, changes, tabVars, cached, flight, pVars>>
<1>1. CASE TakeCookie(i)
  BY <1>1 DEF TakeCookie
<1>2. CASE Serve(i) /\ ~Is("cookie")
  BY <1>2 DEF Serve
<1>3. QED
  BY <1>1, <1>2 DEF Effective

LEMMA EffectGoes ==
  ASSUME ConsoleInv, NEW i \in DOMAIN calls, Effective(i), NEW c, c = calls[i]
  PROVE  /\ CallsGo /\ ~Took(c)
         /\ \A d : d = calls'[i] => /\ Took(d) /\ d.mark = ver + 1 /\ d.wait = c.wait
                                    /\ d.from = c.from
         /\ \A j \in DOMAIN calls : j # i => calls'[j] = calls[j]
         /\ ver' = ver + 1
         /\ closed' = IF Withdraws(i) \/ ver \in closed THEN closed \cup {ver + 1} ELSE closed
         /\ takes' = IF Withdraws(i) \/ takes # 0 THEN takes + 1 ELSE 0
<1>1. PICK stage \in {"answered", "accepted"} :
        Effect(i, stage) /\ (stage = "accepted" <=> Is("cookie"))
  BY EffectIs
<1>2. c.stage = (IF Is("cookie") THEN "answered" ELSE "sent") /\ op' = op
  BY EffectIs
<1>3. PICK d : d = [c EXCEPT !.stage = stage, !.mark = ver + 1]
  OBVIOUS
<1>4. /\ calls' = [calls EXCEPT ![i] = d]
      /\ ver' = ver + 1
      /\ closed' = IF Withdraws(i) \/ ver \in closed THEN closed \cup {ver + 1} ELSE closed
      /\ takes' = IF Withdraws(i) \/ takes # 0 THEN takes + 1 ELSE 0
  BY <1>1, <1>3 DEF Effect, Update
<1>5. c \in CallRecords
  BY DEF ConsoleInv
<1>6. /\ d.stage = stage /\ d.mark = ver + 1 /\ d.ok = c.ok /\ d.clean = c.clean
      /\ d.from = c.from /\ d.wait = c.wait
  BY <1>3, <1>5 DEF CallRecords
<1>7. ~Took(c) /\ Took(d)
  BY <1>1, <1>2, <1>6 DEF Took
<1>8. Goes(c, d)
  BY <1>2, <1>6, <1>7 DEF Goes
<1>9. CallsGo
  BY <1>2, <1>4, <1>8, OneCall
<1>10. calls'[i] = d /\ \A j \in DOMAIN calls : j # i => calls'[j] = calls[j]
  BY <1>4 DEF ConsoleInv
<1>11. QED
  BY <1>4, <1>6, <1>7, <1>9, <1>10

Pressed == \E decision \in Decisions \cup {NoDecision} : Press(decision)

(* Of all steps only an effect, a decision and another press are not quiet.*)
LEMMA StepGoes ==
  ASSUME ConsoleInv, [Next]_vars, ~Pressed
  PROVE  CallsGo /\ (Deciding \/ CallsQuiet \/ \E i \in DOMAIN calls : Effective(i))
<1>1. CASE calls' = calls /\ op' = op
  BY <1>1, SameCalls DEF CallsQuiet
<1>2. CASE \E k \in Keys : Receive(k) \/ FailFetch(k)
  BY <1>2, ArrivedGo DEF Receive, FailFetch, CallsQuiet
<1>3. CASE \E i \in DOMAIN calls : Succeed(i)
  BY <1>3, SucceedGoes DEF CallsQuiet
<1>4. CASE LeavePage \/ PickProfile
  BY <1>4, MoveGoes DEF CallsQuiet
<1>5. CASE \E i \in DOMAIN calls : Effective(i)
  BY <1>5, EffectGoes
<1>6. CASE \E i \in DOMAIN calls : Answer(i) \/ FailCall(i)
  BY <1>3, <1>5, <1>6, AnswerGoes DEF Answer, Effective
<1>7. CASE \/ ChangeElsewhere \/ ServePermissions \/ OpenPage \/ UNCHANGED vars
           \/ RefreshButton \/ \E k \in Keys : Poll(k)
  BY <1>1, <1>7
  DEF ChangeElsewhere, ServePermissions, OpenPage, RefreshButton, Poll, vars, cVars
<1>8. QED
  BY <1>2, <1>4, <1>6, <1>7 DEF Next, Pressed

(* What the button that is pressed adds.                                   *)
LEMMA PressAdds ==
  ASSUME ConsoleInv, Pressed
  PROVE  /\ Offered /\ Len(calls) < MaxCalls
         /\ UNCHANGED <<op, serverVars, tabVars, cached, flight>>
         /\ Len(calls') = Len(calls) + 1 /\ DOMAIN calls' = 1 .. Len(calls) + 1
         /\ \A i \in 1 .. Len(calls) : calls'[i] = calls[i]
         /\ \A d : d = calls'[Len(calls) + 1] =>
              d.stage = "sent" /\ d.ok /\ d.clean /\ d.from = "here" /\ d.wait = {}
<1>1. PICK decision \in Decisions \cup {NoDecision} : Press(decision)
  BY DEF Pressed
<1>2. PICK new : new = [stage |-> "sent", decision |-> decision, from |-> "here", ok |-> TRUE,
                        clean |-> TRUE, mark |-> 0, step |-> 0, wait |-> {}]
  OBVIOUS
<1>3. /\ calls' = Append(calls, new) /\ new \in CallRecords
      /\ new.stage = "sent" /\ new.ok /\ new.clean /\ new.from = "here" /\ new.wait = {}
  BY <1>1, <1>2 DEF Press, CallRecords, Stages
<1>4. /\ Len(calls') = Len(calls) + 1 /\ DOMAIN calls' = 1 .. Len(calls) + 1
      /\ \A i \in 1 .. Len(calls) : calls'[i] = calls[i]
      /\ calls'[Len(calls) + 1] = new
  BY <1>3, AppendProperties DEF ConsoleInv
<1>5. QED
  BY <1>1, <1>3, <1>4 DEF Press

-----------------------------------------------------------------------------
(* The type of a tab: what the server counts, what the tab remembers, and  *)
(* that an effect belongs to a call.                                       *)
ServerOK ==
  /\ takes \in Nat /\ ver \in Nat /\ takes < ver /\ closed \subseteq 1 .. ver
  /\ changes \in 0 .. MaxChanges

TabOK ==
  /\ visits \in 1 .. MaxVisits /\ {here, editing} \subseteq BOOLEAN
  /\ \A i \in DOMAIN calls : calls[i].from = "here" => here \/ Is("cookie")

CountOK == Len(calls) <= MaxCalls /\ ver <= 1 + changes + Cardinality(TookCalls)

TypeInv == ServerOK /\ TabOK /\ CountOK /\ WaitsOK

LEMMA ServerStep ==
  ASSUME ConsoleInv, ServerOK, [Next]_vars
  PROVE  ServerOK'
<1>1. CASE ChangeElsewhere
  <2>1. /\ ver' = ver + 1 /\ changes' = changes + 1 /\ changes < MaxChanges
        /\ takes' \in {0, takes} /\ closed' \subseteq closed \cup {ver + 1}
    BY <1>1 DEF ChangeElsewhere
  <2>2. QED
    BY <2>1, ConsoleAssumption DEF ServerOK
<1>2. CASE \E i \in DOMAIN calls : Effective(i)
  <2>1. /\ ver' = ver + 1 /\ takes' \in {0, takes + 1} /\ changes' = changes
        /\ closed' \subseteq closed \cup {ver + 1}
    BY <1>2, EffectGoes, EffectIs
  <2>2. QED
    BY <2>1 DEF ServerOK
<1>3. CASE UNCHANGED serverVars
  BY <1>3 DEF serverVars, ServerOK
<1>4. CASE \E i \in DOMAIN calls : Answer(i) \/ FailCall(i)
  BY <1>2, <1>3, <1>4
  DEF Answer, Effective, Serve, Succeed, Invalidate, Finish, ServeDecision, FailCall, serverVars
<1>5. QED
  BY <1>1, <1>3, <1>4
  DEF Next, ServePermissions, Poll, Receive, FailFetch, RefreshButton, Press, LeavePage,
      OpenPage, PickProfile, vars, cVars

(* The effects are counted by the calls that had one.                      *)
LEMMA TookFinite ==
  ASSUME NEW R, NEW cs \in Seq(R), NEW S \in SUBSET DOMAIN cs
  PROVE  IsFiniteSet(S) /\ Cardinality(S) \in Nat /\ Cardinality(S) <= Len(cs)
<1>1. Len(cs) \in Nat /\ S \in SUBSET (1 .. Len(cs))
  OBVIOUS
<1>2. IsFiniteSet(1 .. Len(cs)) /\ Cardinality(1 .. Len(cs)) = Len(cs)
  <2>1. 1 \in Int /\ Len(cs) \in Int
    BY <1>1
  <2>2. /\ IsFiniteSet(1 .. Len(cs))
        /\ Cardinality(1 .. Len(cs)) = IF 1 > Len(cs) THEN 0 ELSE Len(cs) - 1 + 1
    BY <2>1, FS_Interval
  <2>3. QED
    BY <1>1, <2>2
<1>3. QED
  BY <1>1, <1>2, FS_Subset, FS_CardinalityType

LEMMA CountStep ==
  ASSUME ConsoleInv, ServerOK, CountOK, [Next]_vars
  PROVE  CountOK'
<1>1. ConsoleInv' /\ calls \in Seq(CallRecords) /\ calls' \in Seq(CallRecords')
  BY StepKeeps DEF ConsoleInv
<1>2. /\ IsFiniteSet(TookCalls') /\ Cardinality(TookCalls') \in Nat
      /\ Cardinality(TookCalls) \in Nat
  <2>1. TookCalls \in SUBSET DOMAIN calls /\ TookCalls' \in SUBSET DOMAIN calls'
    BY DEF TookCalls
  <2>2. QED
    BY <1>1, <2>1, TookFinite
<1>3. TookCalls \subseteq TookCalls' => Cardinality(TookCalls) <= Cardinality(TookCalls')
  BY <1>2, FS_Subset
<1>4. CASE Pressed
  <2>1. /\ ver' = ver /\ changes' = changes /\ op' = op
        /\ Len(calls') = Len(calls) + 1 /\ Len(calls) < MaxCalls
        /\ DOMAIN calls' = 1 .. Len(calls) + 1
        /\ \A i \in 1 .. Len(calls) : calls'[i] = calls[i]
    BY <1>4, PressAdds DEF serverVars
  <2>2. TookCalls \subseteq TookCalls'
    BY <1>1, <2>1 DEF TookCalls, Took, Is
  <2>3. QED
    BY <1>1, <1>2, <1>3, <2>1, <2>2, ConsoleAssumption DEF CountOK, ServerOK
<1>5. CASE ~Pressed
  <2>1. CallsGo
    BY <1>5, StepGoes
  <2>2. Len(calls') = Len(calls)
    BY <1>1, <2>1, LenProperties DEF CallsGo
  <2>3. TookCalls \subseteq TookCalls'
    <3>1. SUFFICES ASSUME NEW i \in TookCalls PROVE i \in TookCalls'
      OBVIOUS
    <3>2. PICK c, d : c = calls[i] /\ d = calls'[i]
      OBVIOUS
    <3>3. Took(d) /\ i \in DOMAIN calls' /\ op' = op
      BY <2>1, <3>1, <3>2 DEF CallsGo, TookCalls, Goes
    <3>4. QED
      BY <3>2, <3>3 DEF TookCalls, Took, Is
  <2>4. CASE \E i \in DOMAIN calls : Effective(i)
    <3>1. PICK i \in DOMAIN calls : Effective(i)
      BY <2>4
    <3>2. PICK c, d : c = calls[i] /\ d = calls'[i]
      OBVIOUS
    <3>3. ~Took(c) /\ Took(d) /\ ver' = ver + 1 /\ changes' = changes
      BY <3>1, <3>2, EffectGoes, EffectIs
    <3>4. i \notin TookCalls /\ i \in TookCalls'
      BY <2>1, <3>2, <3>3 DEF CallsGo, TookCalls, Took, Is
    <3>5. Cardinality(TookCalls) # Cardinality(TookCalls')
      BY <1>2, <2>3, <3>4, FS_Subset
    <3>6. QED
      BY <1>2, <1>3, <2>2, <2>3, <3>3, <3>5 DEF CountOK, ServerOK
  <2>5. CASE ver' = ver /\ changes' = changes
    BY <1>2, <1>3, <2>2, <2>3, <2>5 DEF CountOK, ServerOK
  <2>6. CASE ver' = ver + 1 /\ changes' = changes + 1
    BY <1>2, <1>3, <2>2, <2>3, <2>6 DEF CountOK, ServerOK
  <2>7. CASE \E i \in DOMAIN calls : Answer(i) \/ FailCall(i)
    BY <2>4, <2>5, <2>7
    DEF Answer, Effective, Serve, Succeed, Invalidate, Finish, ServeDecision, FailCall, serverVars
  <2>8. QED
    BY <1>5, <2>5, <2>6, <2>7
    DEF Next, ChangeElsewhere, ServePermissions, Poll, Receive, FailFetch, RefreshButton, Pressed,
        LeavePage, OpenPage, PickProfile, vars, cVars, serverVars
<1>6. QED
  BY <1>4, <1>5

(* Only who leaves the page, or logs in or out, is not here any more.      *)
LEMMA TabStep ==
  ASSUME ConsoleInv, TabOK, [Next]_vars
  PROVE  TabOK'
<1>1. /\ visits' \in 1 .. MaxVisits /\ {here', editing'} \subseteq BOOLEAN
      /\ here => here' \/ Is("cookie") \/ LeavePage
  <2>1. CASE UNCHANGED tabVars
    BY <2>1 DEF tabVars, TabOK
  <2>2. CASE \E k \in Keys : Receive(k)
    BY <2>2 DEF Receive, TabOK
  <2>3. CASE \E i \in DOMAIN calls : Succeed(i)
    BY <2>3 DEF Succeed, TabOK
  <2>4. CASE LeavePage
    BY <2>4 DEF LeavePage, TabOK
  <2>5. CASE OpenPage
    BY <2>5, ConsoleAssumption DEF OpenPage, TabOK
  <2>6. CASE PickProfile
    BY <2>6 DEF PickProfile, TabOK
  <2>7. CASE \E i \in DOMAIN calls : Answer(i) \/ FailCall(i)
    BY <2>1, <2>3, <2>7
    DEF Answer, Serve, TakeCookie, Invalidate, Finish, ServeDecision, FailCall
  <2>8. QED
    BY <2>1, <2>2, <2>4, <2>5, <2>6, <2>7
    DEF Next, ChangeElsewhere, ServePermissions, Poll, FailFetch, RefreshButton, Press, vars, cVars
<1>2. CASE Pressed
  <2>1. /\ here /\ here' = here /\ op' = op
    BY <1>2, PressAdds DEF Offered, tabVars
  <2>2. QED
    BY <1>1, <2>1 DEF TabOK
<1>3. CASE LeavePage
  <2>1. CallsQuiet /\ \A i \in DOMAIN calls : \A d : d = calls'[i] => d.from # "here"
    BY <1>3, MoveGoes
  <2>2. QED
    BY <1>1, <2>1 DEF TabOK, CallsQuiet, CallsGo
<1>4. CASE ~Pressed /\ ~LeavePage
  <2>1. CallsGo
    BY <1>4, StepGoes
  <2>2. ASSUME NEW i \in DOMAIN calls', calls'[i].from = "here"
        PROVE  here' \/ Is("cookie")'
    <3>1. PICK c, d : c = calls[i] /\ d = calls'[i]
      OBVIOUS
    <3>2. i \in DOMAIN calls /\ c.from = "here" /\ op' = op
      BY <2>1, <2>2, <3>1 DEF CallsGo, Goes
    <3>3. here \/ Is("cookie")
      BY <3>1, <3>2 DEF TabOK
    <3>4. QED
      BY <1>1, <1>4, <3>2, <3>3 DEF Is
  <2>3. QED
    BY <1>1, <2>2 DEF TabOK
<1>5. QED
  BY <1>2, <1>3, <1>4

-----------------------------------------------------------------------------
(* A fetch that a call waits for is under way until the call goes on.      *)
LEMMA WaitsStay ==
  ASSUME WaitsOK, DOMAIN calls' = DOMAIN calls,
         \A i \in DOMAIN calls : \A c, d : c = calls[i] /\ d = calls'[i] =>
           \A k \in d.wait : k \in c.wait /\ (flight[k] # 0 => flight'[k] # 0)
  PROVE  WaitsOK'
<1>1. ASSUME NEW i \in DOMAIN calls, NEW d, d = calls'[i], NEW k \in d.wait
      PROVE  flight'[k] # 0
  <2>1. PICK c : c = calls[i]
    OBVIOUS
  <2>2. QED
    BY <1>1, <2>1 DEF WaitsOK, Waits
<1>2. QED
  BY <1>1 DEF WaitsOK, Waits

LEMMA SameWaits ==
  ASSUME ConsoleInv, WaitsOK, flight' = flight, DOMAIN calls' = DOMAIN calls,
         \A i \in DOMAIN calls : \A c, d : c = calls[i] /\ d = calls'[i] => d.wait = c.wait
  PROVE  WaitsOK'
BY WaitsStay

LEMMA UpdateWaits ==
  ASSUME ConsoleInv, WaitsOK, flight' = flight, NEW i \in DOMAIN calls, NEW d,
         calls' = [calls EXCEPT ![i] = d], d.wait = calls[i].wait
  PROVE  WaitsOK'
<1>1. DOMAIN calls' = DOMAIN calls /\ \A j \in DOMAIN calls : calls'[j] = IF j = i THEN d ELSE calls[j]
  BY DEF ConsoleInv
<1>2. QED
  BY <1>1, SameWaits

LEMMA FetchWaits ==
  ASSUME ConsoleInv, WaitsOK, ver # 0, calls' = calls,
         \A k \in Keys : flight'[k] \in {flight[k], ver}
  PROVE  WaitsOK'
<1>1. ASSUME NEW i \in DOMAIN calls, NEW c, c = calls[i], NEW k \in c.wait
      PROVE  flight[k] # 0 => flight'[k] # 0
  <2>1. k \in Keys
    BY <1>1, CallIsOK
  <2>2. QED
    BY <2>1
<1>2. QED
  BY <1>1, WaitsStay

LEMMA ArrivedWaits ==
  ASSUME ConsoleInv, WaitsOK, NEW k \in Keys, NEW ok \in BOOLEAN, calls' = Arrived(k, ok),
         flight' = [flight EXCEPT ![k] = 0]
  PROVE  WaitsOK'
<1>1. DOMAIN calls' = DOMAIN calls
  BY ArrivedSeq
<1>2. ASSUME NEW i \in DOMAIN calls, NEW c, NEW d, c = calls[i], d = calls'[i], NEW q \in d.wait
      PROVE  q \in c.wait /\ (flight[q] # 0 => flight'[q] # 0)
  <2>1. d.wait = c.wait \ {k} /\ c.wait \subseteq Keys
    BY <1>2, ArrivedCalls, CallIsOK
  <2>2. q \in Keys /\ q # k
    BY <1>2, <2>1
  <2>3. QED
    BY <1>2, <2>1, <2>2 DEF ConsoleInv, QueriesOK
<1>3. QED
  BY <1>1, <1>2, WaitsStay

LEMMA AbandonedWaits ==
  ASSUME ConsoleInv, WaitsOK, flight' = flight, NEW cs \in Seq(CallRecords),
         NEW how \in {"replaced", "left"}, calls' = Abandoned(cs, how), DOMAIN cs = DOMAIN calls,
         \A i \in DOMAIN calls : cs[i].wait = calls[i].wait
  PROVE  WaitsOK'
<1>1. /\ DOMAIN calls' = DOMAIN calls
      /\ \A i \in DOMAIN cs : \A d : d = calls'[i] => d.wait = cs[i].wait
  BY AbandonedCalls
<1>2. QED
  BY <1>1, SameWaits

LEMMA SucceedWaits ==
  ASSUME ConsoleInv, WaitsOK, NEW i \in DOMAIN calls, Succeed(i)
  PROVE  WaitsOK'
<1>1. flight' = flight /\ calls \in Seq(CallRecords)
  BY DEF Succeed, ConsoleInv
<1>2. PICK c : c = calls[i]
  OBVIOUS
<1>3. PICK s : s = [c EXCEPT !.stage = "settling"]
  OBVIOUS
<1>4. PICK after : after = [calls EXCEPT ![i] = s]
  OBVIOUS
<1>5. calls' = after \/ calls' = Abandoned(after, "replaced")
  BY <1>2, <1>3, <1>4 DEF Succeed
<1>6. s \in CallRecords /\ s.wait = c.wait
  <2>1. c \in CallRecords /\ "settling" \in Stages
    BY <1>1, <1>2 DEF Stages
  <2>2. QED
    BY <1>3, <2>1 DEF CallRecords
<1>7. after \in Seq(CallRecords) /\ DOMAIN after = DOMAIN calls
  BY <1>1, <1>4, <1>6, ExceptSeq
<1>8. \A j \in DOMAIN calls : after[j].wait = calls[j].wait
  <2>1. \A j \in DOMAIN calls : after[j] = IF j = i THEN s ELSE calls[j]
    BY <1>1, <1>4
  <2>2. QED
    BY <1>2, <1>6, <2>1
<1>9. QED
  BY <1>1, <1>2, <1>4, <1>5, <1>6, <1>7, <1>8, UpdateWaits, AbandonedWaits

(* What is invalidated is under way, or is fetched now.                    *)
LEMMA InvalidateWaits ==
  ASSUME ConsoleInv, WaitsOK, ver # 0, NEW i \in DOMAIN calls, Invalidate(i)
  PROVE  WaitsOK'
<1>1. PICK S : S = Awaited(i)
  OBVIOUS
<1>2. PICK c : c = calls[i]
  OBVIOUS
<1>3. PICK b : b = (c.clean /\ here /\ FirstLoads(S) = {})
  OBVIOUS
<1>4. PICK d : d = [c EXCEPT !.step = @ + 1, !.wait = S, !.clean = b]
  OBVIOUS
<1>5. calls' = [calls EXCEPT ![i] = d] /\ flight' = Refetched(S)
  <2>1. [c EXCEPT !.step = @ + 1, !.wait = S, !.clean = @ /\ here /\ FirstLoads(S) = {}] = d
    BY <1>3, <1>4
  <2>2. QED
    BY <1>1, <1>2, <2>1 DEF Invalidate, Update
<1>6. d.wait = S /\ S \subseteq Keys
  <2>1. c \in CallRecords
    BY <1>2, CallIsOK
  <2>2. d.wait = S
    BY <1>4, <2>1 DEF CallRecords
  <2>3. QED
    BY <1>1, <2>2 DEF Awaited
<1>7. /\ \A k \in Keys : flight'[k] \in {flight[k], ver}
      /\ \A k \in S : flight'[k] = ver \/ k \in FirstLoads(S)
  BY <1>5, <1>6, RefetchedNow
<1>8. \A k \in S : flight'[k] # 0
  BY <1>6, <1>7 DEF FirstLoads
<1>9. DOMAIN calls' = DOMAIN calls /\ \A j \in DOMAIN calls : calls'[j] = IF j = i THEN d ELSE calls[j]
  BY <1>5 DEF ConsoleInv
<1>10. ASSUME NEW j \in DOMAIN calls', NEW x, x = calls'[j]
       PROVE  \A k \in x.wait : flight'[k] # 0
  <2>1. CASE j = i
    <3>1. x = d
      BY <1>9, <1>10, <2>1
    <3>2. QED
      BY <1>6, <1>8, <3>1
  <2>2. CASE j # i
    <3>1. x = calls[j] /\ j \in DOMAIN calls
      BY <1>9, <1>10, <2>2
    <3>2. Waits(x) /\ x.wait \subseteq Keys
      BY <3>1, CallIsOK DEF WaitsOK
    <3>3. QED
      BY <1>7, <3>2 DEF Waits
  <2>3. QED
    BY <2>1, <2>2
<1>11. QED
  BY <1>10 DEF WaitsOK, Waits

(* The other steps of one call wait for what it waited for.                *)
LEMMA AnswerWaits ==
  ASSUME ConsoleInv, WaitsOK, NEW i \in DOMAIN calls,
         \/ Serve(i) \/ TakeCookie(i) \/ Finish(i) \/ FailCall(i)
         \/ \E ok \in BOOLEAN : ServeDecision(i, ok)
  PROVE  WaitsOK'
<1>1. flight' = flight
  BY DEF Serve, TakeCookie, Finish, FailCall, ServeDecision
<1>2. PICK c : c = calls[i]
  OBVIOUS
<1>3. c \in CallRecords
  BY <1>2, CallIsOK
<1>4. PICK d : calls' = [calls EXCEPT ![i] = d] /\ d.wait = c.wait
  <2>1. \A s, m, ok :
          /\ [c EXCEPT !.stage = s].wait = c.wait
          /\ [c EXCEPT !.stage = s, !.mark = m].wait = c.wait
          /\ [c EXCEPT !.stage = s, !.ok = ok].wait = c.wait
          /\ [c EXCEPT !.ok = ok, !.stage = s].wait = c.wait
    BY <1>3 DEF CallRecords
  <2>2. CASE Serve(i) \/ TakeCookie(i) \/ Finish(i)
    <3>1. PICK s, m : \/ calls' = [calls EXCEPT ![i] = [c EXCEPT !.stage = s]]
                      \/ calls' = [calls EXCEPT ![i] = [c EXCEPT !.stage = s, !.mark = m]]
      BY <1>2, <2>2 DEF Serve, TakeCookie, Finish, Effect, Update
    <3>2. PICK d : /\ d = [c EXCEPT !.stage = s] \/ d = [c EXCEPT !.stage = s, !.mark = m]
                   /\ calls' = [calls EXCEPT ![i] = d]
      BY <3>1
    <3>3. d = [c EXCEPT !.stage = s] => d.wait = c.wait
      BY <2>1
    <3>4. d = [c EXCEPT !.stage = s, !.mark = m] => d.wait = c.wait
      BY <2>1
    <3>5. QED
      BY <3>2, <3>3, <3>4
  <2>3. CASE FailCall(i)
    <3>1. PICK s : calls' = [calls EXCEPT ![i] = [c EXCEPT !.ok = FALSE, !.stage = s]]
      BY <1>2, <2>3 DEF FailCall, Update
    <3>2. PICK d : d = [c EXCEPT !.ok = FALSE, !.stage = s]
      OBVIOUS
    <3>3. calls' = [calls EXCEPT ![i] = d] /\ d.wait = c.wait
      BY <2>1, <3>1, <3>2
    <3>4. QED
      BY <3>3
  <2>4. CASE \E ok \in BOOLEAN : ServeDecision(i, ok)
    <3>1. PICK ok : calls' = [calls EXCEPT ![i] = [c EXCEPT !.stage = "over", !.ok = ok]]
      BY <1>2, <2>4 DEF ServeDecision, Update
    <3>2. PICK d : d = [c EXCEPT !.stage = "over", !.ok = ok]
      OBVIOUS
    <3>3. calls' = [calls EXCEPT ![i] = d] /\ d.wait = c.wait
      BY <2>1, <3>1, <3>2
    <3>4. QED
      BY <3>3
  <2>5. QED
    BY <2>2, <2>3, <2>4
<1>5. QED
  BY <1>1, <1>2, <1>4, UpdateWaits

LEMMA WaitsStep ==
  ASSUME ConsoleInv, WaitsOK, ver # 0, [Next]_vars
  PROVE  WaitsOK'
<1>1. CASE calls' = calls /\ flight' = flight
  BY <1>1 DEF WaitsOK, Waits
<1>2. CASE \E k \in Keys : Poll(k)
  <2>1. PICK k \in Keys : calls' = calls /\ flight' = [flight EXCEPT ![k] = ver]
    BY <1>2 DEF Poll
  <2>2. \A q \in Keys : flight'[q] \in {flight[q], ver}
    BY <2>1 DEF ConsoleInv, QueriesOK
  <2>3. QED
    BY <2>1, <2>2, FetchWaits
<1>3. CASE RefreshButton
  <2>1. calls' = calls /\ flight' = Refetched({Subject})
    BY <1>3 DEF RefreshButton
  <2>2. \A q \in Keys : flight'[q] \in {flight[q], ver}
    BY <2>1, RefetchedNow
  <2>3. QED
    BY <2>1, <2>2, FetchWaits
<1>4. CASE \E k \in Keys : Receive(k) \/ FailFetch(k)
  BY <1>4, ArrivedWaits DEF Receive, FailFetch
<1>5. CASE Pressed
  <2>1. /\ flight' = flight /\ DOMAIN calls' = 1 .. Len(calls) + 1
        /\ \A i \in 1 .. Len(calls) : calls'[i] = calls[i]
        /\ \A d : d = calls'[Len(calls) + 1] => d.wait = {}
    BY <1>5, PressAdds
  <2>2. calls \in Seq(CallRecords)
    BY DEF ConsoleInv
  <2>3. QED
    BY <2>1, <2>2 DEF WaitsOK, Waits
<1>6. CASE \E i \in DOMAIN calls : Answer(i) \/ FailCall(i)
  BY <1>6, AnswerWaits, InvalidateWaits, SucceedWaits DEF Answer
<1>7. CASE LeavePage \/ PickProfile
  <2>1. flight' = flight /\ calls \in Seq(CallRecords)
    BY <1>7 DEF LeavePage, PickProfile, ConsoleInv
  <2>2. PICK how \in {"replaced", "left"} : calls' = Abandoned(calls, how)
    BY <1>7 DEF LeavePage, PickProfile
  <2>3. QED
    BY <2>1, <2>2, AbandonedWaits
<1>8. QED
  BY <1>1, <1>2, <1>3, <1>4, <1>5, <1>6, <1>7
  DEF Next, Pressed, ChangeElsewhere, ServePermissions, OpenPage, vars, cVars

LEMMA TypeStep ==
  ASSUME ConsoleInv, TypeInv, [Next]_vars
  PROVE  TypeInv'
<1>1. ver # 0
  BY DEF TypeInv, ServerOK
<1>2. QED
  BY <1>1, ServerStep, TabStep, CountStep, WaitsStep DEF TypeInv

LEMMA TypeInit == Init => TypeInv
<1> SUFFICES ASSUME Init PROVE TypeInv
  OBVIOUS
<1>1. /\ ver = 1 /\ closed = {} /\ changes = 0 /\ takes = 0 /\ visits = 1
      /\ here = TRUE /\ editing = FALSE /\ calls = <<>>
  BY DEF Init
<1>2. Cardinality(TookCalls) = 0
  BY <1>1, FS_EmptySet DEF TookCalls
<1>3. MaxCalls \in Nat /\ MaxChanges \in Nat /\ 1 \in 1 .. MaxVisits
  BY ConsoleAssumption
<1>4. ServerOK
  BY <1>1, <1>3 DEF ServerOK
<1>5. TabOK /\ WaitsOK
  <2>1. DOMAIN calls = {}
    BY <1>1
  <2>2. visits \in 1 .. MaxVisits /\ {here, editing} \subseteq BOOLEAN
    BY <1>1, <1>3
  <2>3. QED
    BY <2>1, <2>2 DEF TabOK, WaitsOK
<1>6. CountOK
  BY <1>1, <1>2, <1>3 DEF CountOK
<1>7. QED
  BY <1>4, <1>5, <1>6 DEF TypeInv

(* A call that waits is settling, and the server has changed no more often *)
(* than somebody changed it.                                               *)
LEMMA TypesOfTab == ConsoleInv /\ TypeInv => ConsoleTypeOK
<1> SUFFICES ASSUME ConsoleInv, TypeInv PROVE ConsoleTypeOK
  OBVIOUS
<1>1. op \in DOMAIN Operations
  BY DEF ConsoleInv, OperationOK
<1>2. {ver, takes} \subseteq 0 .. (1 + MaxChanges + 2 * MaxCalls)
  <2>1. ver <= 1 + MaxChanges + MaxCalls
    <3>1. TookCalls \in SUBSET DOMAIN calls /\ calls \in Seq(CallRecords)
      BY DEF TookCalls, ConsoleInv
    <3>2. Cardinality(TookCalls) \in Nat /\ Cardinality(TookCalls) <= Len(calls) /\ Len(calls) \in Nat
      BY <3>1, TookFinite
    <3>3. QED
      BY <3>2, ConsoleAssumption DEF TypeInv, CountOK, ServerOK
  <2>2. QED
    BY <2>1, ConsoleAssumption DEF TypeInv, ServerOK
<1>3. \A k \in Keys : {cached[k], flight[k]} \subseteq 0 .. ver
  BY DEF ConsoleInv, QueriesOK
<1>4. ASSUME NEW i \in DOMAIN calls
      PROVE  /\ calls[i].stage \in {"sent", "answered", "accepted", "settling", "over"}
             /\ \A k \in calls[i].wait : calls[i].stage = "settling" /\ flight[k] # 0
  <2>1. PICK c : c = calls[i]
    OBVIOUS
  <2>2. c.stage \in Stages /\ (c.wait # {} => c.stage = "settling")
    BY <2>1, CallIsOK DEF CallRecords, CallOK, Stages
  <2>3. Waits(c)
    BY <2>1 DEF TypeInv, WaitsOK
  <2>4. QED
    BY <2>1, <2>2, <2>3 DEF Stages, Waits
<1>5. QED
  BY <1>1, <1>2, <1>3, <1>4 DEF ConsoleTypeOK, TypeInv, ServerOK, TabOK

(* Nothing a tab shows or has asked for is newer than the server, and what *)
(* a mutation waits for is under way.                                      *)
THEOREM ConsoleTypes == Spec => []ConsoleTypeOK
<1>1. Init => ConsoleInv /\ TypeInv
  BY InvInit, TypeInit
<1>2. ConsoleInv /\ TypeInv /\ [Next]_vars => ConsoleInv' /\ TypeInv'
  BY StepKeeps, TypeStep
<1>3. QED
  BY <1>1, <1>2, TypesOfTab, PTL DEF Spec

-----------------------------------------------------------------------------
(* Guarded buttons for what makes sense once.                              *)
OnceFlags(flags) == {"once", "guarded"} \subseteq flags /\ "late" \notin flags

(* Such an operation refreshes the query that shows that it was done.      *)
LEMMA SubjectsAreRefreshed ==
  ASSUME NEW o \in DOMAIN Operations, OnceFlags(Operations[o].flags)
  PROVE  \E j \in DOMAIN Operations[o].refreshes :
           Operations[o].subject \in Operations[o].refreshes[j]
<1> DEFINE Fine(x) == OnceFlags(x.flags) => \E j \in DOMAIN x.refreshes : x.subject \in x.refreshes[j]
<1>1. Fine(CreateRunForm) /\ Fine(CancelRun) /\ Fine(PermissionPanel) /\ Fine(DrainWorker)
  BY DEF CreateRunForm, CancelRun, PermissionPanel, DrainWorker, OnceFlags
<1>2. Fine(ResumeWorker) /\ Fine(RetryWorkerRuns) /\ Fine(WorkerRegistrationForm)
  BY DEF ResumeWorker, DrainWorker, RetryWorkerRuns, WorkerRegistrationForm, OnceFlags
<1>3. Fine(CreateMissionForm) /\ Fine(ProfileEditor) /\ Fine(CreateProject) /\ Fine(CreateToken)
  BY DEF CreateMissionForm, ProfileEditor, CreateProject, CreateToken, OnceFlags
<1>4. Fine(ApiTokenList) /\ Fine(CreateBackup) /\ Fine(RunDrills)
  BY DEF ApiTokenList, CreateBackup, RunDrills, OnceFlags
<1>5. Fine(CancelMission) /\ Fine(OverrideReviewGate)
  <2>1. "mission" \in MissionDetailPage
    BY DEF MissionDetailPage
  <2>2. CancelMission.subject = "mission" /\ 2 \in DOMAIN CancelMission.refreshes
        /\ CancelMission.refreshes[2] = MissionDetailPage
    BY DEF CancelMission
  <2>3. OverrideReviewGate.subject = "mission" /\ 2 \in DOMAIN OverrideReviewGate.refreshes
        /\ OverrideReviewGate.refreshes[2] = MissionDetailPage
    BY DEF OverrideReviewGate
  <2>4. QED
    BY <2>1, <2>2, <2>3
<1>6. Fine(LoginPage) /\ Fine(SignOutButton)
  <2>1. "session" \in AuthGate
    BY DEF AuthGate
  <2>2. LoginPage.subject = "session" /\ 1 \in DOMAIN LoginPage.refreshes
        /\ LoginPage.refreshes[1] = AuthGate
    BY DEF LoginPage
  <2>3. SignOutButton.subject = "session" /\ 1 \in DOMAIN SignOutButton.refreshes
        /\ SignOutButton.refreshes[1] = AuthGate
    BY DEF SignOutButton
  <2>4. QED
    BY <2>1, <2>2, <2>3
<1> HIDE DEF Fine
<1>7. Fine(Operations[o])
  BY <1>1, <1>2, <1>3, <1>4, <1>5, <1>6 DEF Operations
<1>8. QED
  BY <1>7 DEF Fine

(* Deciding a permission is not such an operation.                         *)
LEMMA DecidingRepeats == Deciding => ~OnceFlags(Operations[op].flags)
BY DEF Deciding, Operations, PermissionPanel, OnceFlags

(* Nothing failed, was refreshed halfway or was left behind.               *)
AllWell ==
  \A i \in DOMAIN calls : calls[i].ok /\ calls[i].clean /\ calls[i].from = "here"

Once == OnceFlags(Operations[op].flags) /\ Subject \in Keys /\ AllWell

(* One call is under way at a time, and the last to withdraw the button    *)
(* did what every state since then shows.                                  *)
OnceInv ==
  Once =>
    /\ \A i, j \in DOMAIN calls :
         calls[i].stage # "over" /\ calls[j].stage # "over" => i = j
    /\ takes <= 1
    /\ takes = 1 =>
         \E i \in TookCalls :
           /\ calls[i].mark .. ver \subseteq closed
           /\ \A j \in DOMAIN calls \ {i} : calls[j].stage = "over"

LEMMA OnceBefore ==
  ASSUME ConsoleInv, CallsGo, Keys' = Keys, Once'
  PROVE  Once
<1>1. op' = op
  BY DEF CallsGo
<1>2. ~Deciding
  BY <1>1, DecidingRepeats DEF Once, Deciding
<1>3. ASSUME NEW i \in DOMAIN calls
      PROVE  calls[i].ok /\ calls[i].clean /\ calls[i].from = "here"
  <2>1. PICK c, d : c = calls[i] /\ d = calls'[i]
    OBVIOUS
  <2>2. Goes(c, d) /\ i \in DOMAIN calls'
    BY <2>1 DEF CallsGo
  <2>3. d.ok /\ d.clean /\ d.from = "here"
    BY <2>1, <2>2 DEF Once, AllWell
  <2>4. QED
    BY <1>2, <2>1, <2>2, <2>3 DEF Goes
<1>4. QED
  BY <1>1, <1>3 DEF Once, AllWell, Subject

(* While the page shows what was done the button is withdrawn.             *)
LEMMA OncePress ==
  ASSUME ConsoleInv, ServerOK, OnceInv, Pressed, Once'
  PROVE  takes = 0 /\ \A i \in DOMAIN calls : calls[i].stage = "over"
<1>1. /\ Offered /\ UNCHANGED <<op, cached>> /\ DOMAIN calls' = 1 .. Len(calls) + 1
      /\ \A i \in 1 .. Len(calls) : calls'[i] = calls[i]
  BY PressAdds
<1>2. calls \in Seq(CallRecords) /\ Len(calls) \in Nat /\ DOMAIN calls = 1 .. Len(calls)
  BY DEF ConsoleInv
<1>3. Once
  BY <1>1, <1>2 DEF Once, AllWell, Subject, Keys
<1>4. ~Pending /\ Is("guarded") /\ ~Deciding
  BY <1>1, <1>3, DecidingRepeats DEF Offered, Once, OnceFlags, Is
<1>5. ASSUME NEW i \in DOMAIN calls
      PROVE  calls[i].stage = "over"
  BY <1>3, <1>4 DEF Once, AllWell, Pending
<1>6. ASSUME takes = 1
      PROVE  FALSE
  <2>1. PICK i \in TookCalls : calls[i].mark .. ver \subseteq closed
    BY <1>3, <1>6 DEF OnceInv
  <2>2. PICK c : c = calls[i]
    OBVIOUS
  <2>3. i \in DOMAIN calls
    BY DEF TookCalls
  <2>4. c.ok /\ c.clean /\ c.from = "here" /\ c.stage = "over"
    BY <1>3, <1>5, <2>2, <2>3 DEF Once, AllWell
  <2>5. CallOK(c) /\ c \in CallRecords
    BY <2>2, <2>3, CallIsOK
  <2>6. c.step = Len(Refreshes) /\ c.wait = {}
    BY <1>4, <2>4, <2>5 DEF CallOK
  <2>7. PICK j \in DOMAIN Refreshes : Subject \in Refreshes[j]
    BY <1>3, SubjectsAreRefreshed DEF Once, ConsoleInv, OperationOK, Refreshes, Subject
  <2>8. DOMAIN Refreshes = 1 .. Len(Refreshes)
    BY RefreshesAreSequences DEF ConsoleInv, OperationOK, Refreshes
  <2>9. Refreshing(c, Subject)
    BY <1>3, <2>4, <2>5, <2>6, <2>7, <2>8 DEF CallOK, Once
  <2>10. cached[Subject] >= c.mark
    BY <2>6, <2>9 DEF Refreshing
  <2>11. /\ cached[Subject] \in Nat /\ cached[Subject] <= ver
         /\ c.mark \in Nat /\ ver \in Nat
    BY <1>3, <2>5 DEF Once, ConsoleInv, QueriesOK, CallRecords, ServerOK
  <2>12. cached[Subject] \in c.mark .. ver
    BY <2>10, <2>11
  <2>13. ShowsDone(cached[Subject])
    BY <2>1, <2>2, <2>12 DEF ShowsDone
  <2>14. QED
    BY <1>1, <1>3, <2>13 DEF Offered, Once
<1>7. takes = 0
  BY <1>3, <1>6 DEF OnceInv, ServerOK
<1>8. QED
  BY <1>5, <1>7

LEMMA OncePressed ==
  ASSUME ConsoleInv, ServerOK, OnceInv, Pressed
  PROVE  OnceInv'
<1>1. SUFFICES ASSUME Once'
               PROVE  /\ \A i, j \in DOMAIN calls' :
                           calls'[i].stage # "over" /\ calls'[j].stage # "over" => i = j
                      /\ takes' = 0
  BY DEF OnceInv
<1>2. takes = 0 /\ \A i \in DOMAIN calls : calls[i].stage = "over"
  BY <1>1, OncePress
<1>3. /\ takes' = takes /\ DOMAIN calls' = 1 .. Len(calls) + 1
      /\ \A i \in 1 .. Len(calls) : calls'[i] = calls[i]
  BY PressAdds DEF serverVars
<1>4. DOMAIN calls = 1 .. Len(calls) /\ Len(calls) \in Nat
  BY DEF ConsoleInv
<1>5. \A i \in DOMAIN calls' : calls'[i].stage # "over" => i = Len(calls) + 1
  BY <1>2, <1>3, <1>4
<1>6. QED
  BY <1>2, <1>3, <1>5

(* Calls that are over stay so.                                            *)
LEMMA OverStays ==
  ASSUME CallsGo, NEW i \in DOMAIN calls, calls'[i].stage # "over"
  PROVE  calls[i].stage # "over"
<1>1. PICK c, d : c = calls[i] /\ d = calls'[i]
  OBVIOUS
<1>2. Goes(c, d)
  BY <1>1 DEF CallsGo
<1>3. QED
  BY <1>1, <1>2 DEF Goes

(* The effect of the call that is under way.                               *)
LEMMA OnceEffect ==
  ASSUME ConsoleInv, ServerOK, OnceInv, NEW i \in DOMAIN calls, Effective(i)
  PROVE  OnceInv'
<1>1. PICK c, d : c = calls[i] /\ d = calls'[i]
  OBVIOUS
<1>2. /\ CallsGo /\ ~Took(c) /\ Took(d) /\ d.mark = ver + 1
      /\ ver' = ver + 1
      /\ closed' = IF Withdraws(i) \/ ver \in closed THEN closed \cup {ver + 1} ELSE closed
      /\ takes' = IF Withdraws(i) \/ takes # 0 THEN takes + 1 ELSE 0
  BY <1>1, EffectGoes
<1>3. op' = op /\ cached' = cached /\ c.stage # "over"
  BY <1>1, EffectIs
<1>4. SUFFICES ASSUME Once' PROVE OnceInv'
  BY DEF OnceInv
<1>5. Once
  BY <1>2, <1>3, <1>4, OnceBefore DEF Keys
<1>6. \A j \in DOMAIN calls \ {i} : calls[j].stage = "over"
  BY <1>1, <1>3, <1>5 DEF OnceInv
<1>7. takes = 0
  <2>1. ASSUME takes = 1
        PROVE  FALSE
    <3>1. PICK k \in TookCalls : \A j \in DOMAIN calls \ {k} : calls[j].stage = "over"
      BY <1>5, <2>1 DEF OnceInv
    <3>2. k = i
      BY <1>1, <1>3, <3>1
    <3>3. QED
      BY <1>1, <1>2, <3>1, <3>2 DEF TookCalls
  <2>2. QED
    BY <1>5, <2>1 DEF OnceInv, ServerOK
<1>8. DOMAIN calls' = DOMAIN calls
  BY <1>2 DEF CallsGo
<1>9. \A j \in DOMAIN calls' \ {i} : calls'[j].stage = "over"
  BY <1>2, <1>6, <1>8, OverStays
<1>10. i \in TookCalls'
  BY <1>1, <1>2, <1>3, <1>8 DEF TookCalls, Took, Is
<1>11. takes' = 1 => calls'[i].mark .. ver' \subseteq closed'
  BY <1>1, <1>2, <1>7 DEF ServerOK
<1>12. takes' \in {0, 1}
  BY <1>2, <1>7
<1>13. QED
  BY <1>9, <1>10, <1>11, <1>12 DEF OnceInv

LEMMA OnceQuiet ==
  ASSUME ConsoleInv, ServerOK, OnceInv, CallsQuiet, Keys' = Keys,
         \/ takes' = 0
         \/ /\ takes' = takes
            /\ \A m \in Nat : m .. ver \subseteq closed => m .. ver' \subseteq closed'
  PROVE  OnceInv'
<1>1. SUFFICES ASSUME Once' PROVE OnceInv'
  BY DEF OnceInv
<1>2. Once /\ op' = op /\ DOMAIN calls' = DOMAIN calls /\ CallsGo
  BY <1>1, OnceBefore DEF CallsQuiet, CallsGo
<1>3. ASSUME NEW i \in DOMAIN calls', NEW j \in DOMAIN calls',
             calls'[i].stage # "over", calls'[j].stage # "over"
      PROVE  i = j
  BY <1>2, <1>3, OverStays DEF OnceInv
<1>4. takes' <= 1
  BY <1>2 DEF OnceInv
<1>5. ASSUME takes' = 1
      PROVE  \E i \in TookCalls' :
               /\ calls'[i].mark .. ver' \subseteq closed'
               /\ \A j \in DOMAIN calls' \ {i} : calls'[j].stage = "over"
  <2>1. takes = 1 /\ \A m \in Nat : m .. ver \subseteq closed => m .. ver' \subseteq closed'
    BY <1>5
  <2>2. PICK i \in TookCalls : /\ calls[i].mark .. ver \subseteq closed
                               /\ \A j \in DOMAIN calls \ {i} : calls[j].stage = "over"
    BY <1>2, <2>1 DEF OnceInv
  <2>3. PICK c, d : c = calls[i] /\ d = calls'[i]
    OBVIOUS
  <2>4. i \in DOMAIN calls /\ Took(c) /\ c.mark \in Nat
    <3>1. i \in DOMAIN calls /\ Took(c)
      BY <2>3 DEF TookCalls
    <3>2. c \in CallRecords
      BY <2>3, <3>1, CallIsOK
    <3>3. QED
      BY <3>1, <3>2 DEF CallRecords
  <2>5. Goes(c, d) /\ Quiet(c, d)
    BY <2>3, <2>4 DEF CallsQuiet, CallsGo
  <2>6. Took(d) /\ d.mark = c.mark
    BY <2>4, <2>5 DEF Goes, Quiet
  <2>7. i \in TookCalls' /\ calls'[i].mark .. ver' \subseteq closed'
    BY <1>2, <2>1, <2>2, <2>3, <2>4, <2>6 DEF TookCalls, Took, Is
  <2>8. \A j \in DOMAIN calls' \ {i} : calls'[j].stage = "over"
    BY <1>2, <2>2, OverStays
  <2>9. QED
    BY <2>7, <2>8
<1>6. QED
  BY <1>3, <1>4, <1>5 DEF OnceInv

LEMMA OnceStep ==
  ASSUME ConsoleInv, ServerOK, OnceInv, [Next]_vars
  PROVE  OnceInv'
<1>1. CASE Pressed
  BY <1>1, OncePressed
<1>2. CASE \E i \in DOMAIN calls : Effective(i)
  BY <1>2, OnceEffect
<1>3. CASE ~Pressed /\ Deciding
  <2>1. Deciding'
    BY <1>3, StepGoes DEF CallsGo, Deciding
  <2>2. ~Once'
    <3>1. (Deciding => ~OnceFlags(Operations[op].flags))'
      BY DecidingRepeats, PTL
    <3>2. QED
      BY <2>1, <3>1 DEF Once
  <2>3. QED
    BY <2>2 DEF OnceInv
<1>4. CASE ~Pressed /\ ~Deciding /\ ~\E i \in DOMAIN calls : Effective(i)
  <2>1. CallsQuiet
    BY <1>4, StepGoes
  <2>2. \/ takes' = 0
        \/ /\ takes' = takes
           /\ \A m \in Nat : m .. ver \subseteq closed => m .. ver' \subseteq closed'
    <3>1. CASE UNCHANGED serverVars
      BY <3>1 DEF serverVars
    <3>2. CASE ChangeElsewhere
      <4>1. CASE takes' = 0
        BY <4>1
      <4>2. CASE closed' = closed \cup {ver + 1} /\ ver' = ver + 1 /\ takes' = takes
        BY <4>2 DEF ServerOK
      <4>3. QED
        BY <3>2, <4>1, <4>2 DEF ChangeElsewhere
    <3>3. CASE \E i \in DOMAIN calls : Answer(i) \/ FailCall(i)
      BY <1>4, <3>1, <3>3
      DEF Answer, Effective, Serve, Succeed, Invalidate, Finish, ServeDecision, FailCall, serverVars
    <3>4. QED
      BY <1>4, <3>1, <3>2, <3>3
      DEF Next, Pressed, ServePermissions, Poll, Receive, FailFetch, RefreshButton, LeavePage,
          OpenPage, PickProfile, vars, cVars
  <2>3. Keys' = Keys
    <3>1. CASE cached' = cached
      BY <3>1 DEF Keys
    <3>2. CASE \E k \in Keys : Receive(k)
      BY <3>2 DEF Receive, Keys
    <3>3. QED
      BY <1>4, <3>1, <3>2
      DEF Next, Pressed, ChangeElsewhere, ServePermissions, Poll, FailFetch, RefreshButton,
          Answer, Serve, TakeCookie, Succeed, Invalidate, Finish, ServeDecision, FailCall,
          LeavePage, OpenPage, PickProfile, vars, cVars
  <2>4. QED
    BY <2>1, <2>2, <2>3, OnceQuiet
<1>5. QED
  BY <1>1, <1>2, <1>3, <1>4

LEMMA OnceInit == Init => OnceInv
<1> SUFFICES ASSUME Init PROVE OnceInv
  OBVIOUS
<1>1. calls = <<>> /\ takes = 0
  BY DEF Init
<1>2. QED
  BY <1>1 DEF OnceInv

(* Once a guarded button has been withdrawn by what it did, it does        *)
(* nothing again until somebody else brings it back, whatever polls and    *)
(* changes elsewhere come between and however often it was used before:    *)
(* by the time it is enabled its page shows what was done.  Excepted are a *)
(* failure, an unclean refresh and a page that was left.                   *)
THEOREM GuardedOnce == Spec => []AppliedOnce
<1>1. Init => ConsoleInv /\ ServerOK /\ OnceInv
  BY InvInit, TypeInit, OnceInit DEF TypeInv
<1>2. ConsoleInv /\ ServerOK /\ OnceInv /\ [Next]_vars => ConsoleInv' /\ ServerOK' /\ OnceInv'
  BY StepKeeps, ServerStep, OnceStep
<1>3. OnceInv => AppliedOnce
  BY DEF OnceInv, Once, OnceFlags, AllWell, AppliedOnce, Is
<1>4. QED
  BY <1>1, <1>2, <1>3, PTL DEF Spec
=============================================================================
