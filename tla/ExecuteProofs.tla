--------------------------- MODULE ExecuteProofs ----------------------------
(***************************************************************************)
(* Proofs about Execute for every value of its constants: its types, the   *)
(* daily budgets, what a run's record accounts for, and that it implements *)
(* RunContract.                                                            *)
(***************************************************************************)
EXTENDS Execute, FiniteSetTheorems, TLAPS

USE CountersAssumption, RecordsAssumption, NoRecordAssumption, GatewayAssumption, ExecuteAssumption

----------------------------------------------------------------------------
(* Types                                                                   *)

LEMMA InitTyped == Init => TypeOK
  BY DEF Init, GatewayInit, CountersInit, RecordsInit, TypeOK, Time, RequestState, Stage,
         CallState, Step, Awaiting, Answer, CounterKind, TrailRow

\* A call is replaced by a call, and no other call changes.
LEMMA BecomeTyped ==
    ASSUME TypeOK, NEW r \in Run, NEW c \in CallState, Become(r, c)
    PROVE  /\ call' \in [Run -> CallState]
           /\ call'[r] = c
           /\ \A s \in Run \ {r} : call'[s] = call[s]
  BY DEF TypeOK, Become

\* The forms a call is rewritten in.
LEMMA StepForm ==
    ASSUME NEW c \in CallState, NEW step \in Step
    PROVE  [c EXCEPT !.step = step] \in CallState
  BY DEF CallState

LEMMA BeganForm ==
    ASSUME NEW c \in CallState, NEW step \in Step, NEW began \in Time
    PROVE  [c EXCEPT !.step = step, !.began = began] \in CallState
  BY DEF CallState

LEMMA VerdictForm ==
    ASSUME NEW c \in CallState, NEW step \in Step, NEW verdict \in BOOLEAN
    PROVE  [c EXCEPT !.step = step, !.verdict = verdict] \in CallState
  BY DEF CallState

LEMMA CountedForm ==
    ASSUME NEW c \in CallState, NEW step \in Step, NEW verdict \in BOOLEAN,
           NEW day \in Day \cup {NoDay}
    PROVE  [c EXCEPT !.step = step, !.verdict = verdict, !.day = day] \in CallState
  BY DEF CallState

LEMMA ReportForm ==
    ASSUME NEW c \in CallState, NEW step \in Step, NEW report \in Outcome,
           NEW seen \in SUBSET Request
    PROVE  [c EXCEPT !.step = step, !.report = report, !.seen = seen] \in CallState
  BY DEF CallState

LEMMA AnswerForm ==
    ASSUME NEW c \in CallState, NEW step \in Step, NEW answer \in Answer
    PROVE  [c EXCEPT !.step = step, !.answer = answer] \in CallState
  BY DEF CallState

LEMMA AnsweredType == ASSUME NEW r \in Run PROVE Answered(r) \in SUBSET Request
  BY DEF Answered

LEMMA DayType ==
    ASSUME TypeOK PROVE DayOf[now] \in Day
  BY DEF TypeOK

\* What the actions of a call leave of it is a call again.
LEMMA CallTyped ==
    ASSUME TypeOK, NEW r \in Run,
           Call(r) \/ CallStep(r) \/ HostDies(r)
    PROVE  call' \in [Run -> CallState] /\ isolate' \subseteq Run
<1>0. call[r] \in CallState /\ now \in Time /\ isolate \subseteq Run
  BY DEF TypeOK
<1>2. CASE Call(r)
  <2>1. [call[r] EXCEPT !.step = "door", !.began = now] \in CallState
    BY <1>0, BeganForm DEF Step, Awaiting
  <2> QED BY <1>0, <1>2, <2>1, BecomeTyped DEF Call
<1>3. CASE CountExecution(r)
  <2> DEFINE over == Exhausted("executions", ExecutionBudget, now)
             day == IF over THEN NoDay ELSE DayOf[now]
  <2>1. over \in BOOLEAN
    BY DEF Exhausted
  <2>2. day \in Day \cup {NoDay}
    BY DayType
  <2>3. Become(r, [call[r] EXCEPT !.step = "admit", !.verdict = over, !.day = day])
    BY <1>3 DEF CountExecution
  <2> HIDE DEF over, day
  <2>4. [call[r] EXCEPT !.step = "admit", !.verdict = over, !.day = day] \in CallState
    BY <1>0, <2>1, <2>2, CountedForm DEF Step, Awaiting
  <2>5. isolate' \subseteq Run
    BY <1>0, <1>3 DEF CountExecution
  <2> QED BY <2>3, <2>4, <2>5, BecomeTyped
<1>4. ASSUME NEW answer \in Answer, Respond(r, answer), UNCHANGED isolate
      PROVE  call' \in [Run -> CallState] /\ isolate' \subseteq Run
  <2>1. [call[r] EXCEPT !.step = "answered", !.answer = answer] \in CallState
    BY <1>0, AnswerForm DEF Step
  <2> QED BY <1>0, <1>4, <2>1, BecomeTyped DEF Respond
<1>5. CASE Refuse(r)
  BY <1>4, <1>5 DEF Refuse, Answer
<1>6. CASE Answers(r)
  <2>1. CASE call[r].report = "failure"
    BY <1>4, <1>6, <2>1 DEF Answers, Answer
  <2>2. CASE call[r].report # "failure" /\ call[r].verdict
    BY <1>4, <1>6, <2>2 DEF Answers, Answer
  <2>3. CASE call[r].report # "failure" /\ ~ call[r].verdict
    BY <1>4, <1>6, <2>3 DEF Answers, Answer
  <2> QED BY <2>1, <2>2, <2>3
<1>7. CASE Rejected(r)
  BY <1>4, <1>7 DEF Rejected, Answer
<1>8. ASSUME NEW step \in Step, Become(r, [call[r] EXCEPT !.step = step]), isolate' \subseteq Run
      PROVE  call' \in [Run -> CallState] /\ isolate' \subseteq Run
  BY <1>0, <1>8, StepForm, BecomeTyped
<1>9. CASE Admit(r)
  BY <1>0, <1>8, <1>9 DEF Admit, Await, Step, Awaiting
<1>10. CASE Boot(r)
  BY <1>0, <1>8, <1>10 DEF Boot, Await, Step, Awaiting
<1>11. CASE ReadValues(r)
  BY <1>0, <1>8, <1>11 DEF ReadValues, Await, Step, Awaiting
<1>12. CASE HostDies(r)
  BY <1>0, <1>8, <1>12 DEF HostDies, Step
<1>13. ASSUME NEW verdict \in BOOLEAN, UNCHANGED isolate,
              Become(r, [call[r] EXCEPT !.step = "reply", !.verdict = verdict])
       PROVE  call' \in [Run -> CallState] /\ isolate' \subseteq Run
  <2>1. [call[r] EXCEPT !.step = "reply", !.verdict = verdict] \in CallState
    BY <1>0, VerdictForm DEF Step, Awaiting
  <2> QED BY <1>0, <1>13, <2>1, BecomeTyped
<1>14. CASE RecordRefused(r)
  BY <1>13, <1>14 DEF RecordRefused
<1>15. CASE WriteRecord(r)
  BY <1>13, <1>15 DEF WriteRecord
<1>16. ASSUME NEW report \in Outcome, Reported(r, report), isolate' \subseteq Run
       PROVE  call' \in [Run -> CallState] /\ isolate' \subseteq Run
  <2>1. [call[r] EXCEPT !.step = "values", !.report = report, !.seen = Answered(r)] \in CallState
    BY <1>0, AnsweredType, ReportForm DEF Step, Awaiting
  <2> QED BY <1>16, <2>1, BecomeTyped DEF Reported
<1>17. CASE Report(r)
  BY <1>0, <1>16, <1>17 DEF Report
<1>18. CASE TimeOut(r)
  BY <1>0, <1>16, <1>18 DEF TimeOut, Outcome
<1> QED BY <1>2, <1>3, <1>5, <1>6, <1>7, <1>9, <1>10, <1>11, <1>12, <1>14, <1>15, <1>17, <1>18 DEF CallStep

LEMMA RequestForm ==
    ASSUME NEW x \in RequestState, NEW stage \in Stage
    PROVE  /\ [x EXCEPT !.stage = stage] \in RequestState
           /\ \A day \in Day \cup {NoDay} : [x EXCEPT !.stage = stage, !.day = day] \in RequestState
  BY DEF RequestState

LEMMA MoveToTyped ==
    ASSUME TypeOK, NEW q \in Request, NEW stage \in Stage, MoveTo(q, stage)
    PROVE  /\ request' \in [Request -> RequestState]
           /\ request'[q] = [request[q] EXCEPT !.stage = stage]
           /\ \A p \in Request \ {q} : request'[p] = request[p]
<1>1. request[q] \in RequestState
  BY DEF TypeOK
<1>2. [request[q] EXCEPT !.stage = stage] \in RequestState
  BY <1>1, RequestForm
<1> QED BY <1>2 DEF MoveTo, TypeOK

\* The day that lets a request through is the one whose counter did.
LEMMA CountFetchEffect ==
    ASSUME TypeOK, NEW q \in Request, CountFetch(q)
    PROVE  /\ request' \in [Request -> RequestState]
           /\ \A p \in Request \ {q} : request'[p] = request[p]
           /\ request'[q].stage = "route"
           /\ request'[q].run = request[q].run
           /\ Exhausted("fetches", FetchBudget, now) => request'[q].day = NoDay
           /\ ~ Exhausted("fetches", FetchBudget, now) => request'[q].day = DayOf[now]
<1> DEFINE over == Exhausted("fetches", FetchBudget, now)
           day == IF over THEN NoDay ELSE DayOf[now]
<1>1. request' = [request EXCEPT ![q] = [@ EXCEPT !.stage = "route", !.day = day]]
  BY DEF CountFetch
<1>2. day \in Day \cup {NoDay}
  BY DayType
<1>3. /\ request' \in [Request -> RequestState]
      /\ \A p \in Request \ {q} : request'[p] = request[p]
      /\ request'[q].stage = "route" /\ request'[q].run = request[q].run /\ request'[q].day = day
  <2> HIDE DEF day
  <2>1. request[q] \in RequestState
    BY DEF TypeOK
  <2>2. [request[q] EXCEPT !.stage = "route", !.day = day] \in RequestState
    BY <1>2, <2>1, RequestForm DEF Stage
  <2>3. request'[q] = [request[q] EXCEPT !.stage = "route", !.day = day]
    BY <1>1 DEF TypeOK
  <2> QED BY <1>1, <2>1, <2>2, <2>3 DEF TypeOK, RequestState
<1> QED BY <1>3

LEMMA CountTyped ==
    ASSUME TypeOK, NEW k \in CounterKind, Count(k, now)
    PROVE  /\ spent' \in [CounterKind -> [Day -> Nat]]
           /\ spent'[k][DayOf[now]] = spent[k][DayOf[now]] + 1
           /\ \A d \in Day \ {DayOf[now]} : spent'[k][d] = spent[k][d]
           /\ \A j \in CounterKind \ {k} : spent'[j] = spent[j]
<1>1. spent[k] \in [Day -> Nat] /\ DayOf[now] \in Day
  BY DayType DEF TypeOK
<1>2. spent'[k] = [spent[k] EXCEPT ![DayOf[now]] = @ + 1]
  BY DEF Count, TypeOK
<1>3. spent'[k] \in [Day -> Nat]
  BY <1>1, <1>2
<1> QED BY <1>1, <1>2, <1>3 DEF Count, TypeOK

LEMMA PutRecordTyped ==
    ASSUME TypeOK, NEW r \in Run, NEW outcome \in Outcome, PutRecord(r, outcome, now)
    PROVE  /\ trail' \subseteq TrailRow
           /\ dropped' \in [Run -> Nat]
           /\ \A s \in Run : record'[s] = NoRecord \/ record'[s] \in RunRecord
           /\ DOMAIN record' = Run
<1>1. Fresh(now) \subseteq TrailRow
  BY DEF TypeOK, Fresh
<1>2. [outcome |-> outcome, trail |-> Fresh(now) \cap TrailOf(r), dropped |-> dropped[r]] \in RunRecord
  BY <1>1 DEF RunRecord, TypeOK
<1> QED BY <1>1, <1>2 DEF PutRecord, TypeOK

LEMMA AppendTrailTyped ==
    ASSUME TypeOK, NEW r \in Run, NEW q \in Request, AppendTrail(r, q, now)
    PROVE  trail' \subseteq TrailRow /\ dropped' \in [Run -> Nat] /\ record' = record
<1>1. now \in Nat
  BY DEF TypeOK, Time
<1> QED BY <1>1 DEF AppendTrail, TypeOK, TrailRow

\* The next state is typed.
LEMMA StepTyped ==
    ASSUME TypeOK, RequestsAgree, CallsAgree, [Next]_vars
    PROVE  TypeOK'
<1>1. CASE UNCHANGED vars
  BY <1>1 DEF vars, records, TypeOK
<1>2. ASSUME NEW r \in Run, Call(r) \/ CallStep(r) \/ HostDies(r)
      PROVE  TypeOK'
  <2>1. call' \in [Run -> CallState] /\ isolate' \subseteq Run
    BY <1>2, CallTyped
  <2>2. UNCHANGED <<now, request>>
    BY <1>2 DEF Call, CallStep, HostDies, CountExecution, Refuse, Admit, Boot, Report, TimeOut,
                ReadValues, WriteRecord, RecordRefused, Answers, Rejected
  <2>3. CASE CountExecution(r)
    <3>1. spent' \in [CounterKind -> [Day -> Nat]] /\ UNCHANGED records
      BY <2>3, CountTyped DEF CountExecution, CounterKind
    <3> QED BY <2>1, <2>2, <3>1 DEF TypeOK, records
  <2>4. CASE WriteRecord(r)
    <3>1. call[r].report \in Outcome
      BY <2>4 DEF WriteRecord, CallsAgree, CallAgrees, TypeOK, CallState
    <3>2. PutRecord(r, call[r].report, now) /\ UNCHANGED spent
      BY <2>4 DEF WriteRecord
    <3> QED BY <2>1, <2>2, <3>1, <3>2, PutRecordTyped DEF TypeOK
  <2>5. CASE ~ CountExecution(r) /\ ~ WriteRecord(r)
    <3>1. UNCHANGED <<spent, records>>
      BY <1>2, <2>5 DEF Call, CallStep, HostDies, Refuse, Admit, Boot, Report, TimeOut,
                ReadValues, RecordRefused, Answers, Rejected
    <3> QED BY <2>1, <2>2, <3>1 DEF TypeOK, records
  <2> QED BY <2>3, <2>4, <2>5
<1>3. ASSUME NEW q \in Request, GatewayStep(q)
      PROVE  TypeOK'
  <2>1. UNCHANGED <<now, isolate, call>>
    BY <1>3 DEF GatewayStep, Send, CountFetch, Route, RouteThrows, Log, LogFails
  <2>2. CASE \E r \in isolate : Send(r, q)
    <3>1. PICK r \in isolate : Send(r, q)
      BY <2>2
    <3>2. [stage |-> "count", run |-> r, day |-> NoDay] \in RequestState
      BY DEF RequestState, Stage, TypeOK
    <3>3. request' \in [Request -> RequestState]
      BY <3>1, <3>2 DEF Send, TypeOK
    <3> QED BY <2>1, <3>1, <3>3 DEF Send, TypeOK, records
  <2>3. CASE CountFetch(q)
    <3>1. spent' \in [CounterKind -> [Day -> Nat]] /\ UNCHANGED records
      BY <2>3, CountTyped DEF CountFetch, CounterKind
    <3>2. request' \in [Request -> RequestState]
      BY <2>3, CountFetchEffect
    <3> QED BY <2>1, <3>1, <3>2 DEF TypeOK, records
  <2>4. CASE Route(q) \/ RouteThrows(q) \/ LogFails(q)
    <3>1. PICK stage \in Stage : MoveTo(q, stage)
      BY <2>4 DEF Route, RouteThrows, LogFails, Stage
    <3>2. UNCHANGED <<spent, records>>
      BY <2>4 DEF Route, RouteThrows, LogFails
    <3> QED BY <2>1, <3>1, <3>2, MoveToTyped DEF TypeOK, records
  <2>5. CASE Log(q)
    <3>1. request[q].run \in Run
      BY <2>5 DEF Log, RequestsAgree, TypeOK, RequestState
    <3>2. AppendTrail(request[q].run, q, now) /\ MoveTo(q, "returned") /\ UNCHANGED spent
      BY <2>5 DEF Log
    <3>3. trail' \subseteq TrailRow /\ dropped' \in [Run -> Nat] /\ record' = record
      BY <3>1, <3>2, AppendTrailTyped
    <3>4. request' \in [Request -> RequestState]
      BY <3>2, MoveToTyped DEF Stage
    <3> QED BY <2>1, <3>2, <3>3, <3>4 DEF TypeOK
  <2> QED BY <1>3, <2>2, <2>3, <2>4, <2>5 DEF GatewayStep
<1>4. CASE Tick
  BY <1>4 DEF Tick, TypeOK, Time, records
<1> QED BY <1>1, <1>2, <1>3, <1>4 DEF Next

----------------------------------------------------------------------------
(* Calls                                                                   *)

LEMMA CallFields ==
    ASSUME TypeOK, NEW r \in Run
    PROVE  /\ call[r] \in CallState
           /\ call[r].step \in Step /\ call[r].began \in Time /\ call[r].verdict \in BOOLEAN
           /\ call[r].day \in Day \cup {NoDay} /\ call[r].report \in Outcome \cup {"none"}
           /\ call[r].seen \subseteq Request /\ call[r].answer \in Answer
  BY DEF TypeOK, CallState

\* A call, field by field.
Is(c, step, began, verdict, day, report, seen, answer) ==
    /\ c.step = step /\ c.began = began /\ c.verdict = verdict /\ c.day = day
    /\ c.report = report /\ c.seen = seen /\ c.answer = answer

\* The fields each action of a call leaves, and that other calls stay.
LEMMA BecomeFields ==
    ASSUME TypeOK, NEW r \in Run, NEW c, Become(r, c)
    PROVE  call'[r] = c /\ \A s \in Run \ {r} : call'[s] = call[s]
  BY DEF Become, TypeOK

LEMMA OthersStay ==
    ASSUME TypeOK, NEW r \in Run, Call(r) \/ CallStep(r) \/ HostDies(r)
    PROVE  \A s \in Run \ {r} : call'[s] = call[s]
  BY BecomeFields
     DEF Call, CallStep, HostDies, CountExecution, Refuse, Admit, Boot, Report, TimeOut, Reported,
         ReadValues, WriteRecord, RecordRefused, Answers, Rejected, Respond, Await

LEMMA StepEffect ==
    ASSUME TypeOK, NEW r \in Run, NEW step, Await(r, step)
    PROVE  Is(call'[r], step, call[r].began, call[r].verdict, call[r].day, call[r].report,
              call[r].seen, call[r].answer)
<1>1. call'[r] = [call[r] EXCEPT !.step = step]
  BY BecomeFields DEF Await
<1> QED BY <1>1, CallFields DEF Is, CallState

LEMMA CallEffect ==
    ASSUME TypeOK, NEW r \in Run, Call(r)
    PROVE  Is(call'[r], "door", now, call[r].verdict, call[r].day, call[r].report,
              call[r].seen, call[r].answer)
<1>1. call'[r] = [call[r] EXCEPT !.step = "door", !.began = now]
  BY BecomeFields DEF Call
<1> QED BY <1>1, CallFields DEF Is, CallState

LEMMA DiesEffect ==
    ASSUME TypeOK, NEW r \in Run, HostDies(r)
    PROVE  Is(call'[r], "dead", call[r].began, call[r].verdict, call[r].day, call[r].report,
              call[r].seen, call[r].answer)
<1>1. call'[r] = [call[r] EXCEPT !.step = "dead"]
  BY BecomeFields DEF HostDies
<1> QED BY <1>1, CallFields DEF Is, CallState

LEMMA CountEffect ==
    ASSUME TypeOK, NEW r \in Run, CountExecution(r)
    PROVE  \/ /\ Exhausted("executions", ExecutionBudget, now)
              /\ Is(call'[r], "admit", call[r].began, TRUE, NoDay, call[r].report,
                    call[r].seen, call[r].answer)
           \/ /\ ~ Exhausted("executions", ExecutionBudget, now)
              /\ Is(call'[r], "admit", call[r].began, FALSE, DayOf[now], call[r].report,
                    call[r].seen, call[r].answer)
<1> DEFINE over == Exhausted("executions", ExecutionBudget, now)
           day == IF over THEN NoDay ELSE DayOf[now]
<1>1. Become(r, [call[r] EXCEPT !.step = "admit", !.verdict = over, !.day = day])
  BY DEF CountExecution
<1>2. Is(call'[r], "admit", call[r].began, over, day, call[r].report, call[r].seen, call[r].answer)
  <2> HIDE DEF over, day
  <2>1. call'[r] = [call[r] EXCEPT !.step = "admit", !.verdict = over, !.day = day]
    BY <1>1, BecomeFields
  <2> QED BY <2>1, CallFields DEF Is, CallState
<1>3. over \in BOOLEAN
  BY DEF Exhausted
<1>4. CASE over
  <2>1. over = TRUE /\ day = NoDay
    BY <1>3, <1>4
  <2> HIDE DEF over, day
  <2>2. Is(call'[r], "admit", call[r].began, TRUE, NoDay, call[r].report, call[r].seen, call[r].answer)
    BY <1>2, <2>1
  <2> USE DEF over
  <2> QED BY <1>4, <2>2
<1>5. CASE ~ over
  <2>1. over = FALSE /\ day = DayOf[now]
    BY <1>3, <1>5
  <2> HIDE DEF over, day
  <2>2. Is(call'[r], "admit", call[r].began, FALSE, DayOf[now], call[r].report, call[r].seen, call[r].answer)
    BY <1>2, <2>1
  <2> USE DEF over
  <2> QED BY <1>5, <2>2
<1> QED BY <1>4, <1>5

LEMMA ReportEffect ==
    ASSUME TypeOK, NEW r \in Run, NEW outcome, Reported(r, outcome)
    PROVE  Is(call'[r], "values", call[r].began, call[r].verdict, call[r].day, outcome,
              Answered(r), call[r].answer)
<1>1. call'[r] = [call[r] EXCEPT !.step = "values", !.report = outcome, !.seen = Answered(r)]
  BY BecomeFields DEF Reported
<1> QED BY <1>1, CallFields DEF Is, CallState

LEMMA ReplyEffect ==
    ASSUME TypeOK, NEW r \in Run
    PROVE  /\ WriteRecord(r) =>
                Is(call'[r], "reply", call[r].began, TRUE, call[r].day, call[r].report,
                   call[r].seen, call[r].answer)
           /\ RecordRefused(r) =>
                Is(call'[r], "reply", call[r].began, FALSE, call[r].day, call[r].report,
                   call[r].seen, call[r].answer)
<1>1. WriteRecord(r) => call'[r] = [call[r] EXCEPT !.step = "reply", !.verdict = TRUE]
  BY BecomeFields DEF WriteRecord
<1>2. RecordRefused(r) => call'[r] = [call[r] EXCEPT !.step = "reply", !.verdict = FALSE]
  BY BecomeFields DEF RecordRefused
<1> QED BY <1>1, <1>2, CallFields DEF Is, CallState

LEMMA RespondEffect ==
    ASSUME TypeOK, NEW r \in Run, NEW answer, Respond(r, answer)
    PROVE  Is(call'[r], "answered", call[r].began, call[r].verdict, call[r].day, call[r].report,
              call[r].seen, answer)
<1>1. call'[r] = [call[r] EXCEPT !.step = "answered", !.answer = answer]
  BY BecomeFields DEF Respond
<1> QED BY <1>1, CallFields DEF Is, CallState

\* What an action of a call can touch besides the call.
LEMMA CallFrame ==
    ASSUME NEW r \in Run, Call(r) \/ CallStep(r) \/ HostDies(r)
    PROVE  /\ UNCHANGED <<now, request>>
           /\ ~ WriteRecord(r) => UNCHANGED <<trail, dropped, record>>
           /\ ~ CountExecution(r) => UNCHANGED spent
           /\ ~ Boot(r) => isolate' \subseteq isolate
  BY DEF Call, CallStep, HostDies, CountExecution, Refuse, Admit, Boot, Report, TimeOut,
         ReadValues, WriteRecord, RecordRefused, Answers, Rejected, records

LEMMA GatewayFrame ==
    ASSUME NEW q \in Request, GatewayStep(q)
    PROVE  /\ UNCHANGED <<now, isolate, call>>
           /\ ~ Log(q) => UNCHANGED <<trail, dropped, record>>
           /\ ~ CountFetch(q) => UNCHANGED spent
  BY DEF GatewayStep, Send, CountFetch, Route, RouteThrows, Log, LogFails, records

LEMMA CallsAgreeStep ==
    ASSUME TypeOK, CallsAgree, UnbootedRunsAreNew, [Next]_vars
    PROVE  CallsAgree'
<1> USE DEF CallAgrees, UnderWay, Awaiting
<1>1. CASE UNCHANGED vars
  BY <1>1 DEF vars, records, CallsAgree
<1>2. ASSUME NEW r \in Run, Call(r) \/ CallStep(r) \/ HostDies(r)
      PROVE  CallsAgree'
  <2>1. ASSUME NEW s \in Run \ {r} PROVE CallAgrees(s)'
    <3>1. record'[s] = record[s]
      <4>1. CASE WriteRecord(r)
        BY <4>1 DEF WriteRecord, PutRecord, TypeOK
      <4>2. CASE ~ WriteRecord(r)
        BY <1>2, <4>2, CallFrame
      <4> QED BY <4>1, <4>2
    <3> QED BY <1>2, <3>1, OthersStay, CallFrame DEF CallsAgree
  <2>2. CallAgrees(r)'
    <3>0. CallAgrees(r)
      BY DEF CallsAgree
    <3> USE DEF Is
    <3>1. CASE Call(r)
      <4>1. call[r].step = "idle" /\ UNCHANGED <<now, record>>
        BY <3>1 DEF Call, records
      <4>2. now <= now /\ now <= now + RunSpan
        BY DEF TypeOK, Time
      <4> QED BY <3>0, <3>1, <4>1, <4>2, CallEffect
    <3>2. CASE CountExecution(r)
      <4>1. call[r].step = "door" /\ UNCHANGED <<now, record>>
        BY <3>2 DEF CountExecution, records
      <4>2. DayOf[now] # NoDay
        BY DayType
      <4>3. \E over \in BOOLEAN : \E day :
                          /\ over <=> day = NoDay
                          /\ Is(call'[r], "admit", call[r].began, over, day, call[r].report,
                                call[r].seen, call[r].answer)
        <5>1. CASE Is(call'[r], "admit", call[r].began, TRUE, NoDay, call[r].report,
                      call[r].seen, call[r].answer)
          BY <5>1
        <5>2. CASE Is(call'[r], "admit", call[r].began, FALSE, DayOf[now], call[r].report,
                      call[r].seen, call[r].answer)
          BY <4>2, <5>2
        <5> QED BY <3>2, <5>1, <5>2, CountEffect
      <4> QED BY <3>0, <4>1, <4>3
    <3>3. CASE Refuse(r)
      <4>1. call[r].step = "admit" /\ Respond(r, "refused") /\ UNCHANGED <<now, record>>
        BY <3>3 DEF Refuse, records
      <4> QED BY <3>0, <4>1, RespondEffect
    <3>4. CASE Admit(r)
      <4>1. call[r].step = "admit" /\ Await(r, "packages") /\ UNCHANGED <<now, record>>
        BY <3>4 DEF Admit, records
      <4> QED BY <3>0, <4>1, StepEffect
    <3>5. CASE Boot(r)
      <4>1. call[r].step = "packages" /\ Await(r, "sandbox") /\ UNCHANGED <<now, record>>
        BY <3>5 DEF Boot, records
      <4> QED BY <3>0, <4>1, StepEffect
    <3>6. ASSUME NEW outcome \in Outcome, call[r].step = "sandbox", Reported(r, outcome),
                 UNCHANGED <<now, record>>
          PROVE  CallAgrees(r)'
      <4>1. outcome # "none"
        BY <3>6 DEF Outcome
      <4> QED BY <3>0, <3>6, <4>1, ReportEffect
    <3>7. CASE Report(r) \/ TimeOut(r)
      BY <3>6, <3>7 DEF Report, TimeOut, Outcome, records
    <3>8. CASE WriteRecord(r)
      <4>1. record'[r] # NoRecord /\ record'[r].outcome = call[r].report
        <5>1. call[r].report \in Outcome
          BY <3>0, <3>8, CallFields DEF WriteRecord
        <5>2. record'[r] = [outcome |-> call[r].report,
                            trail |-> Fresh(now) \cap TrailOf(r), dropped |-> dropped[r]]
          BY <3>8 DEF WriteRecord, PutRecord, TypeOK
        <5>3. record'[r] \in RunRecord
          BY <5>1, <5>2 DEF RunRecord, Fresh, TypeOK
        <5> QED BY <5>2, <5>3
      <4> QED BY <1>2, <3>0, <3>8, <4>1, ReplyEffect, CallFrame DEF WriteRecord
    <3>9. CASE RecordRefused(r)
      <4>1. call[r].step = "record" /\ UNCHANGED <<now, record>>
        BY <3>9 DEF RecordRefused, records
      <4> QED BY <3>0, <3>9, <4>1, ReplyEffect
    <3>10. ASSUME NEW answer, Respond(r, answer), call[r].step \in Awaiting, UNCHANGED <<now, record>>,
                  record[r] # NoRecord => call[r].step = "reply"
           PROVE  CallAgrees(r)'
      BY <3>0, <3>10, RespondEffect
    <3>11. CASE Answers(r) \/ Rejected(r)
      <4>1. call[r].step \in Awaiting /\ UNCHANGED <<now, record>>
        BY <3>11 DEF Answers, Rejected, records
      <4>2. \E answer : Respond(r, answer)
        BY <3>11 DEF Answers, Rejected
      <4> QED BY <3>0, <3>10, <4>1, <4>2
    <3>12. CASE ReadValues(r)
      <4>1. call[r].step = "values" /\ Await(r, "record") /\ UNCHANGED <<now, record>>
        BY <3>12 DEF ReadValues, records
      <4> QED BY <3>0, <4>1, StepEffect
    <3>13. CASE HostDies(r)
      <4>1. call[r].step \in Awaiting /\ UNCHANGED <<now, record>>
        BY <3>13 DEF HostDies, records
      <4> QED BY <3>0, <3>13, <4>1, DiesEffect
    <3> QED BY <1>2, <3>1, <3>2, <3>3, <3>4, <3>5, <3>7, <3>8, <3>9, <3>11, <3>12, <3>13 DEF CallStep
  <2> QED BY <2>1, <2>2 DEF CallsAgree
<1>3. ASSUME NEW q \in Request, GatewayStep(q)
      PROVE  CallsAgree'
  <2>1. record' = record
    <3>1. CASE Log(q)
      BY <3>1 DEF Log, AppendTrail
    <3> QED BY <1>3, <3>1, GatewayFrame
  <2> QED BY <1>3, <2>1, GatewayFrame DEF CallsAgree
<1>4. CASE Tick
  BY <1>4 DEF Tick, TypeOK, Time, records, CallsAgree, CallState
<1> QED BY <1>1, <1>2, <1>3, <1>4 DEF Next

----------------------------------------------------------------------------
(* Requests                                                                *)

\* Only a run that was booted has a sandbox.
LEMMA BootedSends ==
    ASSUME TypeOK, UnbootedRunsAreNew, NEW r \in isolate
    PROVE  r \in Run /\ call[r].step \notin {"idle", "door", "admit", "packages"}
  BY DEF TypeOK, UnbootedRunsAreNew, NothingOf

\* A request moves forward only, and keeps its run once it has one.
LEMMA RequestMoves ==
    ASSUME TypeOK, NEW q \in Request, GatewayStep(q)
    PROVE  /\ \A p \in Request \ {q} : request'[p] = request[p]
           /\ request[q].stage \notin {"returned", "unlogged", "threw"}
           /\ \/ \E r \in isolate :
                    /\ request[q].stage = "unsent" /\ request'[q].stage = "count"
                    /\ request'[q].run = r /\ request'[q].day = NoDay
              \/ /\ request[q].stage # "unsent"
                 /\ request'[q].stage \notin {"unsent", "count"}
                 /\ request'[q].run = request[q].run
                 /\ request'[q].day = request[q].day \/ CountFetch(q)
<1>0. request[q] \in RequestState
  BY DEF TypeOK
<1>1. ASSUME NEW stage, MoveTo(q, stage)
      PROVE  /\ \A p \in Request \ {q} : request'[p] = request[p]
             /\ request'[q].stage = stage
             /\ request'[q].run = request[q].run
             /\ request'[q].day = request[q].day
  <2>1. request'[q] = [request[q] EXCEPT !.stage = stage]
    BY <1>1 DEF MoveTo, TypeOK
  <2> QED BY <1>0, <1>1, <2>1 DEF MoveTo, TypeOK, RequestState
<1>2. CASE \E r \in isolate : Send(r, q)
  BY <1>2 DEF Send, TypeOK
<1>3. CASE CountFetch(q)
  BY <1>3, CountFetchEffect DEF CountFetch
<1>4. CASE Route(q)
  BY <1>1, <1>4 DEF Route
<1>5. CASE RouteThrows(q)
  BY <1>1, <1>5 DEF RouteThrows
<1>6. CASE Log(q)
  BY <1>1, <1>6 DEF Log
<1>7. CASE LogFails(q)
  BY <1>1, <1>7 DEF LogFails
<1> QED BY <1>2, <1>3, <1>4, <1>5, <1>6, <1>7 DEF GatewayStep

LEMMA RequestsAgreeStep ==
    ASSUME TypeOK, CallsAgree, RequestsAgree, UnbootedRunsAreNew, [Next]_vars
    PROVE  RequestsAgree'
<1>1. CASE UNCHANGED vars
  BY <1>1 DEF vars, RequestsAgree, Answered
<1>2. ASSUME NEW r \in Run, Call(r) \/ CallStep(r) \/ HostDies(r)
      PROVE  RequestsAgree'
  <2>1. \A s \in Run : call'[s].seen \subseteq Answered(s)
    <3>1. \A s \in Run \ {r} : call'[s].seen = call[s].seen
      BY <1>2, OthersStay
    <3>2. call'[r].seen \in {call[r].seen, Answered(r)}
      <4>1. CASE Call(r)
        BY <4>1, CallEffect DEF Is
      <4>2. CASE CountExecution(r)
        BY <4>2, CountEffect DEF Is
      <4>3. CASE Refuse(r) \/ Rejected(r) \/ Answers(r)
        BY <4>3, RespondEffect DEF Is, Refuse, Rejected, Answers
      <4>4. CASE Admit(r) \/ Boot(r) \/ ReadValues(r)
        BY <4>4, StepEffect DEF Is, Admit, Boot, ReadValues
      <4>5. CASE Report(r) \/ TimeOut(r)
        BY <4>5, ReportEffect DEF Is, Report, TimeOut
      <4>6. CASE WriteRecord(r) \/ RecordRefused(r)
        BY <4>6, ReplyEffect DEF Is
      <4>7. CASE HostDies(r)
        BY <4>7, DiesEffect DEF Is
      <4> QED BY <1>2, <4>1, <4>2, <4>3, <4>4, <4>5, <4>6, <4>7 DEF CallStep
    <3> QED BY <3>1, <3>2 DEF RequestsAgree
  <2>2. request' = request
    BY <1>2, CallFrame
  <2> QED BY <2>1, <2>2 DEF RequestsAgree, Answered
<1>3. ASSUME NEW q \in Request, GatewayStep(q)
      PROVE  RequestsAgree'
  <2>1. call' = call
    BY <1>3, GatewayFrame
  <2>2. ASSUME NEW p \in Request
        PROVE  /\ request'[p].stage = "unsent" <=> request'[p].run = NoRun
               /\ request'[p].stage \in {"unsent", "count"} => request'[p].day = NoDay
    <3>1. CASE p = q
      BY <1>3, <3>1, RequestMoves, BootedSends DEF RequestsAgree
    <3>2. CASE p # q
      BY <1>3, <3>2, RequestMoves DEF RequestsAgree
    <3> QED BY <3>1, <3>2
  <2>3. ASSUME NEW r \in Run
        PROVE  call[r].seen \subseteq Answered(r)'
    <3>1. q \notin call[r].seen
      BY <1>3, RequestMoves DEF RequestsAgree, Answered
    <3> QED BY <1>3, <3>1, RequestMoves DEF RequestsAgree, Answered
  <2> QED BY <2>1, <2>2, <2>3 DEF RequestsAgree
<1>4. CASE Tick
  BY <1>4 DEF Tick, RequestsAgree, Answered
<1> QED BY <1>1, <1>2, <1>3, <1>4 DEF Next

----------------------------------------------------------------------------
(* Runs that were not booted                                               *)

\* What a run's rows and requests are made of stays, but for its own record
\* and for the lines of its own requests; a sweep only takes rows away.
LEMMA NothingStays ==
    ASSUME TypeOK, RequestsAgree, [Next]_vars, NEW s \in Run, NothingOf(s),
           s \in isolate' => s \in isolate,
           ~ WriteRecord(s)
    PROVE  NothingOf(s)'
<1>1. CASE UNCHANGED vars
  BY <1>1 DEF vars, records, NothingOf, TrailOf
<1>2. ASSUME NEW r \in Run, Call(r) \/ CallStep(r) \/ HostDies(r)
      PROVE  NothingOf(s)'
  <2>1. CASE WriteRecord(r)
    <3>1. r # s /\ PutRecord(r, call[r].report, now) /\ request' = request
      BY <2>1 DEF WriteRecord
    <3> QED BY <3>1 DEF NothingOf, PutRecord, TrailOf, Fresh, TypeOK
  <2>2. CASE ~ WriteRecord(r)
    BY <1>2, <2>2, CallFrame DEF NothingOf, TrailOf
  <2> QED BY <2>1, <2>2
<1>3. ASSUME NEW q \in Request, GatewayStep(q)
      PROVE  NothingOf(s)'
  <2>1. \A p \in Request : request'[p].run # s
    BY <1>3, RequestMoves DEF NothingOf, GatewayStep, Send
  <2>2. CASE Log(q)
    <3>1. request[q].run # s /\ AppendTrail(request[q].run, q, now)
      BY <2>2 DEF Log, NothingOf
    <3> QED BY <2>1, <3>1 DEF NothingOf, AppendTrail, TrailOf, TypeOK
  <2>3. CASE ~ Log(q)
    BY <1>3, <2>1, <2>3, GatewayFrame DEF NothingOf, TrailOf
  <2> QED BY <2>2, <2>3
<1>4. CASE Tick
  BY <1>4 DEF Tick, records, NothingOf, TrailOf
<1> QED BY <1>1, <1>2, <1>3, <1>4 DEF Next

\* A run that was booted stays one.
LEMMA RunningEffect ==
    ASSUME TypeOK, NEW r \in Run
    PROVE  /\ Boot(r) => call'[r].step = "sandbox" /\ call'[r].day = call[r].day
           /\ Report(r) \/ TimeOut(r) => call'[r].step = "values" /\ call'[r].day = call[r].day
           /\ ReadValues(r) => call'[r].step = "record" /\ call'[r].day = call[r].day
           /\ WriteRecord(r) \/ RecordRefused(r) =>
                call'[r].step = "reply" /\ call'[r].day = call[r].day
<1>1. Boot(r) => call'[r].step = "sandbox" /\ call'[r].day = call[r].day
  BY StepEffect DEF Boot, Is
<1>2. Report(r) \/ TimeOut(r) => call'[r].step = "values" /\ call'[r].day = call[r].day
  BY ReportEffect DEF Report, TimeOut, Is
<1>3. ReadValues(r) => call'[r].step = "record" /\ call'[r].day = call[r].day
  BY StepEffect DEF ReadValues, Is
<1>4. WriteRecord(r) \/ RecordRefused(r) => call'[r].step = "reply" /\ call'[r].day = call[r].day
  BY ReplyEffect DEF Is
<1> QED BY <1>1, <1>2, <1>3, <1>4

LEMMA UnbootedStep ==
    ASSUME TypeOK, CallsAgree, RequestsAgree, UnbootedRunsAreNew, RefusedRunsLeaveNothing, [Next]_vars
    PROVE  UnbootedRunsAreNew' /\ RefusedRunsLeaveNothing'
<1> DEFINE New(c) == c.step \in {"idle", "door", "admit", "packages"}
           Refused(c) == c.day = NoDay
<1>1. ASSUME NEW s \in Run, New(call'[s]) \/ Refused(call'[s])
      PROVE  /\ NothingOf(s)'
             /\ Refused(call'[s]) => call'[s].step \in {"idle", "door", "admit", "answered", "dead"}
  <2>0. New(call[s]) \/ Refused(call[s]) => NothingOf(s)
    BY DEF UnbootedRunsAreNew, RefusedRunsLeaveNothing
  <2>1. ASSUME call'[s] = call[s], s \in isolate' => s \in isolate, ~ WriteRecord(s)
        PROVE  /\ NothingOf(s)'
               /\ Refused(call'[s]) => call'[s].step \in {"idle", "door", "admit", "answered", "dead"}
    BY <1>1, <2>0, <2>1, NothingStays DEF RefusedRunsLeaveNothing
  <2>2. CASE UNCHANGED vars
    <3>1. ~ WriteRecord(s)
      BY <2>2, ReplyEffect DEF vars, Is, WriteRecord
    <3> QED BY <2>1, <2>2, <3>1 DEF vars
  <2>3. ASSUME NEW r \in Run \ {s}, Call(r) \/ CallStep(r) \/ HostDies(r)
        PROVE  /\ NothingOf(s)'
               /\ Refused(call'[s]) => call'[s].step \in {"idle", "door", "admit", "answered", "dead"}
    <3>1. call'[s] = call[s]
      BY <2>3, OthersStay
    <3>2. ~ WriteRecord(s)
      BY <3>1, ReplyEffect DEF Is, WriteRecord
    <3>3. s \in isolate' => s \in isolate
      BY <2>3, CallFrame DEF Boot
    <3> QED BY <2>1, <3>1, <3>2, <3>3
  <2>4. ASSUME NEW q \in Request, GatewayStep(q)
        PROVE  /\ NothingOf(s)'
               /\ Refused(call'[s]) => call'[s].step \in {"idle", "door", "admit", "answered", "dead"}
    <3>1. call'[s] = call[s] /\ isolate' = isolate
      BY <2>4, GatewayFrame
    <3>2. ~ WriteRecord(s)
      BY <3>1, ReplyEffect DEF Is, WriteRecord
    <3> QED BY <2>1, <3>1, <3>2
  <2>5. CASE Tick
    <3>1. call'[s] = call[s] /\ isolate' = isolate
      BY <2>5 DEF Tick
    <3>2. ~ WriteRecord(s)
      BY <3>1, ReplyEffect DEF Is, WriteRecord
    <3> QED BY <2>1, <3>1, <3>2
  <2>6. ASSUME call[s].step \notin {"packages", "record"}, NothingOf(s)
        PROVE  Call(s) \/ CallStep(s) \/ HostDies(s) => NothingOf(s)'
    <3>1. ~ WriteRecord(s) /\ ~ Boot(s)
      BY <2>6 DEF WriteRecord, Boot
    <3> QED BY <2>6, <3>1, NothingStays, CallFrame DEF Next
  <2>7. CASE Call(s)
    <3>1. call[s].step = "idle"
      BY <2>7 DEF Call
    <3> QED BY <2>0, <2>6, <2>7, <3>1, CallEffect DEF Is
  <2>8. CASE CountExecution(s)
    <3>1. call[s].step = "door" /\ call'[s].step = "admit"
      BY <2>8, CountEffect DEF CountExecution, Is
    <3> QED BY <2>0, <2>6, <2>8, <3>1 DEF CallStep
  <2>9. CASE Admit(s)
    <3>1. call[s].step = "admit" /\ ~ call[s].verdict /\ call'[s].day = call[s].day
      BY <2>9, StepEffect DEF Admit, Is
    <3>2. call[s].day # NoDay
      BY <3>1 DEF CallsAgree, CallAgrees
    <3> QED BY <2>0, <2>6, <2>9, <3>1, <3>2 DEF CallStep
  <2>10. ASSUME call'[s].step = call[s].step \/ call'[s].step \in {"answered", "dead"},
                call'[s].day = call[s].day, Call(s) \/ CallStep(s) \/ HostDies(s), ~ Boot(s), ~ WriteRecord(s)
        PROVE  /\ NothingOf(s)'
               /\ Refused(call'[s]) => call'[s].step \in {"idle", "door", "admit", "answered", "dead"}
    <3>1. NothingOf(s)
      BY <1>1, <2>0, <2>10
    <3>2. NothingOf(s)'
      BY <2>10, <3>1, NothingStays, CallFrame DEF Next
    <3> QED BY <1>1, <2>10, <3>2 DEF RefusedRunsLeaveNothing
  <2>11. CASE Refuse(s) \/ Answers(s) \/ Rejected(s)
    <3>1. call'[s].step = "answered" /\ call'[s].day = call[s].day
      BY <2>11, RespondEffect DEF Refuse, Answers, Rejected, Is
    <3>2. ~ Boot(s) /\ ~ WriteRecord(s)
      BY <3>1, RunningEffect
    <3> QED BY <2>10, <2>11, <3>1, <3>2 DEF CallStep
  <2>12. CASE HostDies(s)
    <3>1. call'[s].step = "dead" /\ call'[s].day = call[s].day
      BY <2>12, DiesEffect DEF Is
    <3>2. ~ Boot(s) /\ ~ WriteRecord(s)
      BY <3>1, RunningEffect
    <3> QED BY <2>10, <2>12, <3>1, <3>2
  <2>13. CASE Boot(s) \/ Report(s) \/ TimeOut(s) \/ ReadValues(s) \/ WriteRecord(s) \/ RecordRefused(s)
    <3>1. call'[s].step \in {"sandbox", "values", "record", "reply"} /\ call'[s].day = call[s].day
      BY <2>13, RunningEffect
    <3>2. call[s].step \in {"packages", "sandbox", "values", "record"}
      BY <2>13 DEF Boot, Report, TimeOut, ReadValues, WriteRecord, RecordRefused
    <3>3. call[s].day # NoDay
      BY <3>2 DEF RefusedRunsLeaveNothing
    <3> QED BY <1>1, <3>1, <3>3
  <2> QED BY <2>2, <2>3, <2>4, <2>5, <2>7, <2>8, <2>9, <2>11, <2>12, <2>13 DEF Next, CallStep
<1> QED BY <1>1 DEF UnbootedRunsAreNew, RefusedRunsLeaveNothing

----------------------------------------------------------------------------
(* Budgets                                                                 *)

LEMMA DayStays ==
    ASSUME TypeOK, NEW r \in Run, Call(r) \/ CallStep(r) \/ HostDies(r), ~ CountExecution(r)
    PROVE  \A s \in Run : call'[s].day = call[s].day
<1>1. call'[r].day = call[r].day
  <2>1. CASE Call(r)
    BY <2>1, CallEffect DEF Is
  <2>2. CASE Refuse(r) \/ Rejected(r) \/ Answers(r)
    BY <2>2, RespondEffect DEF Is, Refuse, Rejected, Answers
  <2>3. CASE Admit(r)
    BY <2>3, StepEffect DEF Is, Admit
  <2>4. CASE HostDies(r)
    BY <2>4, DiesEffect DEF Is
  <2> QED BY <2>1, <2>2, <2>3, <2>4, RunningEffect DEF CallStep
<1> QED BY <1>1, OthersStay

LEMMA FetchDayStays ==
    ASSUME TypeOK, RequestsAgree, NEW q \in Request, GatewayStep(q), ~ CountFetch(q)
    PROVE  \A p \in Request : request'[p].day = request[p].day
  BY RequestMoves DEF RequestsAgree

\* Counting one more: into the set, and into the counter.
LEMMA OneMore ==
    ASSUME NEW S, IsFiniteSet(S), NEW x, x \notin S, NEW T, T = S \cup {x},
           NEW n \in Nat, Cardinality(S) <= n
    PROVE  Cardinality(T) <= n + 1
<1>1. Cardinality(S) \in Nat
  BY FS_CardinalityType
<1>2. Cardinality(S \cup {x}) = Cardinality(S) + 1
  BY FS_AddElement
<1> QED BY <1>1, <1>2

\* Counting none more, against a counter that may have moved.
LEMMA NoneMore ==
    ASSUME NEW S, IsFiniteSet(S), NEW T, T = S, NEW n \in Nat, NEW m \in Nat, NEW b \in Nat,
           Cardinality(S) <= n, n <= m, Cardinality(S) <= b
    PROVE  Cardinality(T) <= m /\ Cardinality(T) <= b
<1>1. Cardinality(S) \in Nat
  BY FS_CardinalityType
<1> QED BY <1>1

LEMMA BudgetStep ==
    ASSUME TypeOK, CallsAgree, RequestsAgree, CountersCover, WithinBudgets, [Next]_vars
    PROVE  CountersCover' /\ WithinBudgets'
<1> SUFFICES ASSUME NEW d \in Day
             PROVE  /\ Cardinality({r \in Run : call'[r].day = d}) <= spent'["executions"][d]
                    /\ Cardinality({r \in Run : call'[r].day = d}) <= ExecutionBudget
                    /\ Cardinality({q \in Request : request'[q].day = d}) <= spent'["fetches"][d]
                    /\ Cardinality({q \in Request : request'[q].day = d}) <= FetchBudget
  BY DEF CountersCover, WithinBudgets
<1>0. /\ Cardinality({r \in Run : call[r].day = d}) <= spent["executions"][d]
      /\ Cardinality({r \in Run : call[r].day = d}) <= ExecutionBudget
      /\ Cardinality({q \in Request : request[q].day = d}) <= spent["fetches"][d]
      /\ Cardinality({q \in Request : request[q].day = d}) <= FetchBudget
      /\ spent["executions"][d] \in Nat
      /\ spent["fetches"][d] \in Nat
  BY DEF CountersCover, WithinBudgets, TypeOK, CounterKind
<1>1. ASSUME UNCHANGED <<spent, request>>, \A r \in Run : call'[r].day = call[r].day
      PROVE  /\ Cardinality({r \in Run : call'[r].day = d}) <= spent'["executions"][d]
             /\ Cardinality({r \in Run : call'[r].day = d}) <= ExecutionBudget
             /\ Cardinality({q \in Request : request'[q].day = d}) <= spent'["fetches"][d]
             /\ Cardinality({q \in Request : request'[q].day = d}) <= FetchBudget
  <2>1. {r \in Run : call'[r].day = d} = {r \in Run : call[r].day = d}
    BY <1>1
  <2> QED BY <1>0, <1>1, <2>1
<1>2. CASE UNCHANGED vars
  BY <1>1, <1>2 DEF vars
<1>3. ASSUME NEW r \in Run, CountExecution(r)
      PROVE  /\ Cardinality({s \in Run : call'[s].day = d}) <= spent'["executions"][d]
             /\ Cardinality({s \in Run : call'[s].day = d}) <= ExecutionBudget
             /\ Cardinality({q \in Request : request'[q].day = d}) <= spent'["fetches"][d]
             /\ Cardinality({q \in Request : request'[q].day = d}) <= FetchBudget
  <2>1. /\ request' = request
        /\ call[r].step = "door"
        /\ Count("executions", now)
    BY <1>3 DEF CountExecution
  <2>2. /\ spent'["executions"][DayOf[now]] = spent["executions"][DayOf[now]] + 1
        /\ d # DayOf[now] => spent'["executions"][d] = spent["executions"][d]
        /\ spent'["fetches"] = spent["fetches"]
    BY <2>1, CountTyped DEF CounterKind
  <2>3. call[r].day = NoDay
    BY <2>1 DEF CallsAgree, CallAgrees
  <2>4. \A s \in Run \ {r} : call'[s].day = call[s].day
    BY <1>3, OthersStay DEF CallStep
  <2>5. CASE d # DayOf[now] \/ Exhausted("executions", ExecutionBudget, now)
    <3>1. call'[r].day # d
      BY <1>3, <2>5, CountEffect DEF Is
    <3>2. {s \in Run : call'[s].day = d} = {s \in Run : call[s].day = d}
      BY <2>3, <2>4, <3>1
    <3>3. spent["executions"][d] <= spent'["executions"][d]
      BY <1>0, <2>2
    <3>4. IsFiniteSet({s \in Run : call[s].day = d})
      BY FS_Subset
    <3>5. spent'["executions"][d] \in Nat
      BY <1>0, <2>2
    <3>6. /\ Cardinality({s \in Run : call'[s].day = d}) <= spent'["executions"][d]
          /\ Cardinality({s \in Run : call'[s].day = d}) <= ExecutionBudget
      <4> DEFINE S == {s \in Run : call[s].day = d}
                 T == {s \in Run : call'[s].day = d}
                 n == spent["executions"][d]
                 m == spent'["executions"][d]
      <4>1. T = S /\ IsFiniteSet(S)
        BY <3>2, <3>4
      <4>2. n \in Nat /\ m \in Nat /\ n <= m /\ Cardinality(S) <= n /\ Cardinality(S) <= ExecutionBudget
        BY <1>0, <3>3, <3>5
      <4> HIDE DEF S, T, n, m
      <4>3. Cardinality(T) <= m /\ Cardinality(T) <= ExecutionBudget
        BY <4>1, <4>2, NoneMore
      <4> QED BY <4>3 DEF T, m
    <3> QED BY <1>0, <2>1, <2>2, <3>6
  <2>6. CASE d = DayOf[now] /\ ~ Exhausted("executions", ExecutionBudget, now)
    <3>1. call'[r].day = d
      BY <1>3, <2>6, CountEffect DEF Is
    <3>2. {s \in Run : call'[s].day = d} = {s \in Run : call[s].day = d} \cup {r}
      BY <2>4, <3>1
    <3>3. r \notin {s \in Run : call[s].day = d}
      BY <2>3
    <3>4. IsFiniteSet({s \in Run : call[s].day = d})
      BY FS_Subset
    <3>5. Cardinality({s \in Run : call'[s].day = d}) <= spent["executions"][d] + 1
      BY <1>0, <3>2, <3>3, <3>4, OneMore
    <3>6. spent["executions"][d] + 1 <= ExecutionBudget
      BY <1>0, <2>6 DEF Exhausted
    <3>7. Cardinality({s \in Run : call'[s].day = d}) \in Nat
      BY <3>2, <3>4, FS_AddElement, FS_CardinalityType
    <3> QED BY <1>0, <2>1, <2>2, <2>6, <3>5, <3>6, <3>7
  <2> QED BY <2>5, <2>6
<1>4. ASSUME NEW r \in Run, Call(r) \/ CallStep(r) \/ HostDies(r), ~ CountExecution(r)
      PROVE  UNCHANGED <<spent, request>> /\ \A s \in Run : call'[s].day = call[s].day
  BY <1>4, DayStays, CallFrame
<1>5. ASSUME NEW q \in Request, CountFetch(q), GatewayStep(q)
      PROVE  /\ Cardinality({s \in Run : call'[s].day = d}) <= spent'["executions"][d]
             /\ Cardinality({s \in Run : call'[s].day = d}) <= ExecutionBudget
             /\ Cardinality({p \in Request : request'[p].day = d}) <= spent'["fetches"][d]
             /\ Cardinality({p \in Request : request'[p].day = d}) <= FetchBudget
  <2>1. /\ call' = call
        /\ request[q].stage = "count"
        /\ Count("fetches", now)
    BY <1>5, GatewayFrame DEF CountFetch
  <2>2. /\ spent'["fetches"][DayOf[now]] = spent["fetches"][DayOf[now]] + 1
        /\ d # DayOf[now] => spent'["fetches"][d] = spent["fetches"][d]
        /\ spent'["executions"] = spent["executions"]
    BY <2>1, CountTyped DEF CounterKind
  <2>3. request[q].day = NoDay
    BY <2>1 DEF RequestsAgree
  <2>4. \A p \in Request \ {q} : request'[p].day = request[p].day
    BY <1>5, RequestMoves
  <2>5. CASE d # DayOf[now] \/ Exhausted("fetches", FetchBudget, now)
    <3>1. request'[q].day # d
      BY <1>5, <2>5, CountFetchEffect
    <3>2. {p \in Request : request'[p].day = d} = {p \in Request : request[p].day = d}
      BY <2>3, <2>4, <3>1
    <3>3. spent["fetches"][d] <= spent'["fetches"][d]
      BY <1>0, <2>2
    <3>4. IsFiniteSet({p \in Request : request[p].day = d})
      BY FS_Subset
    <3>5. spent'["fetches"][d] \in Nat
      BY <1>0, <2>2
    <3>6. /\ Cardinality({p \in Request : request'[p].day = d}) <= spent'["fetches"][d]
          /\ Cardinality({p \in Request : request'[p].day = d}) <= FetchBudget
      <4> DEFINE S == {p \in Request : request[p].day = d}
                 T == {p \in Request : request'[p].day = d}
                 n == spent["fetches"][d]
                 m == spent'["fetches"][d]
      <4>1. T = S /\ IsFiniteSet(S)
        BY <3>2, <3>4
      <4>2. n \in Nat /\ m \in Nat /\ n <= m /\ Cardinality(S) <= n /\ Cardinality(S) <= FetchBudget
        BY <1>0, <3>3, <3>5
      <4> HIDE DEF S, T, n, m
      <4>3. Cardinality(T) <= m /\ Cardinality(T) <= FetchBudget
        BY <4>1, <4>2, NoneMore
      <4> QED BY <4>3 DEF T, m
    <3> QED BY <1>0, <2>1, <2>2, <3>6
  <2>6. CASE d = DayOf[now] /\ ~ Exhausted("fetches", FetchBudget, now)
    <3>1. request'[q].day = d
      BY <1>5, <2>6, CountFetchEffect
    <3>2. {p \in Request : request'[p].day = d} = {p \in Request : request[p].day = d} \cup {q}
      BY <2>4, <3>1
    <3>3. q \notin {p \in Request : request[p].day = d}
      BY <2>3
    <3>4. IsFiniteSet({p \in Request : request[p].day = d})
      BY FS_Subset
    <3>5. Cardinality({p \in Request : request'[p].day = d}) <= spent["fetches"][d] + 1
      BY <1>0, <3>2, <3>3, <3>4, OneMore
    <3>6. spent["fetches"][d] + 1 <= FetchBudget
      BY <1>0, <2>6 DEF Exhausted
    <3>7. Cardinality({p \in Request : request'[p].day = d}) \in Nat
      BY <3>2, <3>4, FS_AddElement, FS_CardinalityType
    <3> QED BY <1>0, <2>1, <2>2, <2>6, <3>5, <3>6, <3>7
  <2> QED BY <2>5, <2>6
<1>6. ASSUME NEW q \in Request, GatewayStep(q), ~ CountFetch(q)
      PROVE  /\ Cardinality({s \in Run : call'[s].day = d}) <= spent'["executions"][d]
             /\ Cardinality({s \in Run : call'[s].day = d}) <= ExecutionBudget
             /\ Cardinality({p \in Request : request'[p].day = d}) <= spent'["fetches"][d]
             /\ Cardinality({p \in Request : request'[p].day = d}) <= FetchBudget
  <2>1. call' = call /\ spent' = spent /\ \A p \in Request : request'[p].day = request[p].day
    BY <1>6, FetchDayStays, GatewayFrame
  <2>2. {p \in Request : request'[p].day = d} = {p \in Request : request[p].day = d}
    BY <2>1
  <2> QED BY <1>0, <2>1, <2>2
<1>7. CASE Tick
  BY <1>1, <1>7 DEF Tick
<1> QED BY <1>1, <1>2, <1>3, <1>4, <1>5, <1>6, <1>7 DEF Next

----------------------------------------------------------------------------
(* Trails                                                                  *)

LEMMA TrailStaysFinite ==
    ASSUME TypeOK, IsFiniteSet(trail), [Next]_vars
    PROVE  IsFiniteSet(trail)'
<1>1. CASE trail' = trail
  BY <1>1
<1>2. ASSUME NEW r \in Run, WriteRecord(r) PROVE IsFiniteSet(trail')
  <2>1. trail' \subseteq trail
    BY <1>2 DEF WriteRecord, PutRecord, Fresh
  <2> QED BY <2>1, FS_Subset
<1>3. ASSUME NEW q \in Request, Log(q) PROVE IsFiniteSet(trail')
  <2>1. PICK row : trail' = trail \/ trail' = trail \cup {row}
    BY <1>3 DEF Log, AppendTrail
  <2>2. IsFiniteSet(trail \cup {row})
    BY FS_AddElement
  <2> QED BY <2>1, <2>2
<1>4. trail' = trail \/ (\E r \in Run : WriteRecord(r)) \/ (\E q \in Request : Log(q))
  BY CallFrame, GatewayFrame DEF Next, vars, records, Tick
<1> QED BY <1>1, <1>2, <1>3, <1>4

\* No sweep takes a line of a run whose record may still be written.
LEMMA LinesAreFresh ==
    ASSUME TypeOK, CallsAgree, LinesAreKept, NEW r \in Recording
    PROVE  TrailOf(r) \subseteq Fresh(now)
<1>1. r \in Run /\ now \in Nat /\ call[r].began \in Nat
  BY CallFields DEF Recording, TypeOK, Time
<1>2. now <= call[r].began + RunSpan
  BY <1>1 DEF CallsAgree, CallAgrees, Recording, UnderWay, Awaiting
<1>3. ASSUME NEW row \in TrailOf(r) PROVE row.at + SweepAge >= now
  <2>1. row.at \in Nat /\ row.at >= call[r].began
    BY DEF LinesAreKept, LinesKept, TrailOf, TypeOK, TrailRow
  <2> QED BY <1>1, <1>2, <2>1
<1> QED BY <1>3 DEF Fresh, TrailOf

LEMMA KeptStays ==
    ASSUME NEW r, LinesKept(r), TrailOf(r)' = TrailOf(r), Logged(r)' = Logged(r),
           dropped'[r] = dropped[r], call'[r].began = call[r].began
    PROVE  LinesKept(r)'
<1>1. (Logged(r) \ Lines(TrailOf(r)))' = Logged(r) \ Lines(TrailOf(r))
  BY DEF Lines
<1> QED BY <1>1 DEF LinesKept

\* A line that finds no place is counted.
LEMMA LineDropped ==
    ASSUME NEW L, IsFiniteSet(L), NEW X, NEW q, NEW n \in Nat, Cardinality(L \ X) <= n
    PROVE  Cardinality((L \cup {q}) \ X) <= n + 1
<1>1. IsFiniteSet(L \ X)
  BY FS_Subset
<1>2. /\ IsFiniteSet((L \ X) \cup {q})
      /\ Cardinality((L \ X) \cup {q}) <= Cardinality(L \ X) + 1
  <2>1. Cardinality(L \ X) \in Nat
    BY <1>1, FS_CardinalityType
  <2>2. /\ IsFiniteSet((L \ X) \cup {q})
        /\ Cardinality((L \ X) \cup {q}) =
             IF q \in L \ X THEN Cardinality(L \ X) ELSE Cardinality(L \ X) + 1
    BY <1>1, FS_AddElement
  <2> QED BY <2>1, <2>2
<1>3. (L \cup {q}) \ X \subseteq (L \ X) \cup {q}
  OBVIOUS
<1>4. Cardinality((L \cup {q}) \ X) <= Cardinality((L \ X) \cup {q})
  BY <1>2, <1>3, FS_Subset
<1>5. /\ Cardinality(L \ X) \in Nat
      /\ Cardinality((L \ X) \cup {q}) \in Nat
      /\ Cardinality((L \cup {q}) \ X) \in Nat
  BY <1>1, <1>2, <1>3, FS_Subset, FS_CardinalityType
<1> QED BY <1>2, <1>4, <1>5

\* A line that finds its place is no longer missing.
LEMMA LinePlaced ==
    ASSUME NEW L, IsFiniteSet(L), NEW X, NEW q, NEW n \in Nat, Cardinality(L \ X) <= n
    PROVE  Cardinality((L \cup {q}) \ (X \cup {q})) <= n
<1>1. IsFiniteSet(L \ X)
  BY FS_Subset
<1>2. (L \cup {q}) \ (X \cup {q}) \subseteq L \ X
  OBVIOUS
<1>3. Cardinality((L \cup {q}) \ (X \cup {q})) <= Cardinality(L \ X)
  BY <1>1, <1>2, FS_Subset
<1>4. /\ Cardinality(L \ X) \in Nat
      /\ Cardinality((L \cup {q}) \ (X \cup {q})) \in Nat
  BY <1>1, <1>2, FS_Subset, FS_CardinalityType
<1> QED BY <1>3, <1>4

LEMMA LoggedFinite == ASSUME NEW r PROVE IsFiniteSet(Logged(r))
  BY FS_Subset DEF Logged

\* appendTrail, seen from the run the line is of.
LEMMA LogKeeps ==
    ASSUME TypeOK, CallsAgree, LinesAreKept, NEW r \in Recording, NEW q \in Request,
           Log(q), GatewayStep(q), request[q].run = r
    PROVE  LinesKept(r)'
<1>0. LinesKept(r) /\ r \in Run /\ dropped[r] \in Nat /\ now \in Nat
  BY DEF LinesAreKept, Recording, TypeOK, Time
<1>1. AppendTrail(r, q, now) /\ call' = call
  BY GatewayFrame DEF Log
<1>2. Logged(r)' = Logged(r) \cup {q}
  <2>1. request'[q].stage = "returned" /\ request'[q].run = r
    <3>1. request'[q] = [request[q] EXCEPT !.stage = "returned"] /\ request[q] \in RequestState
      BY DEF Log, MoveTo, TypeOK
    <3> QED BY <3>1 DEF RequestState
  <2>2. \A p \in Request \ {q} : request'[p] = request[p]
    BY RequestMoves
  <2> QED BY <2>1, <2>2 DEF Logged
<1>3. CASE Cardinality(TrailOf(r)) >= TrailBound
  <2>1. trail' = trail /\ dropped'[r] = dropped[r] + 1
    BY <1>0, <1>1, <1>3 DEF AppendTrail, TypeOK
  <2>2. TrailOf(r)' = TrailOf(r) /\ Lines(TrailOf(r))' = Lines(TrailOf(r))
    BY <2>1 DEF TrailOf, Lines
  <2>3. Cardinality((Logged(r) \cup {q}) \ Lines(TrailOf(r))) <= dropped[r] + 1
    BY <1>0, LineDropped, LoggedFinite DEF LinesKept
  <2>4. Cardinality((Logged(r) \ Lines(TrailOf(r)))') <= dropped'[r]
    BY <1>2, <2>1, <2>2, <2>3
  <2> QED BY <1>0, <1>1, <1>3, <2>1, <2>2, <2>4 DEF LinesKept
<1>4. CASE ~ (Cardinality(TrailOf(r)) >= TrailBound)
  <2> DEFINE row == [run |-> r, request |-> q, at |-> now]
  <2>1. trail' = trail \cup {row} /\ dropped' = dropped
    BY <1>1, <1>4 DEF AppendTrail
  <2>2. TrailOf(r)' = TrailOf(r) \cup {row}
    BY <2>1 DEF TrailOf
  <2>3. Lines(TrailOf(r))' = Lines(TrailOf(r)) \cup {q}
    <3>1. row.request = q
      OBVIOUS
    <3> HIDE DEF row
    <3> QED BY <2>2, <3>1 DEF Lines
  <2>4. Cardinality((Logged(r) \cup {q}) \ (Lines(TrailOf(r)) \cup {q})) <= dropped[r]
    BY <1>0, LinePlaced, LoggedFinite DEF LinesKept
  <2>5. Cardinality((Logged(r) \ Lines(TrailOf(r)))') <= dropped'[r]
    BY <1>2, <2>1, <2>3, <2>4
  <2>6. ~ (dropped[r] > 0)
    BY <1>0, <1>4 DEF LinesKept
  <2>7. call[r].began <= now
    BY <1>0 DEF CallsAgree, CallAgrees, Recording, UnderWay, Awaiting
  <2>8. \A x \in TrailOf(r)' : x.at >= call'[r].began
    <3>1. call[r].began \in Nat
      BY <1>0, CallFields DEF Time
    <3> QED BY <1>0, <1>1, <2>2, <2>7, <3>1 DEF LinesKept
  <2> QED BY <2>1, <2>5, <2>6, <2>8 DEF LinesKept
<1> QED BY <1>3, <1>4

\* A gateway step that is not the log of one of r's requests changes
\* neither the lines of r nor what was logged of it.
LEMMA GatewayKeeps ==
    ASSUME TypeOK, RequestsAgree, NEW r \in Run, NEW q \in Request, GatewayStep(q),
           ~ (Log(q) /\ request[q].run = r)
    PROVE  TrailOf(r)' = TrailOf(r) /\ Logged(r)' = Logged(r) /\ dropped'[r] = dropped[r]
<1>1. CASE Log(q)
  <2>1. AppendTrail(request[q].run, q, now) /\ request[q].run # r
    BY <1>1 DEF Log
  <2>2. TrailOf(r)' = TrailOf(r) /\ dropped'[r] = dropped[r]
    BY <2>1 DEF AppendTrail, TrailOf, TypeOK
  <2>3. request'[q].run = request[q].run
    BY RequestMoves, <1>1 DEF Log
  <2>4. Logged(r)' = Logged(r)
    BY <2>1, <2>3, RequestMoves DEF Logged
  <2> QED BY <2>2, <2>4
<1>2. CASE ~ Log(q)
  <2>1. UNCHANGED <<trail, dropped>>
    BY <1>2, GatewayFrame
  <2>2. request'[q].stage # "returned" /\ request[q].stage # "returned"
    <3>1. ASSUME NEW stage, MoveTo(q, stage) PROVE request'[q].stage = stage
      <4>1. request'[q] = [request[q] EXCEPT !.stage = stage] /\ request[q] \in RequestState
        BY <3>1 DEF MoveTo, TypeOK
      <4> QED BY <4>1 DEF RequestState
    <3>2. CASE CountFetch(q)
      BY <3>2, CountFetchEffect DEF CountFetch
    <3>3. CASE \E s \in isolate : Send(s, q)
      BY <3>3 DEF Send, TypeOK
    <3>4. CASE Route(q) \/ RouteThrows(q) \/ LogFails(q)
      BY <3>1, <3>4 DEF Route, RouteThrows, LogFails
    <3> QED BY <1>2, <3>2, <3>3, <3>4 DEF GatewayStep
  <2>3. Logged(r)' = Logged(r)
    BY <2>2, RequestMoves DEF Logged
  <2> QED BY <2>1, <2>3 DEF TrailOf
<1> QED BY <1>1, <1>2

\* Another run's call leaves the lines of a run that may still be recorded.
LEMMA CallKeeps ==
    ASSUME TypeOK, CallsAgree, LinesAreKept, NEW r \in Recording, NEW s \in Run \ {r},
           Call(s) \/ CallStep(s) \/ HostDies(s)
    PROVE  TrailOf(r)' = TrailOf(r) /\ Logged(r)' = Logged(r) /\ dropped'[r] = dropped[r]
<1>1. Logged(r)' = Logged(r)
  BY CallFrame DEF Logged
<1>2. CASE WriteRecord(s)
  <2>1. PutRecord(s, call[s].report, now)
    BY <1>2 DEF WriteRecord
  <2>2. TrailOf(r)' = TrailOf(r)
    BY <2>1, LinesAreFresh DEF PutRecord, TrailOf, Fresh
  <2>3. dropped'[r] = dropped[r]
    BY <2>1 DEF PutRecord, TypeOK, Recording
  <2> QED BY <1>1, <2>2, <2>3
<1>3. CASE ~ WriteRecord(s)
  BY <1>1, <1>3, CallFrame DEF TrailOf
<1> QED BY <1>2, <1>3

LEMMA LinesStep ==
    ASSUME TypeOK, CallsAgree, RequestsAgree, UnbootedRunsAreNew, LinesAreKept, [Next]_vars
    PROVE  LinesAreKept'
<1>0. IsFiniteSet(trail)'
  BY TrailStaysFinite DEF LinesAreKept
<1>1. ASSUME NEW r \in Run, call'[r].step \in {"sandbox", "values", "record"}
      PROVE  LinesKept(r)'
  <2>0. r \in Recording => LinesKept(r)
    BY DEF LinesAreKept
  <2>1. CASE UNCHANGED vars \/ Tick
    <3>1. UNCHANGED <<trail, dropped, request, call>>
      BY <2>1 DEF vars, Tick, records
    <3>2. TrailOf(r)' = TrailOf(r) /\ Logged(r)' = Logged(r)
      BY <3>1 DEF TrailOf, Logged
    <3> QED BY <1>1, <2>0, <3>1, <3>2, KeptStays DEF Recording
  <2>2. ASSUME NEW s \in Run \ {r}, Call(s) \/ CallStep(s) \/ HostDies(s)
        PROVE  LinesKept(r)'
    <3>1. call'[r] = call[r]
      BY <2>2, OthersStay
    <3>2. r \in Recording
      BY <1>1, <3>1 DEF Recording
    <3> QED BY <2>0, <2>2, <3>1, <3>2, CallKeeps, KeptStays
  <2>3. ASSUME NEW q \in Request, GatewayStep(q)
        PROVE  LinesKept(r)'
    <3>1. call' = call
      BY <2>3, GatewayFrame
    <3>2. r \in Recording
      BY <1>1, <3>1 DEF Recording
    <3>3. CASE Log(q) /\ request[q].run = r
      BY <2>3, <3>2, <3>3, LogKeeps
    <3>4. CASE ~ (Log(q) /\ request[q].run = r)
      BY <2>0, <2>3, <3>1, <3>2, <3>4, GatewayKeeps, KeptStays
    <3> QED BY <3>3, <3>4
  <2>4. CASE Boot(r)
    <3>1. call[r].step = "packages" /\ UNCHANGED <<trail, dropped, request>>
      BY <2>4 DEF Boot, records
    <3>2. NothingOf(r)
      BY <3>1 DEF UnbootedRunsAreNew
    <3>3. TrailOf(r)' = {} /\ Logged(r)' = {} /\ dropped'[r] = 0
      BY <3>1, <3>2 DEF NothingOf, TrailOf, Logged
    <3>4. (Logged(r) \ Lines(TrailOf(r)))' = {}
      BY <3>3
    <3> QED BY <3>3, <3>4, FS_EmptySet DEF LinesKept
  <2>5. CASE Report(r) \/ TimeOut(r) \/ ReadValues(r)
    <3>1. r \in Recording /\ UNCHANGED <<trail, dropped, request>>
      BY <2>5 DEF Report, TimeOut, ReadValues, Recording, records
    <3>2. call'[r].began = call[r].began
      <4>1. CASE Report(r) \/ TimeOut(r)
        BY <4>1, ReportEffect DEF Report, TimeOut, Is
      <4>2. CASE ReadValues(r)
        BY <4>2, StepEffect DEF ReadValues, Is
      <4> QED BY <2>5, <4>1, <4>2
    <3>3. TrailOf(r)' = TrailOf(r) /\ Logged(r)' = Logged(r)
      BY <3>1 DEF TrailOf, Logged
    <3> QED BY <2>0, <3>1, <3>2, <3>3, KeptStays
  <2>6. ~ (Call(r) \/ CountExecution(r) \/ Refuse(r) \/ Admit(r) \/ WriteRecord(r)
           \/ RecordRefused(r) \/ Answers(r) \/ Rejected(r) \/ HostDies(r))
    <3>1. Call(r) => call'[r].step = "door"
      BY CallEffect DEF Is
    <3>2. CountExecution(r) => call'[r].step = "admit"
      BY CountEffect DEF Is
    <3>3. Refuse(r) \/ Answers(r) \/ Rejected(r) => call'[r].step = "answered"
      BY RespondEffect DEF Refuse, Answers, Rejected, Is
    <3>4. Admit(r) => call'[r].step = "packages"
      BY StepEffect DEF Admit, Is
    <3>5. HostDies(r) => call'[r].step = "dead"
      BY DiesEffect DEF Is
    <3> QED BY <1>1, <3>1, <3>2, <3>3, <3>4, <3>5, RunningEffect
  <2> QED BY <2>1, <2>2, <2>3, <2>4, <2>5, <2>6 DEF Next, CallStep
<1>2. \A r \in Recording' : LinesKept(r)'
  BY <1>1 DEF Recording
<1> QED BY <1>0, <1>2 DEF LinesAreKept

\* What a call has seen is settled by its report.
LEMMA SeenStays ==
    ASSUME TypeOK, NEW r \in Run, Call(r) \/ CallStep(r) \/ HostDies(r), call[r].step # "sandbox"
    PROVE  call'[r].seen = call[r].seen
<1>1. CASE Call(r)
  BY <1>1, CallEffect DEF Is
<1>2. CASE CountExecution(r)
  BY <1>2, CountEffect DEF Is
<1>3. CASE Refuse(r) \/ Rejected(r) \/ Answers(r)
  BY <1>3, RespondEffect DEF Is, Refuse, Rejected, Answers
<1>4. CASE Admit(r) \/ Boot(r) \/ ReadValues(r)
  BY <1>4, StepEffect DEF Is, Admit, Boot, ReadValues
<1>5. CASE WriteRecord(r) \/ RecordRefused(r)
  BY <1>5, ReplyEffect DEF Is
<1>6. CASE HostDies(r)
  BY <1>6, DiesEffect DEF Is
<1> QED BY <1>1, <1>2, <1>3, <1>4, <1>5, <1>6 DEF CallStep, Report, TimeOut

LEMMA TrailStep ==
    ASSUME TypeOK, CallsAgree, RequestsAgree, LinesAreKept, TrailIsComplete, [Next]_vars
    PROVE  TrailIsComplete'
<1> DEFINE Complete(L, rec) ==
      /\ Cardinality(L \ Lines(rec.trail)) <= rec.dropped
      /\ rec.dropped > 0 => Cardinality(rec.trail) >= TrailBound
<1> SUFFICES ASSUME NEW r \in Run, record'[r] # NoRecord
             PROVE  Complete((Logged(r) \cap call[r].seen)', record'[r])
  BY DEF TrailIsComplete, Lines
<1>1. ASSUME record'[r] = record[r], (Logged(r) \cap call[r].seen)' = Logged(r) \cap call[r].seen
      PROVE  Complete((Logged(r) \cap call[r].seen)', record'[r])
  BY <1>1 DEF TrailIsComplete
<1>2. CASE UNCHANGED vars \/ Tick
  BY <1>1, <1>2 DEF vars, Tick, records, Logged
<1>3. CASE WriteRecord(r)
  <2>1. r \in Recording /\ request' = request /\ PutRecord(r, call[r].report, now)
    BY <1>3 DEF WriteRecord, Recording
  <2>2. call'[r].seen = call[r].seen
    BY <1>3, ReplyEffect DEF Is
  <2>3. record'[r].trail = TrailOf(r) /\ record'[r].dropped = dropped[r]
    BY <2>1, LinesAreFresh DEF PutRecord, TypeOK
  <2>4. LinesKept(r) /\ dropped[r] \in Nat
    BY <2>1 DEF LinesAreKept, TypeOK
  <2>5. (Logged(r) \cap call[r].seen)' \subseteq Logged(r)
    BY <2>1 DEF Logged
  <2>6. IsFiniteSet(Logged(r) \ Lines(TrailOf(r)))
    BY LoggedFinite, FS_Subset
  <2> DEFINE A == (Logged(r) \cap call[r].seen)' \ Lines(TrailOf(r))
             B == Logged(r) \ Lines(TrailOf(r))
  <2>7. A \subseteq B
    BY <2>5
  <2>8. IsFiniteSet(B) /\ Cardinality(B) <= dropped[r]
    BY <2>4, <2>6 DEF LinesKept
  <2>9. Cardinality(A) <= dropped[r]
    <3> HIDE DEF A, B
    <3>1. Cardinality(A) \in Nat /\ Cardinality(B) \in Nat /\ Cardinality(A) <= Cardinality(B)
      BY <2>7, <2>8, FS_Subset, FS_CardinalityType
    <3> QED BY <2>4, <2>8, <3>1
  <2> QED BY <2>3, <2>4, <2>9 DEF LinesKept
<1>4. ASSUME Call(r) \/ CallStep(r) \/ HostDies(r), ~ WriteRecord(r)
      PROVE  Complete((Logged(r) \cap call[r].seen)', record'[r])
  <2>1. record'[r] = record[r] /\ request' = request
    BY <1>4, CallFrame
  <2>2. call[r].step # "sandbox"
    BY <2>1 DEF CallsAgree, CallAgrees
  <2> QED BY <1>1, <1>4, <2>1, <2>2, SeenStays DEF Logged
<1>5. ASSUME NEW s \in Run \ {r}, Call(s) \/ CallStep(s) \/ HostDies(s)
      PROVE  Complete((Logged(r) \cap call[r].seen)', record'[r])
  <2>1. call'[r] = call[r] /\ request' = request
    BY <1>5, OthersStay, CallFrame
  <2>2. record'[r] = record[r]
    <3>1. CASE WriteRecord(s)
      BY <3>1 DEF WriteRecord, PutRecord, TypeOK
    <3>2. CASE ~ WriteRecord(s)
      BY <1>5, <3>2, CallFrame
    <3> QED BY <3>1, <3>2
  <2> QED BY <1>1, <2>1, <2>2 DEF Logged
<1>6. ASSUME NEW q \in Request, GatewayStep(q)
      PROVE  Complete((Logged(r) \cap call[r].seen)', record'[r])
  <2>1. call' = call /\ record' = record
    <3>1. CASE Log(q)
      BY <1>6, <3>1, GatewayFrame DEF Log, AppendTrail
    <3> QED BY <1>6, <3>1, GatewayFrame
  <2>2. q \notin call[r].seen
    BY <1>6, RequestMoves DEF RequestsAgree, Answered
  <2>3. (Logged(r) \cap call[r].seen)' = Logged(r) \cap call[r].seen
    BY <1>6, <2>1, <2>2, RequestMoves DEF Logged
  <2> QED BY <1>1, <2>1, <2>3
<1> QED BY <1>2, <1>3, <1>4, <1>5, <1>6 DEF Next, CallStep

----------------------------------------------------------------------------
(* The inductive invariant                                                 *)

LEMMA InitCounts ==
    ASSUME Init
    PROVE  CountersCover /\ WithinBudgets
<1> SUFFICES ASSUME NEW d \in Day
             PROVE  /\ Cardinality({r \in Run : call[r].day = d}) <= spent["executions"][d]
                    /\ Cardinality({r \in Run : call[r].day = d}) <= ExecutionBudget
                    /\ Cardinality({q \in Request : request[q].day = d}) <= spent["fetches"][d]
                    /\ Cardinality({q \in Request : request[q].day = d}) <= FetchBudget
  BY DEF CountersCover, WithinBudgets
<1> DEFINE Admitted == {r \in Run : call[r].day = d}
           LetOut == {q \in Request : request[q].day = d}
<1>1. Admitted = {}
  BY DEF Init
<1>2. LetOut = {}
  BY DEF Init, GatewayInit
<1>3. spent["executions"][d] = 0 /\ spent["fetches"][d] = 0
  BY DEF Init, GatewayInit, CountersInit, CounterKind
<1>4. /\ Cardinality(Admitted) <= spent["executions"][d] /\ Cardinality(Admitted) <= ExecutionBudget
      /\ Cardinality(LetOut) <= spent["fetches"][d] /\ Cardinality(LetOut) <= FetchBudget
  <2> HIDE DEF Admitted, LetOut
  <2> QED BY <1>1, <1>2, <1>3, FS_EmptySet
<1> QED BY <1>4

LEMMA InitIInv == Init => IInv
<1> SUFFICES ASSUME Init PROVE IInv
  OBVIOUS
<1>1. TypeOK
  BY InitTyped
<1>2. CallsAgree
  BY DEF Init, GatewayInit, RecordsInit, CallsAgree, CallAgrees, UnderWay, Awaiting
<1>3. RequestsAgree
  BY DEF Init, GatewayInit, RequestsAgree, Answered
<1>4. \A r \in Run : NothingOf(r) /\ call[r].step = "idle" /\ record[r] = NoRecord
  BY DEF Init, GatewayInit, RecordsInit, NothingOf, TrailOf
<1>5. UnbootedRunsAreNew /\ RefusedRunsLeaveNothing
  BY <1>4 DEF UnbootedRunsAreNew, RefusedRunsLeaveNothing
<1>6. LinesAreKept
  BY <1>4, FS_EmptySet DEF LinesAreKept, Recording, Init, GatewayInit, RecordsInit
<1>7. TrailIsComplete
  BY <1>4 DEF TrailIsComplete
<1> QED BY <1>1, <1>2, <1>3, <1>5, <1>6, <1>7, InitCounts DEF IInv

LEMMA StepIInv == IInv /\ [Next]_vars => IInv'
  BY StepTyped, CallsAgreeStep, RequestsAgreeStep, UnbootedStep, BudgetStep, LinesStep, TrailStep
     DEF IInv

(* Whatever the calls, the sandboxes' requests and the clock do, a state of   *)
(* `execute` meets the inductive invariant: its types, what each step of a    *)
(* call has settled, the counters that cover what they let through and the    *)
(* lines a run under way still has in the buffer.                             *)
THEOREM Invariance == Spec => []IInv
  BY InitIInv, StepIInv, PTL DEF Spec

(* Every variable keeps its type, the record table included: putRecord never  *)
(* stores a run that has not reported (Execute.ts:110-151).                   *)
THEOREM TypeCorrect == Spec => []TypeOK
<1>1. IInv => TypeOK
  BY DEF IInv
<1> QED BY <1>1, Invariance, PTL

(* However many calls and requests are counted at once, and whatever answers  *)
(* are lost, no day's counter admits more runs or requests than its budget    *)
(* (Counters.ts:32-43).                                                       *)
THEOREM BudgetsHold == Spec => []WithinBudgets
<1>1. IInv => WithinBudgets
  BY DEF IInv
<1> QED BY <1>1, Invariance, PTL

(* A record accounts for every logged request its code had the response of:   *)
(* in its trail or in its dropped count (RunRecords.ts:123-180).              *)
THEOREM TrailsAreComplete == Spec => []TrailIsComplete
<1>1. IInv => TrailIsComplete
  BY DEF IInv
<1> QED BY <1>1, Invariance, PTL

(* A run refused at the door never had a sandbox, a request, a line or a      *)
(* record (Execute.ts:18-19, 85-95).                                          *)
THEOREM RefusedLeaveNothing == Spec => []RefusedRunsLeaveNothing
<1>1. IInv => RefusedRunsLeaveNothing
  BY DEF IInv
<1> QED BY <1>1, Invariance, PTL

----------------------------------------------------------------------------
(* The contract                                                            *)

LEMMA ContractInit == Init => Contract!Init
  BY DEF Init, GatewayInit, RecordsInit, Contract!Init, KeptMap, ToldMap

LEMMA ContractStep == IInv /\ [Next]_vars => [Contract!Next]_<<KeptMap, ToldMap>>
<1> SUFFICES ASSUME IInv, [Next]_vars
             PROVE  Contract!Next \/ UNCHANGED <<KeptMap, ToldMap>>
  OBVIOUS
<1>0. TypeOK /\ CallsAgree
  BY DEF IInv
<1>1. ASSUME UNCHANGED record, \A r \in Run : call'[r].answer = call[r].answer
      PROVE  UNCHANGED <<KeptMap, ToldMap>>
  BY <1>1 DEF KeptMap, ToldMap
<1>2. ASSUME NEW r \in Run, NEW answer, Respond(r, answer), UNCHANGED record,
             answer \in Contract!Told \ {"none"}, answer \in Contract!Allowed(KeptMap[r]),
             call[r].step # "answered"
      PROVE  Contract!Next
  <2>1. ToldMap[r] = "none"
    BY <1>0, <1>2 DEF ToldMap, CallsAgree, CallAgrees
  <2>2. call'[r].answer = answer /\ \A s \in Run \ {r} : call'[s] = call[s]
    BY <1>0, <1>2, RespondEffect, BecomeFields DEF Is, Respond
  <2>3. ToldMap' = [ToldMap EXCEPT ![r] = answer]
    BY <2>2 DEF ToldMap
  <2>4. UNCHANGED KeptMap
    BY <1>2 DEF KeptMap
  <2>5. Contract!Tell(r, answer)
    BY <1>2, <2>1, <2>3, <2>4 DEF Contract!Tell
  <2> QED BY <1>2, <2>5 DEF Contract!Next
<1>3. ASSUME NEW r \in Run, WriteRecord(r) PROVE Contract!Next
  <2> DEFINE outcome == call[r].report
  <2>1. outcome \in {"success", "failure"} /\ call[r].step = "record"
    BY <1>0, <1>3 DEF WriteRecord, CallsAgree, CallAgrees, TypeOK, CallState, Outcome
  <2>2. record[r] = NoRecord /\ record' = [record EXCEPT ![r] =
          [outcome |-> outcome, trail |-> Fresh(now) \cap TrailOf(r), dropped |-> dropped[r]]]
    BY <1>3 DEF WriteRecord, PutRecord
  <2>3. record'[r] \in RunRecord /\ record'[r].outcome = outcome
    <3>1. Fresh(now) \cap TrailOf(r) \subseteq TrailRow /\ dropped[r] \in Nat
      BY <1>0 DEF TypeOK, Fresh
    <3> QED BY <1>0, <2>1, <2>2, <3>1 DEF TypeOK, RunRecord, Outcome
  <2>4. record'[r] # NoRecord
    BY <2>3
  <2>5. \A s \in Run \ {r} : record'[s] = record[s]
    BY <1>0, <2>2 DEF TypeOK
  <2>6. KeptMap[r] = "none" /\ KeptMap' = [KeptMap EXCEPT ![r] = outcome]
    <3> HIDE DEF outcome
    <3>1. KeptMap[r] = "none"
      BY <2>2 DEF KeptMap
    <3>2. /\ KeptMap'[r] = outcome
          /\ \A s \in Run \ {r} : KeptMap'[s] = KeptMap[s]
      BY <2>3, <2>4, <2>5 DEF KeptMap
    <3>3. /\ KeptMap = [s \in Run |-> KeptMap[s]]
          /\ KeptMap' = [s \in Run |-> KeptMap'[s]]
      BY DEF KeptMap
    <3> QED BY <3>1, <3>2, <3>3
  <2>7. ToldMap[r] = "none"
    BY <1>0, <2>1 DEF ToldMap, CallsAgree, CallAgrees
  <2>8. \A s \in Run : call'[s].answer = call[s].answer
    BY <1>0, <1>3, ReplyEffect, OthersStay DEF Is, CallStep
  <2>9. UNCHANGED ToldMap
    BY <2>8 DEF ToldMap
  <2>10. Contract!Keep(r, outcome)
    BY <2>6, <2>7, <2>9 DEF Contract!Keep
  <2> QED BY <2>1, <2>10 DEF Contract!Next
<1>4. ASSUME NEW r \in Run, Refuse(r) PROVE Contract!Next
  <2>1. KeptMap[r] = "none"
    BY <1>0, <1>4 DEF Refuse, KeptMap, CallsAgree, CallAgrees
  <2>2. Respond(r, "refused") /\ UNCHANGED record /\ call[r].step # "answered"
    BY <1>4 DEF Refuse, records
  <2>3. "refused" \in Contract!Allowed(KeptMap[r]) /\ "refused" \in Contract!Told \ {"none"}
    BY <2>1 DEF Contract!Allowed, Contract!Told
  <2> QED BY <1>2, <2>2, <2>3
<1>5. ASSUME NEW r \in Run, Rejected(r) PROVE Contract!Next
  <2>1. KeptMap[r] \in {"none", "success", "failure"}
    BY <1>0 DEF KeptMap, TypeOK, RunRecord, Outcome
  <2>2. Respond(r, "unexpected") /\ UNCHANGED record /\ call[r].step # "answered"
    BY <1>5 DEF Rejected, Awaiting, records
  <2>3. "unexpected" \in Contract!Allowed(KeptMap[r]) /\ "unexpected" \in Contract!Told \ {"none"}
    BY <2>1 DEF Contract!Allowed, Contract!Told
  <2> QED BY <1>2, <2>2, <2>3
<1>6. ASSUME NEW r \in Run, Answers(r) PROVE Contract!Next
  <2>1. call[r].step = "reply" /\ UNCHANGED record
    BY <1>6 DEF Answers, records
  <2>2. /\ call[r].report \in {"success", "failure"}
        /\ call[r].verdict => record[r] # NoRecord /\ record[r].outcome = call[r].report
        /\ ~ call[r].verdict => record[r] = NoRecord
        /\ record[r] # NoRecord => record[r].outcome = call[r].report
    BY <1>0, <2>1 DEF CallsAgree, CallAgrees, TypeOK, CallState, Outcome
  <2>3. KeptMap[r] = IF record[r] = NoRecord THEN "none" ELSE record[r].outcome
    BY DEF KeptMap
  <2>4. CASE call[r].report = "failure"
    <3>1. Respond(r, "failure")
      BY <1>6, <2>4 DEF Answers
    <3>2. "failure" \in Contract!Allowed(KeptMap[r]) /\ "failure" \in Contract!Told \ {"none"}
      BY <2>2, <2>3, <2>4 DEF Contract!Allowed, Contract!Told
    <3> QED BY <1>2, <2>1, <3>1, <3>2
  <2>5. CASE call[r].report # "failure" /\ call[r].verdict
    <3>1. Respond(r, "success")
      BY <1>6, <2>5 DEF Answers
    <3>2. "success" \in Contract!Allowed(KeptMap[r]) /\ "success" \in Contract!Told \ {"none"}
      BY <2>2, <2>3, <2>5 DEF Contract!Allowed, Contract!Told
    <3> QED BY <1>2, <2>1, <3>1, <3>2
  <2>6. CASE call[r].report # "failure" /\ ~ call[r].verdict
    <3>1. Respond(r, "unrecorded")
      BY <1>6, <2>6 DEF Answers
    <3>2. "unrecorded" \in Contract!Allowed(KeptMap[r]) /\ "unrecorded" \in Contract!Told \ {"none"}
      BY <2>2, <2>3, <2>6 DEF Contract!Allowed, Contract!Told
    <3> QED BY <1>2, <2>1, <3>1, <3>2
  <2> QED BY <2>4, <2>5, <2>6
<1>7. ASSUME NEW r \in Run, Call(r) \/ CallStep(r) \/ HostDies(r),
             ~ (WriteRecord(r) \/ Refuse(r) \/ Rejected(r) \/ Answers(r))
      PROVE  UNCHANGED <<KeptMap, ToldMap>>
  <2>1. UNCHANGED record
    BY <1>7, CallFrame
  <2>2. call'[r].answer = call[r].answer
    <3>1. CASE Call(r)
      BY <1>0, <3>1, CallEffect DEF Is
    <3>2. CASE CountExecution(r)
      BY <1>0, <3>2, CountEffect DEF Is
    <3>3. CASE Admit(r) \/ Boot(r) \/ ReadValues(r)
      BY <1>0, <3>3, StepEffect DEF Is, Admit, Boot, ReadValues
    <3>4. CASE Report(r) \/ TimeOut(r)
      BY <1>0, <3>4, ReportEffect DEF Is, Report, TimeOut
    <3>5. CASE RecordRefused(r)
      BY <1>0, <3>5, ReplyEffect DEF Is
    <3>6. CASE HostDies(r)
      BY <1>0, <3>6, DiesEffect DEF Is
    <3> QED BY <1>7, <3>1, <3>2, <3>3, <3>4, <3>5, <3>6 DEF CallStep
  <2>3. \A s \in Run : call'[s].answer = call[s].answer
    BY <1>0, <1>7, <2>2, OthersStay
  <2> QED BY <1>1, <2>1, <2>3
<1>8. ASSUME NEW q \in Request, GatewayStep(q) PROVE UNCHANGED <<KeptMap, ToldMap>>
  <2>1. UNCHANGED <<call, record>>
    BY <1>8, GatewayFrame DEF Log, AppendTrail
  <2> QED BY <1>1, <2>1
<1>9. CASE Tick \/ UNCHANGED vars
  BY <1>1, <1>9 DEF Tick, vars, records
<1> QED BY <1>3, <1>4, <1>5, <1>6, <1>7, <1>8, <1>9 DEF Next

(* Execute, although it awaits the vault, the store and the sandbox while     *)
(* other calls run and replies are lost, keeps its promise to the caller: the *)
(* record comes first and once, the answer is one the record allows.          *)
THEOREM Implementation == Spec => ContractSpec
  BY ContractInit, ContractStep, Invariance, PTL DEF Spec, ContractSpec, Contract!Spec
=============================================================================
