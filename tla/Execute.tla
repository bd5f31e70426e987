------------------------------ MODULE Execute -------------------------------
(***************************************************************************)
(* The `execute` tool (runner/Execute.ts, runner/Runner.ts) over the       *)
(* vault's counters, the gateway and the owner store's run records.  A     *)
(* call awaits the vault, the store and the sandbox between its steps; the *)
(* calls of one owner, the requests of their sandboxes and the clock       *)
(* interleave there.                                                       *)
(***************************************************************************)
EXTENDS Gateway

CONSTANTS
    ExecutionBudget,    \* EXECUTION_BUDGET
    RunSpan             \* bound: no call is under way for longer than this

ASSUME ExecuteAssumption ==
    /\ ExecutionBudget \in Nat
    /\ RunSpan \in Nat
    /\ RunSpan <= SweepAge

VARIABLES
    isolate,    \* the runs whose sandbox may run code
    call        \* the call of each run

vars == <<now, spent, records, request, isolate, call>>

\* A call awaits: "door": countExecution; "admit": its answer; "packages":
\* listPublished; "sandbox": the report; "values": allValues; "record":
\* putRecord; "reply": its answer.  "dead": the host died under it.
Awaiting == {"door", "admit", "packages", "sandbox", "values", "record", "reply"}

Step == Awaiting \cup {"idle", "answered", "dead"}

Answer == {"none", "refused", "success", "unrecorded", "failure", "unexpected"}

\* began: when it arrived; verdict: what countExecution or putRecord answered;
\* day: the counter that admitted it; report: how the run went; seen: the
\* requests its code had the responses of when it reported.
CallState ==
    [step : Step, began : Time, verdict : BOOLEAN, day : Day \cup {NoDay},
     report : Outcome \cup {"none"}, seen : SUBSET Request, answer : Answer]

Init ==
    /\ GatewayInit
    /\ isolate = {}
    /\ call = [r \in Run |-> [step |-> "idle", began |-> 0, verdict |-> FALSE, day |-> NoDay,
                              report |-> "none", seen |-> {}, answer |-> "none"]]

UnderWay == {r \in Run : call[r].step \in Awaiting}

Become(r, c) == call' = [call EXCEPT ![r] = c]

Await(r, step) == Become(r, [call[r] EXCEPT !.step = step])

Respond(r, answer) == Become(r, [call[r] EXCEPT !.step = "answered", !.answer = answer])

----------------------------------------------------------------------------
Call(r) ==
    /\ call[r].step = "idle"
    /\ Become(r, [call[r] EXCEPT !.step = "door", !.began = now])
    /\ UNCHANGED <<now, spent, records, request, isolate>>

CountExecution(r) ==
    /\ call[r].step = "door"
    /\ Count("executions", now)
    /\ LET over == Exhausted("executions", ExecutionBudget, now) IN
       Become(r, [call[r] EXCEPT !.step = "admit",
                                 !.verdict = over,
                                 !.day = IF over THEN NoDay ELSE DayOf[now]])
    /\ UNCHANGED <<now, records, request, isolate>>

\* Over the budget: refused at the door, with no run id.
Refuse(r) ==
    /\ call[r].step = "admit"
    /\ call[r].verdict
    /\ Respond(r, "refused")
    /\ UNCHANGED <<now, spent, records, request, isolate>>

\* Mutant: the door's answer is not looked at.
AdmitAll(r) ==
    /\ call[r].step = "admit"
    /\ Await(r, "packages")
    /\ UNCHANGED <<now, spent, records, request, isolate>>

Admit(r) ==
    /\ call[r].step = "admit"
    /\ ~ call[r].verdict
    /\ Await(r, "packages")
    /\ UNCHANGED <<now, spent, records, request, isolate>>

\* listPublished, then the isolate is started under the run's name.
Boot(r) ==
    /\ call[r].step = "packages"
    /\ Await(r, "sandbox")
    /\ isolate' = isolate \cup {r}
    /\ UNCHANGED <<now, spent, records, request>>

\* The sandbox answers, or is found not to have: a value, or any failure.
Reported(r, outcome) ==
    Become(r, [call[r] EXCEPT !.step = "values", !.report = outcome, !.seen = Answered(r)])

\* What its code did not wait for may go on and send requests.
Report(r) ==
    /\ call[r].step = "sandbox"
    /\ \E outcome \in Outcome : Reported(r, outcome)
    /\ isolate' \in {isolate, isolate \ {r}}
    /\ UNCHANGED <<now, spent, records, request>>

\* Mutant: the waiting stops when the sandbox has.
TimeOutOnceStopped(r) ==
    /\ call[r].step = "sandbox"
    /\ r \notin isolate
    /\ Reported(r, "failure")
    /\ UNCHANGED <<now, spent, records, request, isolate>>

\* The timeout stops the waiting, and does not stop the sandbox.
TimeOut(r) ==
    /\ call[r].step = "sandbox"
    /\ Reported(r, "failure")
    /\ UNCHANGED <<now, spent, records, request, isolate>>

ReadValues(r) ==
    /\ call[r].step = "values"
    /\ Await(r, "record")
    /\ UNCHANGED <<now, spent, records, request, isolate>>

WriteRecord(r) ==
    /\ call[r].step = "record"
    /\ PutRecord(r, call[r].report, now)
    /\ Become(r, [call[r] EXCEPT !.step = "reply", !.verdict = TRUE])
    /\ UNCHANGED <<now, spent, request, isolate>>

\* The transaction throws: rolled back, and answered as a verdict.
RecordRefused(r) ==
    /\ call[r].step = "record"
    /\ Become(r, [call[r] EXCEPT !.step = "reply", !.verdict = FALSE])
    /\ UNCHANGED <<now, spent, records, request, isolate>>

\* Mutant: the verdict is not looked at of any run.
AnswersReport(r) ==
    /\ call[r].step = "reply"
    /\ Respond(r, call[r].report)
    /\ UNCHANGED <<now, spent, records, request, isolate>>

\* Of a failed run the verdict is not looked at.
Answers(r) ==
    /\ call[r].step = "reply"
    /\ Respond(r, IF call[r].report = "failure" THEN "failure"
                  ELSE IF call[r].verdict THEN "success" ELSE "unrecorded")
    /\ UNCHANGED <<now, spent, records, request, isolate>>

\* An awaited call rejects: before it took effect, or, at "admit" and at
\* "reply", after.  Effect.promise makes a defect of it.
Rejected(r) ==
    /\ call[r].step \in Awaiting \ {"sandbox"}
    /\ Respond(r, "unexpected")
    /\ UNCHANGED <<now, spent, records, request, isolate>>

\* The host dies, and its isolates with it.
HostDies(r) ==
    /\ r \in UnderWay
    /\ Become(r, [call[r] EXCEPT !.step = "dead"])
    /\ isolate' = isolate \ {r}
    /\ UNCHANGED <<now, spent, records, request>>

Tick ==
    /\ now < MaxTime
    /\ \A r \in UnderWay : now < call[r].began + RunSpan
    /\ now' = now + 1
    /\ UNCHANGED <<spent, records, request, isolate, call>>

----------------------------------------------------------------------------
\* What the tool itself does for a call that arrived.
CallStep(r) ==
    \/ CountExecution(r) \/ Refuse(r) \/ Admit(r) \/ Boot(r) \/ Report(r) \/ TimeOut(r)
    \/ ReadValues(r) \/ WriteRecord(r) \/ RecordRefused(r) \/ Answers(r) \/ Rejected(r)

GatewayStep(q) ==
    /\ \/ \E r \in isolate : Send(r, q)
       \/ CountFetch(q) \/ Route(q) \/ RouteThrows(q) \/ Log(q) \/ LogFails(q)
    /\ UNCHANGED <<isolate, call>>

Next ==
    \/ \E r \in Run : Call(r) \/ CallStep(r) \/ HostDies(r)
    \/ \E q \in Request : GatewayStep(q)
    \/ Tick

Spec == Init /\ [][Next]_vars

\* A call moves on whatever its sandbox does: that wait ends by the timeout,
\* the others by an answer or a rejection.
Settle(r) == CallStep(r) /\ (call[r].step = "sandbox" => TimeOut(r))

FairSpec == Spec /\ \A r \in Run : WF_vars(Settle(r))

----------------------------------------------------------------------------
(* Properties                                                              *)

\* Every variable has its type.
TypeOK ==
    /\ now \in Time
    /\ spent \in [CounterKind -> [Day -> Nat]]
    /\ trail \subseteq TrailRow
    /\ dropped \in [Run -> Nat]
    /\ \A r \in Run : record[r] = NoRecord \/ record[r] \in RunRecord
    /\ DOMAIN record = Run
    /\ request \in [Request -> RequestState]
    /\ isolate \subseteq Run
    /\ call \in [Run -> CallState]

\* Of the runs one day's counter admitted there are never more than the
\* execution budget, nor of the requests it let out more than the fetch
\* budget: counts that were refused, or whose answer was lost, take from the
\* budget and add nothing to it (Counters.ts:32-43).
WithinBudgets ==
    \A d \in Day :
        /\ Cardinality({r \in Run : call[r].day = d}) <= ExecutionBudget
        /\ Cardinality({q \in Request : request[q].day = d}) <= FetchBudget

\* The requests of a run whose line the store was sent and took.
Logged(r) == {q \in Request : request[q].run = r /\ request[q].stage = "returned"}

Lines(rows) == {row.request : row \in rows}

\* A record accounts for what its run's code knew of: of the requests whose
\* responses it had when it reported, and whose line was taken, those missing
\* from the record's trail were counted as dropped, and lines are only
\* dropped from a full trail - whatever other runs' sweeps, late requests
\* and other sandboxes did meanwhile (Gateway.ts:120-136, RunRecords.ts:123-180).
TrailIsComplete ==
    \A r \in Run : record[r] # NoRecord =>
        /\ Cardinality((Logged(r) \cap call[r].seen) \ Lines(record[r].trail)) <= record[r].dropped
        /\ record[r].dropped > 0 => Cardinality(record[r].trail) >= TrailBound

\* There is nothing of the run anywhere but in its call.
NothingOf(r) ==
    /\ r \notin isolate
    /\ record[r] = NoRecord
    /\ TrailOf(r) = {} /\ dropped[r] = 0
    /\ \A q \in Request : request[q].run # r

\* A run no counter admitted never booted, and of a run that never booted
\* there is no record, line, sandbox or request (Execute.ts:18-19).
RefusedRunsLeaveNothing ==
    \A r \in Run : call[r].day = NoDay =>
        /\ call[r].step \in {"idle", "door", "admit", "answered", "dead"}
        /\ NothingOf(r)

\* A call that arrived is answered, unless the host dies under it: a sandbox
\* that never answers is timed out (Runner.ts:216-229).
CallsAreAnswered ==
    \A r \in Run : call[r].step = "door" ~> call[r].step \in {"answered", "dead"}

----------------------------------------------------------------------------
(* The inductive invariant                                                 *)

\* The runs whose record may still be written.
Recording == {r \in Run : call[r].step \in {"sandbox", "values", "record"}}

\* Where a call is, and what of it is settled there.
CallAgrees(r) ==
    /\ r \in UnderWay => call[r].began <= now /\ now <= call[r].began + RunSpan
    /\ call[r].step \in {"values", "record", "reply"} => call[r].report # "none"
    /\ call[r].step = "reply" => (call[r].verdict <=> record[r] # NoRecord)
    /\ call[r].step = "admit" => (call[r].verdict <=> call[r].day = NoDay)
    /\ call[r].step # "answered" => call[r].answer = "none"
    /\ call[r].step \in {"idle", "door"} => call[r].day = NoDay
    /\ record[r] # NoRecord =>
          /\ call[r].step \in {"reply", "answered", "dead"}
          /\ record[r].outcome = call[r].report

CallsAgree == \A r \in Run : CallAgrees(r)

\* A request belongs to a run from when it is sent, and to a day's counter
\* only after it was counted; what a run has seen was answered.
RequestsAgree ==
    /\ \A q \in Request :
          /\ request[q].stage = "unsent" <=> request[q].run = NoRun
          /\ request[q].stage \in {"unsent", "count"} => request[q].day = NoDay
    /\ \A r \in Run : call[r].seen \subseteq Answered(r)

UnbootedRunsAreNew ==
    \A r \in Run : call[r].step \in {"idle", "door", "admit", "packages"} => NothingOf(r)

\* The counters are no lower than what they let through.
CountersCover ==
    \A d \in Day :
        /\ Cardinality({r \in Run : call[r].day = d}) <= spent["executions"][d]
        /\ Cardinality({q \in Request : request[q].day = d}) <= spent["fetches"][d]

\* The lines of a run under way are younger than the call, so no sweep takes
\* them, and they account for all that was logged.
LinesKept(r) ==
    /\ \A row \in TrailOf(r) : row.at >= call[r].began
    /\ Cardinality(Logged(r) \ Lines(TrailOf(r))) <= dropped[r]
    /\ dropped[r] > 0 => Cardinality(TrailOf(r)) >= TrailBound

LinesAreKept ==
    /\ IsFiniteSet(trail)
    /\ \A r \in Recording : LinesKept(r)

IInv ==
    /\ TypeOK
    /\ CallsAgree
    /\ RequestsAgree
    /\ UnbootedRunsAreNew
    /\ RefusedRunsLeaveNothing
    /\ CountersCover
    /\ WithinBudgets
    /\ LinesAreKept
    /\ TrailIsComplete

----------------------------------------------------------------------------
(* The contract this implements                                            *)

KeptMap == [r \in Run |-> IF record[r] = NoRecord THEN "none" ELSE record[r].outcome]
ToldMap == [r \in Run |-> call[r].answer]

Contract == INSTANCE RunContract WITH kept <- KeptMap, told <- ToldMap

\* Every step is a step of the contract or none: the record comes before the
\* answer, and no later step changes either (Execute.ts:13-19, 139-169).
ContractSpec == Contract!Spec

=============================================================================
