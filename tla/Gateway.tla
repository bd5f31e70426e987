------------------------------ MODULE Gateway -------------------------------
(***************************************************************************)
(* The gateway every outbound request of a sandbox passes                  *)
(* (gateway/Gateway.ts).  A request is counted, routed, written to the     *)
(* run's trail and only then answered, and it awaits the vault, the        *)
(* network and the store on the way: the requests of a run interleave      *)
(* with each other and with the call that runs it.  Which answer a route   *)
(* gives, by its policy or from where it goes on to, is open here.         *)
(***************************************************************************)
EXTENDS Counters, RunRecords

CONSTANTS
    FetchBudget,    \* FETCH_BUDGET
    NoRun, NoDay

ASSUME GatewayAssumption ==
    /\ FetchBudget \in Nat
    /\ NoRun \notin Run
    /\ NoDay \notin Day

\* "count", "route", "log": awaiting countFetch, what the route goes on to,
\* appendTrail.  "returned": answered, its line written; "unlogged":
\* answered, its line not; "threw": the route threw.
Stage == {"unsent", "count", "route", "log", "returned", "unlogged", "threw"}

VARIABLES
    now,        \* the clock
    request     \* each request's stage, run, and the day that let it through

RequestState == [stage : Stage, run : Run \cup {NoRun}, day : Day \cup {NoDay}]

GatewayInit ==
    /\ CountersInit
    /\ RecordsInit
    /\ now = 0
    /\ request = [q \in Request |-> [stage |-> "unsent", run |-> NoRun, day |-> NoDay]]

MoveTo(q, stage) == request' = [request EXCEPT ![q] = [@ EXCEPT !.stage = stage]]

\* The sandbox of run r sends q.
Send(r, q) ==
    /\ request[q].stage = "unsent"
    /\ request' = [request EXCEPT ![q] = [stage |-> "count", run |-> r, day |-> NoDay]]
    /\ UNCHANGED <<now, spent, records>>

\* countFetch: the day is the counter's that let the request through.
CountFetch(q) ==
    /\ request[q].stage = "count"
    /\ Count("fetches", now)
    /\ LET over == Exhausted("fetches", FetchBudget, now) IN
       request' = [request EXCEPT ![q] =
          [@ EXCEPT !.stage = "route", !.day = IF over THEN NoDay ELSE DayOf[now]]]
    /\ UNCHANGED <<now, records>>

\* The route answers: a denial, over the budget or by its policy, or what
\* the store, the vault or the network answered.
Route(q) ==
    /\ request[q].stage = "route"
    /\ MoveTo(q, "log")
    /\ UNCHANGED <<now, spent, records>>

\* An awaited call of the route rejects - of the count, before or after it
\* took effect - and no handler is in between.
RouteThrows(q) ==
    /\ request[q].stage \in {"count", "route"}
    /\ MoveTo(q, "threw")
    /\ UNCHANGED <<now, spent, records>>

\* appendTrail lands, and the response goes back.
Log(q) ==
    /\ request[q].stage = "log"
    /\ AppendTrail(request[q].run, q, now)
    /\ MoveTo(q, "returned")
    /\ UNCHANGED <<now, spent>>

\* appendTrail rejects: caught, and the response goes back all the same.
LogFails(q) ==
    /\ request[q].stage = "log"
    /\ MoveTo(q, "unlogged")
    /\ UNCHANGED <<now, spent, records>>

\* The requests of run r whose responses reached its code.
Answered(r) == {q \in Request : request[q].run = r /\ request[q].stage \in {"returned", "unlogged"}}
=============================================================================
