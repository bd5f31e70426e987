------------------------------ MODULE Counters ------------------------------
(***************************************************************************)
(* The daily ceilings of the owner vault (vault/Counters.ts): one counter  *)
(* per kind and UTC day, in the vault's durable object.  The object's      *)
(* input gate holds other events back while a handler awaits storage, so   *)
(* the read and the write of one count are one step.                       *)
(***************************************************************************)
EXTENDS Naturals

CONSTANTS
    MaxTime,    \* bound: the clock stops here
    Day,        \* the UTC days
    DayOf       \* the day an instant belongs to

Time == 0 .. MaxTime

CounterKind == {"executions", "fetches"}

ASSUME CountersAssumption ==
    /\ MaxTime \in Nat
    /\ DayOf \in [Time -> Day]

VARIABLE spent      \* the counter:<kind>:<day> keys; 0 where there is none

CountersInit == spent = [k \in CounterKind |-> [d \in Day |-> 0]]

\* count: the counter moves whatever the answer will be.
Count(kind, now) == spent' = [spent EXCEPT ![kind][DayOf[now]] = @ + 1]

\* Mutant: the one that is being counted is not.
ExhaustedBefore(kind, limit, now) == spent[kind][DayOf[now]] > limit

\* What count answers: whether that one was over the limit.
Exhausted(kind, limit, now) == spent[kind][DayOf[now]] + 1 > limit
=============================================================================
