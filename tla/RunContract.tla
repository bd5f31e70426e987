---------------------------- MODULE RunContract -----------------------------
(***************************************************************************)
(* What `execute` promises the caller of a run: a record is kept at most   *)
(* once and never after the answer; an answer is given at most once; a     *)
(* plain success has its record, a success marked unrecorded and a refusal *)
(* have none, and a failure is never on record as a success.               *)
(***************************************************************************)
CONSTANTS Run

VARIABLES
    kept,   \* the outcome on record of each run
    told    \* what the caller of each run was told

Kept == {"none", "success", "failure"}

Told == {"none", "refused", "success", "unrecorded", "failure", "unexpected"}

Init ==
    /\ kept = [r \in Run |-> "none"]
    /\ told = [r \in Run |-> "none"]

Keep(r, outcome) ==
    /\ told[r] = "none"
    /\ kept[r] = "none"
    /\ kept' = [kept EXCEPT ![r] = outcome]
    /\ UNCHANGED told

\* The answers each record allows.
Allowed(outcome) ==
    CASE outcome = "none"    -> {"refused", "unrecorded", "failure", "unexpected"}
      [] outcome = "success" -> {"success", "unexpected"}
      [] outcome = "failure" -> {"failure", "unexpected"}

Tell(r, answer) ==
    /\ told[r] = "none"
    /\ answer \in Allowed(kept[r])
    /\ told' = [told EXCEPT ![r] = answer]
    /\ UNCHANGED kept

Next ==
    \E r \in Run :
        \/ \E outcome \in {"success", "failure"} : Keep(r, outcome)
        \/ \E answer \in Told \ {"none"} : Tell(r, answer)

Spec == Init /\ [][Next]_<<kept, told>>
=============================================================================
