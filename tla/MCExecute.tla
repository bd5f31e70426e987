----------------------------- MODULE MCExecute ------------------------------
(* Small instances of Execute: the day the counters go by has DayTicks ticks. *)
EXTENDS Execute, TLC

CONSTANTS DayTicks, r1, r2, q1, q2, q3

MCDayOf == [t \in Time |-> t \div DayTicks]
MCDays == {t \div DayTicks : t \in Time}

MCSymmetry == Permutations(Run) \cup Permutations(Request)
=============================================================================
