CONSTANTS
    r1 = r1
    r2 = r2
    q1 = q1
    q2 = q2
    q3 = q3
    Run = {r1, r2}
    Request = {q1, q2}
    NoRecord = NoRecord
    NoRun = NoRun
    NoDay = NoDay
    DayTicks = 1
    MaxTime = 1
    Day <- MCDays
    DayOf <- MCDayOf
    SweepAge = 1
    RunSpan = 1
    TrailBound = 1
    ExecutionBudget = 1
    FetchBudget = 1
SPECIFICATION Spec
SYMMETRY MCSymmetry
CHECK_DEADLOCK FALSE
INVARIANTS
    IInv
    WithinBudgets
