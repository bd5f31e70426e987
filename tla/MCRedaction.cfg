\* Two credentials of which one value is a part of the other, and a run that ends, with fairness.
CONSTANTS
    c1 = c1  c2 = c2  w1 = w1  w2 = w2  a1 = a1  r1 = r1
    Credential = {c1, c2}
    Host = {"api"}
    Plain = {"api"}
    Lower <- MCLower
    Save = {w1, w2}
    Approval = {a1}
    NoSave = NoSave
    NoCredential = NoCredential
    NoHost = NoHost
    Open = Open
    Run = {r1}
    Silent = Silent
    Length <- MCLength
    Within <- MCWithin
    MarkerLength = 2
    EnvelopeCeiling = 4
    RecordCeiling = 8
    MaxTexts = 2
SPECIFICATION FairSpec
CHECK_DEADLOCK FALSE
INVARIANTS ScannedTextsShowOldValuesOnly AnswerHasNoMoreThanTheRecord
PROPERTY RunsAreAnswered
