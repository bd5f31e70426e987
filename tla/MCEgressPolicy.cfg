\* Two credentials, two saves and two approvals of two hosts, every kind of host.
CONSTANTS
    c1 = c1  c2 = c2  w1 = w1  w2 = w2  a1 = a1  a2 = a2  q1 = q1
    Credential = {c1, c2}
    Host = {"api", "API", "opti.internal", "own"}
    Plain = {"API", "own"}
    Lower <- MCLower
    Save = {w1, w2}
    Approval = {a1, a2}
    Request = {q1}
    NoSave = NoSave
    NoCredential = NoCredential
    NoHost = NoHost
    NoDenial = NoDenial
    Open = Open
    InternalHost = "opti.internal"
    OwnHost = "own"
    Exempt = {}
    Asked <- MCAsked
SPECIFICATION Spec
CHECK_DEADLOCK FALSE
SYMMETRY MCSymmetry
INVARIANTS ApprovalsAreKept ValuesGoWhereApproved AnsweredSavesAreSeen GrantedRequestsPass
PROPERTIES ContractSpec
