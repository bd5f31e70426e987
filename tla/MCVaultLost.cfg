\* The container stops with a write on its disk that the sync has not taken up.
CONSTANTS
    k1 = k1  k2 = k2  e1 = e1
    Name <- MCName
    Strange = {}
    Hidden = {}
    Longer <- MCLonger
    VaultDir = "vault"
    WritePrefix <- MCFolder
    File <- MCFile
    Call = {k1, k2}
    Edit = {e1}
    Old = Old
    FirstNotes <- MCFirst
    Absent = Absent
    FirstDelay = 1
    MaxDelay = 2
    MaxStops = 1
    MaxExits = 1
    Path <- MCPath
    NoPath = NoPath
    Markdown = {"n"}
    Matching = {Old, k1}
    Kind <- MCKind
    ListBound = 1
    SearchBound = 2
SPECIFICATION Spec
INVARIANTS DiskLossLosesNothing
CHECK_DEADLOCK FALSE
