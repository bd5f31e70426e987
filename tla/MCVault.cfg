\* Three notes, two calls, an edit elsewhere; the container stops once.
CONSTANTS
    k1 = k1  k2 = k2  e1 = e1
    Name <- MCName
    Strange = {}
    Hidden = {}
    Longer <- MCLonger
    VaultDir = "vault"
    WritePrefix <- MCFolder
    File <- MCFile
    Call = {k1, k2}
    Edit = {e1}
    Old = Old
    FirstNotes <- MCFirst
    Absent = Absent
    FirstDelay = 1
    MaxDelay = 2
    MaxStops = 1
    MaxExits = 1
    Path <- MCPath
    NoPath = NoPath
    Markdown = {"n"}
    Matching = {Old, k1}
    Kind <- MCKind
    ListBound = 1
    SearchBound = 2
SPECIFICATION FairSpec
CHECK_DEADLOCK FALSE
INVARIANTS WritesStayInFolders AnsweredWritesAreSeen ConflictsComeFromElsewhere ListingsTellWhatTheyCut
PROPERTIES VaultNeverGoesBack CallsAreAnswered KeptWritesAreUploaded
