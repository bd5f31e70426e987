\* A dependency is republished between a publish's listing and its commit.
CONSTANTS
    good = good  partial = partial  throwing = throwing  uses = uses  wrap = wrap
    a = a  b = b  storage = storage  s1 = s1  s2 = s2
    Stem = {"index", "run"}
    IndexStem = "index"
    RunStem = "run"
    Content = {good, uses, wrap}
    Wrapper = wrap
    RunCode = {}
    Summary = {"", "first"}
    Blank = ""
    FrozenSummary = "first"
    ExportName = {"run", "list"}
    RunExport = "run"
    Name = {a, b}
    BuiltIn = {}
    Session = {s1, s2}
    MaxRevision = 2
    NoSnapshot = NoSnapshot
    NoPackage = NoPackage
    Defines <- MCDefines
    Needs <- MCNeeds
    Throws <- MCThrows
    NewSource <- ImportSource
    FileEdit <- ImportFileEdit
    ManifestEdit <- ImportManifestEdit
SPECIFICATION Spec
PROPERTY GoesLiveLoadable
