\* One package, two conversations that create, edit and publish it at once.
CONSTANTS
    good = good  partial = partial  throwing = throwing  uses = uses  wrap = wrap
    a = a  b = b  storage = storage  s1 = s1  s2 = s2
    Stem = {"index", "run"}
    IndexStem = "index"
    RunStem = "run"
    Content = {good, partial, throwing, wrap}
    Wrapper = wrap
    RunCode = {good}
    Summary = {"", "first", "second"}
    Blank = ""
    FrozenSummary = "first"
    ExportName = {"run", "list"}
    RunExport = "run"
    Name = {a, storage}
    BuiltIn = {storage}
    Session = {s1, s2}
    MaxRevision = 3
    NoSnapshot = NoSnapshot
    NoPackage = NoPackage
    Defines <- MCDefines
    Needs <- MCNeeds
    Throws <- MCThrows
    NewSource <- RaceSource
    FileEdit <- RaceFileEdit
    ManifestEdit <- RaceManifestEdit
SPECIFICATION Spec
SYMMETRY Conversations
INVARIANTS PublishedStateIsTruthful LiveIsSound StoredManifestsPublish
PROPERTIES LiveNeverRegresses TwoIndexesFreezeLive HalfEditKeepsOtherHalf ContractSpec
