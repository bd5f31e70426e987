\* Three storage calls, a search, a package that is published.
CONSTANTS
    k1 = k1  k2 = k2  k3 = k3  s1 = s1
    KeyChar <- MCKeyChar
    Del = 127
    Spelling <- MCSpelling
    Call = {k1, k2, k3}
    Asked <- MCAsked
    NoValue = NoValue
    Size <- MCSize
    ValueCeiling = 1
    ListBound = 1
    Capability = {"fetch", "runs"}
    Package = {"pack"}
    Fetch = "fetch"
    Unknown = "unknown"
    Query = {"all", "exact", "none"}
    All = "all"
    Named = {"fetch", "pack", "unknown"}
    Score <- MCScore
    Alphabetical <- MCOrder
    SearchBound = 2
    Search = {s1}
SPECIFICATION Spec
CHECK_DEADLOCK FALSE
INVARIANTS ListingsAreExact ListingsHaveWhatWasSet ReplacedIsNotRead EachDeleteRemovedSomething BestAreShown PublishedIsFound
