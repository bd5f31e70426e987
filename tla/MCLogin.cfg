\* Two visits of two clients, two people, and three callbacks, of which two have one code.
CONSTANTS
    v1 = v1  v2 = v2  x1 = x1  x2 = x2  d1 = d1  d2 = d2  d3 = d3
    i1 = i1  i2 = i2  k1 = k1  k2 = k2  k3 = k3
    Visit = {v1, v2}
    Client = {x1, x2}
    Code = {d1, d2}
    Identity = {i1, i2}
    Callback = {k1, k2, k3}
    Lagging = TRUE
    NoClient = NoClient
    NoIdentity = NoIdentity
    NoVisit = NoVisit
    NoCode = NoCode
    NoOwner = NoOwner
SPECIFICATION Spec
SYMMETRY MCSymmetry
CHECK_DEADLOCK FALSE
INVARIANTS OneOwnerUnlessRaced FamiliarClientsWereGranted
PROPERTIES ContractSpec
