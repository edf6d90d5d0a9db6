CONSTANTS
    v1 = v1
    v2 = v2
    u1 = u1
    none = none
    s1 = s1
    a1 = a1
    a2 = a2
    k1 = k1
    k2 = k2
    Vcon = {v1, v2}
    Uuid = {u1}
    NoUuid = none
    Subject = {s1}
    NoSubject = none
    Authority = {a1, a2}
    KeyPair = {k1, k2}
    Foreign <- MCForeign
    MaxDumps = 2
SPECIFICATION LifeSpec
SYMMETRY Symmetry
INVARIANTS
    ReadableIsWhatWasSigned
    VerifiedWasSigned
PROPERTIES
    FailedCallLeavesVcon
    OnlyPlaintextThaws
