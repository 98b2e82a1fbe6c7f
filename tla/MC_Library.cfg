SPECIFICATION LibrarySpec
CONSTANTS
    Versions = {1, 2}
    Contents = {c1, c2}
    Devices = {d1, d2}
    Damaged = Damaged
    Missing = Missing
    None = None
    Workers = {w1, w2}
    Events = {e1, e2}
    Payloads = {p1, p2}
    Fields = {f1, f2}
    MaxEdits = 4
    MaxRows = 3
    MaxTime = 2
    MaxWrites = 4
    Skew = 1
    PageSize = 1
    PullLimit = 2
SYMMETRY Symmetry
CHECK_DEADLOCK FALSE
INVARIANTS
    ServicesTypeOK
    SameVersionSameBytes
    VerifyIsRight
    WalkIsComplete
    LacksOnlyCutOrLate
PROPERTIES
    FirstDeliveryStays
    SetBackOnlyByOverlap
