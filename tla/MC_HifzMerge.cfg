SPECIFICATION FairSpec
CONSTANTS
    a1 = a1
    a2 = a2
    b1 = b1
    b2 = b2
    i1 = i1
    r1 = r1
    r2 = r2
    Ayahs = {a1, a2}
    Requests = {r1, r2}
    Bodies = {b1, b2}
    Ids = {i1, OwnId}
    OwnId = OwnId
    Batches <- MCBatches
    Absent = Absent
    NoRow = NoRow
INVARIANTS
    TypeOK
    NoAckedReviewLost
    ProgressIsAcked
    HistoryIsComplete
PROPERTIES
    NeverOverwrittenBlindly
    ResponseIsTruthful
    CommitsAreSerial
    EveryPushAnswered
