SPECIFICATION ClientSpec
CONSTANTS
    Keys = {k1, k2}
    Runs = {r1, r2}
    PullLimit = 1
    MaxReps = 2
    MaxTime = 2
    NoCard = NoCard
    Replica = {c1, c2, c3}
    Updates <- MCUpdates
SYMMETRY Symmetry
VIEW View
INVARIANTS
    ClientTypeOK
    UnsentReviewIsKept
    AheadIsQueued
    OnlyCutOrLateIsSkipped
    CardsAreBest
    PagesAreFurthest
    MarksAreLatest
