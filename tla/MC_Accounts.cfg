SPECIFICATION AccountsSpec
CONSTANTS
    Requests = {r1, r2}
    Tokens = {t1, t2, t3}
    Links = {l1, l2}
    MaxPassword = 4
    NoToken = NoToken
    NoLink = NoLink
SYMMETRY Symmetry
CHECK_DEADLOCK FALSE
INVARIANTS
    TypeOK
    LinksTypeOK
    RowTypeOK
    SurvivorsWereRefreshed
    ListShowsFirstTokens
    WorksOnce
    TwoLinksOnlyByOverlap
    LockHolds
    ProfileMissingOnlyIfCutShort
PROPERTIES
    DeadTokenStaysDead
    DeadLinkStaysDead
    TakenBackOnlyByProfileScreen
