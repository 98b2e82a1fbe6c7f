SPECIFICATION Spec
CONSTANTS
    Requests = {r1}
    Tokens = {t1, t2}
    NoToken = NoToken
CHECK_DEADLOCK FALSE
INVARIANTS
    SurvivorsOverlap
