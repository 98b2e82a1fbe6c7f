SPECIFICATION CopiesSpec
CONSTANTS
    Replica = {r1, r2, r3}
    Updates <- TieUpdates
INVARIANTS
    SameUpdatesSameMark
