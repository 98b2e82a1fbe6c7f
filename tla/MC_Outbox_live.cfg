SPECIFICATION FairSpec
CONSTANTS
    e1 = e1
    e2 = e2
    d1 = d1
    d2 = d2
    Entities = {e1, e2}
    Drains = {d1}
    MaxAttempts = 1
    BatchSize = 1
    MaxEdits = 1
    NoEntry = NoEntry
PROPERTIES
    EveryRowIsResolved
