SPECIFICATION Spec
CONSTANTS
    e1 = e1
    e2 = e2
    d1 = d1
    d2 = d2
    Entities = {e1}
    Drains = {d1, d2}
    MaxAttempts = 2
    BatchSize = 1
    MaxEdits = 2
    NoEntry = NoEntry
SYMMETRY Symmetry
INVARIANTS
    TypeOK
    ForgottenOnlyByOverlap
    ParkedOnlyByRefusals
PROPERTIES
    ImplementsDelivery
