SPECIFICATION Spec
CONSTANTS
    Keys = {k1}
    Runs = {r1}
    PullLimit = 1
    MaxReps = 2
    MaxTime = 3
    NoCard = NoCard
INVARIANTS
    NoChangeSkipped
