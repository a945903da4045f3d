\* Three passengers race for one seat; locks and holds lapse on the way; one
\* release, no confirm.
SPECIFICATION Spec
CONSTANTS
    Seats = {s1}
    Calls = {c1, c2, c3}
    NoCall = NoCall
    LockTTL = 1
    HoldDuration = 1
    MaxTime = 2
    Confirms = {}
    Releases = {r1}
    Segments <- MCSegments
SYMMETRY MCSymmetry
INVARIANTS
    TypeOK
    OverlapExplained
    CheckStaysValid
    LockHeldUntilDeadline
    RefusalLeavesNoHold
