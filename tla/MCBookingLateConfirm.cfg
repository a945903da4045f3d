\* A confirm at the end of the hold: the lock never lapses within the run.
SPECIFICATION Spec
CONSTANTS
    Seats = {s1}
    Calls = {c1, c2}
    NoCall = NoCall
    LockTTL = 9
    HoldDuration = 1
    MaxTime = 3
    Confirms = {k1}
    Releases = {}
    Segments <- MCSegments
INVARIANTS
    NoDoubleBooking
