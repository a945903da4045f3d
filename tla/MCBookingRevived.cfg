\* One hold, one confirm, one release.
SPECIFICATION FairSpec
CONSTANTS
    Seats = {s1}
    Calls = {c1}
    NoCall = NoCall
    LockTTL = 1
    HoldDuration = 1
    MaxTime = 3
    Confirms = {k1}
    Releases = {r1}
    Segments <- MCSegments
PROPERTIES
    OnlyPendingConfirmed
