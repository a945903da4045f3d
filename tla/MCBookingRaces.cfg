\* Two holds of one ride, two racing confirms and a release, under fairness; no
\* symmetry.
SPECIFICATION FairSpec
CONSTANTS
    Seats = {s1}
    Calls = {c1, c2}
    NoCall = NoCall
    LockTTL = 1
    HoldDuration = 1
    MaxTime = 2
    Confirms = {k1, k2}
    Releases = {r1}
    Segments <- MCOneRide
PROPERTIES
    SeatLostOnlyByReleaseOrDeadline
    ImplementsInventory
    EveryCallFinishes
    DeadCallUnblocksSeat
