\* Every pair of segments over five stops, up to three rows of one seat.
SPECIFICATION Spec
CONSTANTS
    Stops = {1, 2, 3, 4, 5}
    MaxBookings = 3
INVARIANTS
    LegSoldOnce
    ConflictIffSharedLeg
CHECK_DEADLOCK FALSE
