\* Two sagas for one seat and a cancellation, under fairness; no symmetry.
SPECIFICATION MCFairSpec
CONSTANTS
    Sagas = {i1, i2}
    Cancels = {x1}
INVARIANTS
    TypeOK
    SuccessBacked
    DeclinedBacked
    ConfirmedIsPaid
    CancelledIsRefunded
    OneWinner
    EventsTrue
PROPERTIES
    ImplementsInventory
    ImplementsLedger
    EverySagaEnds
    
