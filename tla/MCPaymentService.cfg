\* Three charge calls over two keys and two refunds: racing retries of one
\* charge, and refunds that race with each other and with late charges.
SPECIFICATION Spec
CONSTANTS
    Keys = {k1, k2}
    Charges = {c1, c2, c3}
    Refunds = {r1, r2}
SYMMETRY MCSymmetry
INVARIANTS
    TypeOK
    AnswersAgreeWithRow
    RecordedPaymentWasCharged
PROPERTIES
    ImplementsLedger
