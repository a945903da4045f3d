\* Any of the services, three requests and two signals.
SPECIFICATION FairSpec
CONSTANTS
    Requests = {h1, h2, h3}
    Signals = {s1, s2}
INVARIANTS
    TypeOK
    ServedToTheEnd
PROPERTIES
    ShutdownEnds
