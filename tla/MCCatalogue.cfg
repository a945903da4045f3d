\* Two registrations of one email, a login, and two requests at the gateway.
\* Both kinds of token are signed with the same secret.
SPECIFICATION Spec
CONSTANTS
    Emails = {e1}
    Passwords = {p1, p2}
    Registrations = {r1, r2}
    Logins = {l1}
    AccessSecret = secret
    RefreshSecret = secret
    AccessExpiresIn <- OneSecond
    RefreshExpiresIn <- TwoSeconds
    MaxTime = 2
    q1 = q1
    Requests = {q1, q2}
    Bodies <- MCBodies
    Days = {0, 1}
    DayLength = 3
SYMMETRY MCSymmetry
INVARIANTS
    TypeOK
    OneUserPerEmail
    
    
    NoLoginAfterDeactivation
    RowsAreAuthorized
    OneBusPerNumber
    LaterRequestSeesName
    CreateAnswersTrue
    TripsHaveTheirSeats
    FoundOnItsDayOnly
