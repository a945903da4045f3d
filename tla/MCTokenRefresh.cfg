\* One user and one login.
SPECIFICATION Spec
CONSTANTS
    Emails = {e1}
    Passwords = {p1}
    Registrations = {r1}
    Logins = {l1}
    AccessSecret = secret1
    RefreshSecret = secret2
    AccessExpiresIn <- OneSecond
    RefreshExpiresIn <- TwoSeconds
    MaxTime = 2
    q1 = q1
    Requests = {}
    Bodies <- MCBodies
    Days = {}
    DayLength = 3
INVARIANTS
    RefreshRenews
