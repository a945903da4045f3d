------------------------------ MODULE Accounts ------------------------------
(***************************************************************************)
(* user-service and utils/jwt: registration, login, tokens.                *)
(*                                                                         *)
(* register looks the email up, awaits the hash of the password and then   *)
(* inserts; the email column is unique.  login reads the row, awaits the   *)
(* comparison of the passwords and then signs two tokens.  Tokens carry    *)
(* all the gateway knows: nothing is stored and nothing is revoked.        *)
(*                                                                         *)
(* The state and steps of the accounts; Catalogue puts them to work.  A    *)
(* user row is named by the call that inserted it.  The clock counts the   *)
(* seconds that tokens are dated in.                                       *)
(***************************************************************************)
EXTENDS Naturals

CONSTANTS
    Emails,
    Passwords,
    Registrations,      \* register calls
    Logins,             \* login calls
    AccessSecret,       \* JWT_SECRET
    RefreshSecret,      \* JWT_REFRESH_SECRET, which may be the same
    AccessExpiresIn,    \* JWT_EXPIRES_IN
    RefreshExpiresIn,   \* JWT_REFRESH_EXPIRES_IN
    MaxTime             \* bound: the clock stops here

\* A duration is configured as a number and a unit.
ASSUME AccountsAssumption ==
    /\ MaxTime \in Nat
    /\ AccessExpiresIn \in [value : Nat, unit : STRING]
    /\ RefreshExpiresIn \in [value : Nat, unit : STRING]

VARIABLES
    now,            \* the clock, in seconds
    given,          \* given[c]: the email and the password in the body of call c
    users,          \* the register calls whose row is in the User table
    deactivatedAt,  \* deactivatedAt[u]: when isActive of u became false
    regPc,          \* regPc[r]: where the register call is, or how it ended
    loginPc,        \* loginPc[l]: where the login call is, or how it ended
    seen,           \* seen[l]: the user whose row the login call read
    issuedAt,       \* issuedAt[l]: when its tokens were signed
    readAt          \* history: readAt[l], when it read the row

accountVars == <<now, given, users, deactivatedAt, regPc, loginPc, seen,
                 issuedAt, readAt>>
registerVars == <<users, regPc>>
loginVars == <<loginPc, seen, issuedAt, readAt>>

Calls == Registrations \cup Logins

\* A deadline that the clock never reaches.
Never == MaxTime + 1

Times == 0 .. MaxTime

\* hashing: the email was free and the hash is awaited.
RegPc == {"idle", "hashing", "created", "conflict", "error"}

\* comparing: the row was read and the comparison is awaited.
LoginPc == {"idle", "comparing", "loggedIn", "refused", "error"}

AccountsTypeOK ==
    /\ now \in Times
    /\ given \in [Calls -> [email : Emails, password : Passwords]]
    /\ users \subseteq Registrations
    /\ deactivatedAt \in [Registrations -> Times \cup {Never}]
    /\ regPc \in [Registrations -> RegPc]
    /\ loginPc \in [Logins -> LoginPc]
    /\ seen \in [Logins -> Registrations \cup {"nobody"}]
    /\ \A l \in Logins : loginPc[l] \in {"comparing", "loggedIn"}
                            => seen[l] \in Registrations
    /\ issuedAt \in [Logins -> Times]
    /\ readAt \in [Logins -> Times]

AccountsInit ==
    /\ now = 0
    /\ given \in [Calls -> [email : Emails, password : Passwords]]
    /\ users = {}
    /\ deactivatedAt = [u \in Registrations |-> Never]
    /\ regPc = [r \in Registrations |-> "idle"]
    /\ loginPc = [l \in Logins |-> "idle"]
    /\ seen = [l \in Logins |-> "nobody"]
    /\ issuedAt = [l \in Logins |-> 0]
    /\ readAt = [l \in Logins |-> 0]

Tick ==
    /\ now < MaxTime
    /\ now' = now + 1
    /\ UNCHANGED <<given, deactivatedAt, registerVars, loginVars>>

\* The service has no operation for it, but login looks at isActive: somebody
\* clears it in the database.
Deactivate(u) ==
    /\ u \in users
    /\ deactivatedAt[u] = Never
    /\ deactivatedAt' = [deactivatedAt EXCEPT ![u] = now]
    /\ UNCHANGED <<now, given, registerVars, loginVars>>

IsActive(u) == now < deactivatedAt[u]

\* The rows findByEmail chooses from.
FindByEmail(email) == {u \in users : given[u].email = email}

----------------------------------------------------------------------------
(* register *)

RegisterGoto(r, from, to) ==
    regPc[r] = from /\ regPc' = [regPc EXCEPT ![r] = to]

\* findByEmail finds nothing; the hash is awaited.
CheckEmail(r) ==
    /\ RegisterGoto(r, "idle", "hashing")
    /\ FindByEmail(given[r].email) = {}
    /\ UNCHANGED <<now, given, deactivatedAt, users, loginVars>>

\* findByEmail finds a user: ConflictError.
RefuseEmail(r) ==
    /\ RegisterGoto(r, "idle", "conflict")
    /\ FindByEmail(given[r].email) # {}
    /\ UNCHANGED <<now, given, deactivatedAt, users, loginVars>>

\* Mutant: the column is not unique.
InsertUserAnyway(r) ==
    /\ \E to \in {"created", "error"} : RegisterGoto(r, "hashing", to)
    /\ users' = users \cup {r}
    /\ UNCHANGED <<now, given, deactivatedAt, loginVars>>

\* Mutant: a taken email is passed over (skipDuplicates).
SkipDuplicate(r) ==
    /\ \E to \in {"created", "error"} : RegisterGoto(r, "hashing", to)
    /\ users' = IF FindByEmail(given[r].email) = {} THEN users \cup {r}
                                                    ELSE users
    /\ UNCHANGED <<now, given, deactivatedAt, loginVars>>

\* The insert succeeds; its answer may be lost.
InsertUser(r) ==
    /\ \E to \in {"created", "error"} : RegisterGoto(r, "hashing", to)
    /\ FindByEmail(given[r].email) = {}
    /\ users' = users \cup {r}
    /\ UNCHANGED <<now, given, deactivatedAt, loginVars>>

\* An awaited call fails, the unique index refuses the insert, or the process
\* dies.
RegisterFails(r) ==
    /\ \E from \in {"idle", "hashing"} : RegisterGoto(r, from, "error")
    /\ UNCHANGED <<now, given, deactivatedAt, users, loginVars>>

----------------------------------------------------------------------------
(* login *)

LoginGoto(l, from, to) ==
    loginPc[l] = from /\ loginPc' = [loginPc EXCEPT ![l] = to]

\* Mutant: isActive is not looked at.
FindAnyUser(l) ==
    /\ LoginGoto(l, "idle", "comparing")
    /\ \E u \in FindByEmail(given[l].email) : seen' = [seen EXCEPT ![l] = u]
    /\ readAt' = [readAt EXCEPT ![l] = now]
    /\ UNCHANGED <<now, given, deactivatedAt, registerVars, issuedAt>>

\* findByEmail finds an active user; the comparison is awaited.
FindUser(l) ==
    /\ LoginGoto(l, "idle", "comparing")
    /\ \E u \in FindByEmail(given[l].email) :
          /\ IsActive(u)
          /\ seen' = [seen EXCEPT ![l] = u]
    /\ readAt' = [readAt EXCEPT ![l] = now]
    /\ UNCHANGED <<now, given, deactivatedAt, registerVars, issuedAt>>

\* Mutant: a missing user is not noticed.
CompareWithNobody(l) ==
    /\ LoginGoto(l, "idle", "comparing")
    /\ FindByEmail(given[l].email) = {}
    /\ UNCHANGED <<now, given, deactivatedAt, registerVars, seen, issuedAt,
                   readAt>>

\* No user, or a deactivated one.
RefuseUser(l) ==
    /\ LoginGoto(l, "idle", "refused")
    /\ \A u \in FindByEmail(given[l].email) : ~IsActive(u)
    /\ UNCHANGED <<now, given, deactivatedAt, registerVars, seen, issuedAt,
                   readAt>>

\* Mutant: the comparison is not awaited, and a promise is never false.
PasswordMatchesUnawaited(l) == l \in Logins

\* comparePassword, which compares with the hash of the password in the row.
PasswordMatches(l) == given[l].password = given[seen[l]].password

\* The tokens are signed when the answer of the comparison arrives.
GenerateTokens(l) ==
    /\ LoginGoto(l, "comparing", "loggedIn")
    /\ PasswordMatches(l)
    /\ issuedAt' = [issuedAt EXCEPT ![l] = now]
    /\ UNCHANGED <<now, given, deactivatedAt, registerVars, seen, readAt>>

RefusePassword(l) ==
    /\ LoginGoto(l, "comparing", "refused")
    /\ ~PasswordMatches(l)
    /\ UNCHANGED <<now, given, deactivatedAt, registerVars, seen, issuedAt,
                   readAt>>

\* An awaited call fails, or the process dies.
LoginFails(l) ==
    /\ \E from \in {"idle", "comparing"} : LoginGoto(l, from, "error")
    /\ UNCHANGED <<now, given, deactivatedAt, registerVars, seen, issuedAt,
                   readAt>>

AccountsNext ==
    \/ Tick
    \/ \E u \in Registrations : Deactivate(u)
    \/ \E r \in Registrations :
          CheckEmail(r) \/ RefuseEmail(r) \/ InsertUser(r) \/ RegisterFails(r)
    \/ \E l \in Logins :
          \/ FindUser(l) \/ RefuseUser(l)
          \/ GenerateTokens(l) \/ RefusePassword(l) \/ LoginFails(l)

AccountsFinished ==
    /\ now = MaxTime
    /\ \A r \in Registrations : regPc[r] \in {"created", "conflict", "error"}
    /\ seen \in [Logins -> Registrations \cup {"nobody"}]
    /\ \A l \in Logins : loginPc[l] \in {"loggedIn", "refused", "error"}

----------------------------------------------------------------------------
(* Tokens *)

TimeMap == [s |-> 1, m |-> 60, h |-> 3600, d |-> 86400, w |-> 604800,
            y |-> 31536000]

\* A unit that is not in the map means the default of 15 minutes.
GetExpirationTime(expiresIn) ==
    IF expiresIn.unit \in DOMAIN TimeMap
    THEN expiresIn.value * TimeMap[expiresIn.unit]
    ELSE 15 * 60

\* The tokens of a login.  secret stands for the signature made with it.
AccessToken(l) ==
    [id |-> seen[l], tokenType |-> "access", secret |-> AccessSecret,
     exp |-> issuedAt[l] + GetExpirationTime(AccessExpiresIn)]

RefreshToken(l) ==
    [id |-> seen[l], tokenType |-> "refresh", secret |-> RefreshSecret,
     exp |-> issuedAt[l] + GetExpirationTime(RefreshExpiresIn)]

LoggedIn == {l \in Logins : loginPc[l] = "loggedIn"}

\* The tokens that clients have.
Tokens == {AccessToken(l) : l \in LoggedIn} \cup {RefreshToken(l) : l \in LoggedIn}

\* jsonwebtoken's verify: the signature fits and the token has not expired.
JwtVerify(token, secret) == token.secret = secret /\ now < token.exp

\* Mutant: the kind of the token is not looked at.
VerifyAnyToken(token) == JwtVerify(token, AccessSecret)

VerifyAccessToken(token) ==
    JwtVerify(token, AccessSecret) /\ token.tokenType = "access"

VerifyRefreshToken(token) ==
    JwtVerify(token, RefreshSecret) /\ token.tokenType = "refresh"

\* What refreshToken has signed again: the payload of the old token, without
\* its kind.
RefreshPayload(token) ==
    [f \in DOMAIN token \ {"tokenType", "secret"} |-> token[f]]

\* jsonwebtoken's sign with the option expiresIn throws if the payload already
\* says when it expires.
JwtSigns(payload) == "exp" \notin DOMAIN payload

----------------------------------------------------------------------------
(* Properties *)

\* Registrations that race past the check do not give one email two users
\* (userService.ts:38 and 46, with the unique index of user.prisma:5).
OneUserPerEmail ==
    \A u, v \in users : given[u].email = given[v].email => u = v

\* What register answers is true whatever happened between its check and its
\* insert: success means that the caller's own row is there, a conflict that
\* the email belongs to the row of another call (userService.ts:38-46).
RegisterAnswersTrue ==
    \A r \in Registrations :
        /\ regPc[r] = "created" => r \in users
        /\ regPc[r] = "conflict" => r \notin users /\ FindByEmail(given[r].email) # {}

\* Whoever is logged in gave the email and the password of the user its tokens
\* speak for (userService.ts:55-72).
SessionsAreOwned ==
    \A l \in LoggedIn :
        /\ seen[l] \in users
        /\ given[l] = given[seen[l]]

\* A login that reads the row after the account was deactivated gets no tokens.
\* (One that read it before does, however late: userService.ts:60-68.)
NoLoginAfterDeactivation ==
    \A l \in LoggedIn : readAt[l] <= deactivatedAt[seen[l]]

\* "Refresh access token using refresh token" (jwt.ts:203): whoever has a
\* refresh token that verifies gets new tokens for it.
RefreshRenews ==
    \A t \in Tokens : VerifyRefreshToken(t) => JwtSigns(RefreshPayload(t))

=============================================================================
