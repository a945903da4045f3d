--------------------------- MODULE CatalogueProofs ---------------------------
(***************************************************************************)
(* Proofs about Catalogue (and the accounts in it) for any number of       *)
(* calls, any bodies, any configured durations and secrets.                *)
(***************************************************************************)
EXTENDS Catalogue, FiniteSetTheorems, TLAPS

----------------------------------------------------------------------------
(* The inductive invariant.  Its parts carry what a step read before an    *)
(* await to the step that uses it; they hold because rows are only added.  *)

\* A row is there only if its register call ended, and then for good.
UserInv ==
    \A r \in Registrations :
        /\ r \in users => regPc[r] \in {"created", "error"}
        /\ regPc[r] = "created" => r \in users
        /\ regPc[r] = "conflict" => \E u \in users : given[u].email = given[r].email

\* What a login in flight read is still there, and was read while active.
LoginInv ==
    \A l \in Logins :
        /\ readAt[l] <= now
        /\ loginPc[l] \in {"comparing", "loggedIn"} =>
              /\ seen[l] \in users
              /\ given[seen[l]].email = given[l].email
              /\ readAt[l] <= deactivatedAt[seen[l]]
        /\ loginPc[l] = "loggedIn" => given[seen[l]].password = given[l].password

AccountsInv == AccountsTypeOK /\ OneUserPerEmail /\ UserInv /\ LoginInv

\* Requests that are past the gateway were let pass.
GatewayInv ==
    \A q \in Passed :
        /\ token[q].tokenType = "access"
        /\ acceptedAt[q] < token[q].exp
        /\ token[q].id \in users
        /\ userHeader[q] = token[q].id

\* What a request's lookup found no obstacle in was there when it arrived.
NameInv ==
    \A q \in Requests :
        body[q].kind = "route" /\ (q \in stored \/ pc[q] = "inserting") =>
            \A s \in Rows("route") \cap before[q] : body[s].name # body[q].name

\* Rows of valid bodies, inserted by requests that got that far.
StoredInv ==
    \A q \in Requests :
        /\ q \in stored => pc[q] \in {"created", "error"}
        /\ pc[q] = "created" => q \in stored
        /\ q \in stored \/ pc[q] = "inserting" => Valid(body[q])

\* The bus of a trip was found before the trip was inserted.
TripInv ==
    \A q \in Requests :
        q \in stored /\ body[q].kind = "trip" => body[q].bus \in Rows("bus")

\* A refusal names its reason.
ConflictInv ==
    \A q \in Requests : pc[q] = "conflict" =>
        \E s \in Rows(body[q].kind) :
            \/ body[q].kind = "bus" /\ body[s].number = body[q].number
            \/ body[q].kind = "route" /\ body[s].name = body[q].name

CatalogueInv ==
    /\ TypeOK /\ AccountsInv
    /\ GatewayInv /\ StoredInv /\ TripInv /\ NameInv /\ ConflictInv
    /\ OneBusPerNumber

----------------------------------------------------------------------------
(* Accounts *)

LEMMA AccountsInitially == AccountsInit => AccountsInv
  <1> SUFFICES ASSUME AccountsInit PROVE AccountsInv
    OBVIOUS
  <1> USE AccountsAssumption DEF AccountsInit, Times, Never
  <1>1. AccountsTypeOK
    BY DEF AccountsTypeOK, RegPc, LoginPc, Calls
  <1>2. OneUserPerEmail /\ UserInv
    BY DEF OneUserPerEmail, UserInv
  <1>3. LoginInv
    BY DEF LoginInv
  <1> QED
    BY <1>1, <1>2, <1>3 DEF AccountsInv

\* Every step of the accounts keeps their invariant, and loses no user.
LEMMA AccountsPreserved ==
    ASSUME AccountsInv, AccountsNext
    PROVE  AccountsInv' /\ users \subseteq users' /\ given' = given
  <1> USE AccountsAssumption DEF AccountsInv, Times, Never
  <1>1. CASE Tick
    <2>1. AccountsTypeOK'
      BY <1>1 DEF Tick, registerVars, loginVars, AccountsTypeOK
    <2>2. LoginInv'
      BY <1>1 DEF Tick, registerVars, loginVars, AccountsTypeOK, LoginInv
    <2> QED
      BY <1>1, <2>1, <2>2 DEF Tick, registerVars, loginVars, OneUserPerEmail, UserInv
  <1>2. ASSUME NEW u \in Registrations, Deactivate(u)
        PROVE  AccountsInv' /\ users \subseteq users' /\ given' = given
    <2>1. AccountsTypeOK'
      BY <1>2 DEF Deactivate, registerVars, loginVars, AccountsTypeOK
    <2>2. LoginInv'
      BY <1>2 DEF Deactivate, registerVars, loginVars, AccountsTypeOK, LoginInv
    <2> QED
      BY <1>2, <2>1, <2>2 DEF Deactivate, registerVars, loginVars, OneUserPerEmail, UserInv
  <1>3. ASSUME NEW r \in Registrations,
               CheckEmail(r) \/ RefuseEmail(r) \/ RegisterFails(r)
        PROVE  AccountsInv' /\ users \subseteq users' /\ given' = given
    <2> USE <1>3 DEF CheckEmail, RefuseEmail, RegisterFails, RegisterGoto, loginVars
    <2>1. AccountsTypeOK'
      BY DEF AccountsTypeOK, RegPc
    <2>2. UserInv'
      BY DEF AccountsTypeOK, RegPc, UserInv, FindByEmail
    <2>3. OneUserPerEmail' /\ LoginInv'
      BY DEF OneUserPerEmail, LoginInv
    <2> QED
      BY <2>1, <2>2, <2>3
  <1>4. ASSUME NEW r \in Registrations, InsertUser(r)
        PROVE  AccountsInv' /\ users \subseteq users' /\ given' = given
    <2> USE <1>4 DEF InsertUser, RegisterGoto, loginVars
    <2>1. AccountsTypeOK'
      BY DEF AccountsTypeOK, RegPc
    <2>2. UserInv'
      BY DEF AccountsTypeOK, RegPc, UserInv
    <2>3. OneUserPerEmail'
      BY DEF OneUserPerEmail, FindByEmail
    <2>4. LoginInv'
      BY DEF LoginInv
    <2> QED
      BY <2>1, <2>2, <2>3, <2>4
  <1>5. ASSUME NEW l \in Logins,
               \/ FindUser(l) \/ RefuseUser(l)
               \/ GenerateTokens(l) \/ RefusePassword(l) \/ LoginFails(l)
        PROVE  AccountsInv' /\ users \subseteq users' /\ given' = given
    <2>1. CASE FindUser(l)
      <3> USE <2>1 DEF FindUser, LoginGoto, registerVars
      <3>1. AccountsTypeOK'
        BY DEF AccountsTypeOK, LoginPc, FindByEmail
      <3>2. LoginInv'
        BY DEF AccountsTypeOK, LoginPc, LoginInv, FindByEmail, IsActive
      <3> QED
        BY <3>1, <3>2 DEF OneUserPerEmail, UserInv
    <2>2. CASE GenerateTokens(l)
      <3> USE <2>2 DEF GenerateTokens, LoginGoto, registerVars
      <3>1. AccountsTypeOK'
        BY DEF AccountsTypeOK, LoginPc
      <3>2. LoginInv'
        BY DEF AccountsTypeOK, LoginPc, LoginInv, PasswordMatches
      <3> QED
        BY <3>1, <3>2 DEF OneUserPerEmail, UserInv
    <2>3. CASE RefuseUser(l) \/ RefusePassword(l) \/ LoginFails(l)
      <3> USE <2>3 DEF RefuseUser, RefusePassword, LoginFails, LoginGoto, registerVars
      <3>1. AccountsTypeOK'
        BY DEF AccountsTypeOK, LoginPc
      <3>2. LoginInv'
        BY DEF AccountsTypeOK, LoginPc, LoginInv
      <3> QED
        BY <3>1, <3>2 DEF OneUserPerEmail, UserInv
    <2> QED
      BY <1>5, <2>1, <2>2, <2>3
  <1> QED
    BY <1>1, <1>2, <1>3, <1>4, <1>5 DEF AccountsNext

----------------------------------------------------------------------------
(* Requests *)

LEMMA InitEstablishes == Init => CatalogueInv
  <1> SUFFICES ASSUME Init PROVE CatalogueInv
    OBVIOUS
  <1>1. AccountsInv
    BY AccountsInitially DEF Init
  <1>2. TypeOK
    BY <1>1, AccountsAssumption DEF Init, TypeOK, AccountsInv, Pc, Times
  <1>3. /\ GatewayInv /\ StoredInv /\ TripInv /\ NameInv /\ ConflictInv
        /\ OneBusPerNumber
    BY DEF Init, GatewayInv, Passed, StoredInv, TripInv, NameInv, ConflictInv,
           OneBusPerNumber, Rows
  <1> QED
    BY <1>1, <1>2, <1>3 DEF CatalogueInv

\* Steps of the accounts leave the requests alone.
LEMMA AccountSteps ==
    ASSUME CatalogueInv, AccountsNext, UNCHANGED catalogueVars
    PROVE  CatalogueInv'
  <1>1. AccountsInv' /\ users \subseteq users'
    BY AccountsPreserved DEF CatalogueInv
  <1>2. TypeOK'
    BY <1>1 DEF CatalogueInv, TypeOK, AccountsInv, catalogueVars, gatewayVars
  <1>3. GatewayInv'
    BY <1>1 DEF CatalogueInv, GatewayInv, Passed, catalogueVars, gatewayVars
  <1>4. (StoredInv /\ TripInv /\ NameInv /\ ConflictInv /\ OneBusPerNumber)'
    BY DEF CatalogueInv, StoredInv, TripInv, NameInv, ConflictInv, OneBusPerNumber,
           Rows, Valid, ValidBus, ValidRoute, catalogueVars, gatewayVars
  <1> QED
    BY <1>1, <1>2, <1>3, <1>4 DEF CatalogueInv

\* So do the steps of a request with the accounts.
LEMMA AccountsAside ==
    ASSUME AccountsInv, UNCHANGED accountVars
    PROVE  AccountsInv'
  BY DEF AccountsInv, AccountsTypeOK, OneUserPerEmail, UserInv, LoginInv, accountVars

\* At the gateway: whatever token verifies is an access token of a user.
LEMMA GatewaySteps ==
    ASSUME CatalogueInv, NEW q \in Requests, Forward(q) \/ Unauthorized(q)
    PROVE  CatalogueInv'
  <1> USE DEF CatalogueInv, gatewayVars
  <1>1. AccountsInv'
    BY AccountsAside DEF Forward, Unauthorized
  <1>2. TypeOK'
    BY <1>1 DEF TypeOK, AccountsInv, AccountsTypeOK, Forward, Unauthorized, Goto, Pc,
                accountVars, Times
  <1>3. GatewayInv'
    <2>1. CASE Forward(q)
      <3>1. PICK t \in Tokens : /\ VerifyAccessToken(t)
                                /\ token' = [token EXCEPT ![q] = t]
                                /\ userHeader' = [userHeader EXCEPT ![q] = t.id]
        BY <2>1 DEF Forward
      <3>2. t.tokenType = "access" /\ now < t.exp
        BY <3>1 DEF VerifyAccessToken, JwtVerify
      <3>3. t.id \in users
        BY DEF Tokens, LoggedIn, AccessToken, RefreshToken, AccountsInv, LoginInv
      <3> QED
        BY <2>1, <3>1, <3>2, <3>3
           DEF GatewayInv, Passed, Forward, Goto, TypeOK, accountVars
    <2>2. CASE Unauthorized(q)
      BY <2>2 DEF GatewayInv, Passed, Unauthorized, Goto, TypeOK, accountVars
    <2> QED
      BY <2>1, <2>2
  <1>4. StoredInv'
    BY DEF StoredInv, TypeOK, Forward, Unauthorized, Goto, Valid, ValidBus, ValidRoute
  <1>5. (TripInv /\ ConflictInv /\ OneBusPerNumber)'
    BY DEF TripInv, ConflictInv, OneBusPerNumber, Rows, TypeOK, Forward, Unauthorized, Goto
  <1>6. NameInv'
    BY DEF NameInv, StoredInv, Rows, TypeOK, Forward, Unauthorized, Goto
  <1> QED
    BY <1>1, <1>2, <1>3, <1>4, <1>5, <1>6

\* Validation, lookups and failures write nothing.
LEMMA CheckSteps ==
    ASSUME CatalogueInv, NEW q \in Requests,
           \/ Reject(q)
           \/ CheckBus(q) \/ CheckRoute(q) \/ CheckTrip(q) \/ CheckBooking(q)
           \/ RefuseTaken(q) \/ RefuseBusless(q) \/ RequestFails(q)
    PROVE  CatalogueInv'
  <1> USE DEF CatalogueInv, Reject, CheckBus, CheckRoute, CheckTrip, CheckBooking,
              RefuseTaken, RefuseBusless, RequestFails, Goto, gatewayVars
  <1>1. AccountsInv'
    BY AccountsAside
  <1>2. TypeOK'
    BY <1>1 DEF TypeOK, AccountsInv, Pc, accountVars, Times
  <1>3. GatewayInv'
    BY DEF GatewayInv, Passed, TypeOK, accountVars
  <1>4. StoredInv'
    BY DEF StoredInv, TypeOK, Valid, ValidBus, ValidRoute
  <1>5. ConflictInv'
    BY DEF ConflictInv, TypeOK, Rows, FindByRegistrationNumber, FindByName
  <1>6. (TripInv /\ OneBusPerNumber)'
    BY DEF TripInv, OneBusPerNumber, Rows
  <1>7. NameInv'
    BY DEF NameInv, TypeOK, Rows, FindByName
  <1> QED
    BY <1>1, <1>2, <1>3, <1>4, <1>5, <1>6, <1>7

\* The inserts.
LEMMA InsertSteps ==
    ASSUME CatalogueInv, NEW q \in Requests,
           \/ CreateBusWithSeats(q) \/ CreateRouteWithStops(q) \/ CreateTrip(q)
           \/ CreateHold(q)
    PROVE  CatalogueInv'
  <1> USE DEF CatalogueInv, gatewayVars
  <1>0. Insert(q)
    BY DEF CreateBusWithSeats, CreateRouteWithStops, CreateTrip, CreateHold
  <1>1. AccountsInv'
    BY <1>0, AccountsAside DEF Insert
  <1>2. TypeOK'
    BY <1>0, <1>1 DEF Insert, Goto, TypeOK, AccountsInv, Pc, accountVars, Times
  <1>3. GatewayInv'
    BY <1>0 DEF Insert, Goto, GatewayInv, Passed, TypeOK, accountVars
  <1>4. StoredInv'
    BY <1>0 DEF Insert, Goto, StoredInv, TypeOK, Valid, ValidBus, ValidRoute
  <1>5. ConflictInv'
    BY <1>0 DEF Insert, Goto, ConflictInv, TypeOK, Rows
  <1>6. TripInv'
    BY <1>0 DEF Insert, TripInv, TypeOK, Rows,
                CreateBusWithSeats, CreateRouteWithStops, CreateTrip, CreateHold
  <1>7. OneBusPerNumber'
    BY <1>0 DEF Insert, OneBusPerNumber, TypeOK, Rows, FindByRegistrationNumber,
                CreateBusWithSeats, CreateRouteWithStops, CreateTrip, CreateHold
  <1>8. NameInv'
    BY <1>0 DEF Insert, Goto, NameInv, TypeOK, Rows
  <1> QED
    BY <1>1, <1>2, <1>3, <1>4, <1>5, <1>6, <1>7, <1>8

LEMMA NextPreserves == CatalogueInv /\ [Next]_vars => CatalogueInv'
  <1> SUFFICES ASSUME CatalogueInv, [Next]_vars PROVE CatalogueInv'
    OBVIOUS
  <1>1. CASE AccountsNext /\ UNCHANGED catalogueVars
    BY <1>1, AccountSteps
  <1>2. ASSUME NEW q \in Requests,
               \/ Forward(q) \/ Unauthorized(q)
               \/ Reject(q)
               \/ CheckBus(q) \/ CheckRoute(q) \/ CheckTrip(q) \/ CheckBooking(q)
               \/ RefuseTaken(q) \/ RefuseBusless(q)
               \/ CreateBusWithSeats(q) \/ CreateRouteWithStops(q) \/ CreateTrip(q)
               \/ CreateHold(q)
               \/ RequestFails(q)
        PROVE  CatalogueInv'
    BY <1>2, GatewaySteps, CheckSteps, InsertSteps
  <1>3. CASE UNCHANGED vars
    <2>1. AccountsInv'
      BY <1>3, AccountsAside DEF vars, CatalogueInv
    <2>2. (TypeOK /\ GatewayInv)'
      BY <1>3, <2>1 DEF vars, catalogueVars, gatewayVars, accountVars, CatalogueInv, TypeOK,
                        AccountsInv, GatewayInv, Passed
    <2>3. (StoredInv /\ TripInv /\ NameInv /\ ConflictInv /\ OneBusPerNumber)'
      BY <1>3 DEF vars, catalogueVars, gatewayVars, CatalogueInv, StoredInv, TripInv,
                  NameInv, ConflictInv, OneBusPerNumber, Rows, Valid, ValidBus, ValidRoute
    <2> QED
      BY <2>1, <2>2, <2>3 DEF CatalogueInv
  <1> QED
    BY <1>1, <1>2, <1>3 DEF Next, Finished

\* The invariant holds in every reachable state.
THEOREM CatalogueInvHolds == Spec => []CatalogueInv
  BY InitEstablishes, NextPreserves, PTL DEF Spec

----------------------------------------------------------------------------
(* What follows from it *)

\* All variables keep their types.
THEOREM TypeCorrect == Spec => []TypeOK
  <1>1. CatalogueInv => TypeOK
    BY DEF CatalogueInv
  <1> QED
    BY <1>1, CatalogueInvHolds, PTL

\* However registrations race: one user per email.
THEOREM RegistrationsAreSafe == Spec => []OneUserPerEmail
  <1>1. CatalogueInv => OneUserPerEmail
    BY DEF CatalogueInv, AccountsInv
  <1> QED
    BY <1>1, CatalogueInvHolds, PTL

\* And what a registration answers is true for good.
THEOREM RegistrationsAreAnswered == Spec => []RegisterAnswersTrue
  <1>1. CatalogueInv => RegisterAnswersTrue
    BY DEF CatalogueInv, AccountsInv, AccountsTypeOK, UserInv, RegisterAnswersTrue,
           FindByEmail
  <1> QED
    BY <1>1, CatalogueInvHolds, PTL

\* Whoever is logged in gave the credentials of the account.
THEOREM LoginsAreSafe == Spec => []SessionsAreOwned
  <1>1. ASSUME CatalogueInv, NEW l \in LoggedIn
        PROVE  seen[l] \in users /\ given[l] = given[seen[l]]
    <2>1. /\ seen[l] \in users
          /\ given[seen[l]].email = given[l].email
          /\ given[seen[l]].password = given[l].password
      BY <1>1 DEF CatalogueInv, AccountsInv, LoginInv, LoggedIn
    <2>2. /\ given[l] \in [email : Emails, password : Passwords]
          /\ given[seen[l]] \in [email : Emails, password : Passwords]
      BY <1>1, <2>1 DEF CatalogueInv, AccountsInv, AccountsTypeOK, LoggedIn, Calls
    <2> QED
      BY <2>1, <2>2
  <1>2. CatalogueInv => SessionsAreOwned
    BY <1>1 DEF SessionsAreOwned
  <1> QED
    BY <1>2, CatalogueInvHolds, PTL

\* The account was active when its row was read.
THEOREM DeactivationIsSeen == Spec => []NoLoginAfterDeactivation
  <1>1. CatalogueInv => NoLoginAfterDeactivation
    BY DEF CatalogueInv, AccountsInv, LoginInv, LoggedIn, NoLoginAfterDeactivation
  <1> QED
    BY <1>1, CatalogueInvHolds, PTL

\* No row without a verified access token, even if both kinds of token are
\* signed with the same secret, and no booking for anyone but its user.
THEOREM OnlyAuthorizedRows == Spec => []RowsAreAuthorized
  <1>1. CatalogueInv => RowsAreAuthorized
    BY CatalogueAssumption DEF CatalogueInv, TypeOK, AccountsTypeOK, GatewayInv, StoredInv,
       Passed, RowsAreAuthorized, UserId
  <1> QED
    BY <1>1, CatalogueInvHolds, PTL

\* However creations race: one bus per registration number.
THEOREM BusesAreUnique == Spec => []OneBusPerNumber
  <1>1. CatalogueInv => OneBusPerNumber
    BY DEF CatalogueInv
  <1> QED
    BY <1>1, CatalogueInvHolds, PTL

\* A name that was taken when a request arrived is not given to its route.
THEOREM NamesAreSeen == Spec => []LaterRequestSeesName
  <1>1. CatalogueInv => LaterRequestSeesName
    BY DEF CatalogueInv, TypeOK, NameInv, LaterRequestSeesName, Rows
  <1> QED
    BY <1>1, CatalogueInvHolds, PTL

\* And what a creation answers is true for good.
THEOREM CreationsAreAnswered == Spec => []CreateAnswersTrue
  <1>1. CatalogueInv => CreateAnswersTrue
    BY DEF CatalogueInv, StoredInv, ConflictInv, CreateAnswersTrue
  <1> QED
    BY <1>1, CatalogueInvHolds, PTL

\* A list without repetitions has as many elements as it has places.
LEMMA DistinctSeats ==
    ASSUME NEW S, NEW s \in Seq(S), IsInjective(s)
    PROVE  Cardinality(Range(s)) = Len(s)
  <1>1. s \in Bijection(1 .. Len(s), Range(s))
    BY DEF Range, IsInjective, Bijection, Injection, Surjection
  <1>2. ExistsBijection(1 .. Len(s), Range(s))
    BY <1>1 DEF ExistsBijection
  <1>3. Len(s) \in Nat
    OBVIOUS
  <1>4. IsFiniteSet(1 .. Len(s)) /\ Cardinality(1 .. Len(s)) = Len(s)
    BY <1>3, FS_Interval
  <1> QED
    BY <1>2, <1>4, FS_Bijection

\* Every trip's bus is there with as many different seats as it announces.
THEOREM TripsAreSellable == Spec => []TripsHaveTheirSeats
  <1>1. ASSUME CatalogueInv, NEW t \in Rows("trip")
        PROVE  /\ body[t].bus \in Rows("bus")
               /\ Cardinality(GetTripSeats(t)) = body[body[t].bus].totalSeats
    <2> DEFINE b == body[body[t].bus]
    <2>1. body[t].bus \in Rows("bus")
      BY <1>1 DEF CatalogueInv, TypeOK, TripInv, Rows
    <2>2. b \in Bodies /\ b.kind = "bus" /\ Valid(b)
      BY <1>1, <2>1 DEF CatalogueInv, TypeOK, StoredInv, Rows
    <2>3. b.seats \in Seq(STRING) /\ IsInjective(b.seats) /\ Len(b.seats) = b.totalSeats
      BY <2>2, CatalogueAssumption DEF Valid, ValidBus
    <2>4. Cardinality(Range(b.seats)) = Len(b.seats)
      BY <2>3, DistinctSeats
    <2> QED
      BY <2>1, <2>3, <2>4 DEF GetTripSeats, BusLayout
  <1>2. CatalogueInv => TripsHaveTheirSeats
    BY <1>1 DEF TripsHaveTheirSeats
  <1> QED
    BY <1>2, CatalogueInvHolds, PTL

\* The days divide the time line: an instant is in the range of one day only.
LEMMA DayOfInstant ==
    ASSUME NEW x \in Nat, NEW d \in Nat
    PROVE  StartOfDay(d) <= x /\ x <= EndOfDay(d) <=> x \div DayLength = d
  <1> DEFINE L == DayLength
             e == x \div L
             m == x % L
  <1>1. L \in Nat /\ L > 0
    BY CatalogueAssumption
  <1>2. e \in Nat /\ m \in Nat /\ m < L /\ x = L * e + m
    BY <1>1
  <1>3. CASE d = e
    BY <1>1, <1>2, <1>3 DEF StartOfDay, EndOfDay
  <1>4. CASE d < e
    <2>1. L * (d + 1) <= L * e
      BY <1>1, <1>2, <1>4
    <2> QED
      BY <1>1, <1>2, <1>4, <2>1 DEF StartOfDay, EndOfDay
  <1>5. CASE d > e
    <2>1. L * (e + 1) <= L * d
      BY <1>1, <1>2, <1>5
    <2> QED
      BY <1>1, <1>2, <1>5, <2>1 DEF StartOfDay, EndOfDay
  <1> QED
    BY <1>2, <1>3, <1>4, <1>5

\* Searching finds a trip on the day of its departure only.
THEOREM SearchIsExact == Spec => []FoundOnItsDayOnly
  <1>1. ASSUME CatalogueInv, NEW t \in Rows("trip"), NEW day \in Days
        PROVE  t \in SearchTrips(body[t].route, day) <=>
                   body[t].departure \div DayLength = day
    <2>1. body[t].departure \in Nat /\ day \in Nat
      BY <1>1, CatalogueAssumption DEF CatalogueInv, TypeOK, Rows
    <2>2. t \in SearchTrips(body[t].route, day) <=>
              StartOfDay(day) <= body[t].departure /\ body[t].departure <= EndOfDay(day)
      BY <1>1 DEF SearchTrips
    <2> QED
      BY <2>1, <2>2, DayOfInstant
  <1>2. CatalogueInv => FoundOnItsDayOnly
    BY <1>1 DEF FoundOnItsDayOnly
  <1> QED
    BY <1>2, CatalogueInvHolds, PTL

=============================================================================
