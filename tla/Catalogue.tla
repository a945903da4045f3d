----------------------------- MODULE Catalogue ------------------------------
(***************************************************************************)
(* api-gateway, trip-service and route-service: buses, routes and trips    *)
(* are created, and bookings held, by requests that pass the gateway.      *)
(*                                                                         *)
(* The gateway verifies the access token and forwards, with the token's    *)
(* user in a header.  Each creation validates, awaits a lookup, and        *)
(* inserts: a bus if nobody has its registration number, a route if nobody *)
(* has its name, a trip if its bus exists.  The number is unique in the    *)
(* database, the name is not.  A booking is inserted for the user in the   *)
(* header; whether its seat is free is BookingService's concern.  A row    *)
(* and the rows nested in it (the seats of a bus, the stops of a route)    *)
(* are inserted by one statement, and no operation deletes or changes      *)
(* them.  A row is named by the request that inserted it.                  *)
(***************************************************************************)
EXTENDS Accounts, Sequences, FiniteSets, Functions

CONSTANTS
    Requests,       \* POSTs to /api/buses, /routes, /trips and /bookings/hold
    Bodies,         \* what they may carry
    Days,           \* the dates that are searched, numbered from 0
    DayLength       \* instants in a day: the last one is 23:59:59.999

\* A body has the fields of its kind; complete says whether those that must not
\* be blank or unreadable are there.  No user has the id "none".
ASSUME CatalogueAssumption ==
    /\ "none" \notin Registrations
    /\ Days \subseteq Nat
    /\ DayLength \in Nat \ {0}
    /\ \A b \in Bodies :
          /\ b.kind \in {"bus", "route", "trip", "booking"}
          /\ b.complete \in BOOLEAN
          /\ b.kind = "bus" => b.seats \in Seq(STRING) /\ b.totalSeats \in Nat
          /\ b.kind = "trip" => b.departure \in Nat

VARIABLES
    body,       \* body[q]: the body of request q
    stored,     \* the requests whose row is in its table
    pc,         \* pc[q]: where the request is, or how it ended
    token,      \* token[q]: the token that the gateway accepted from q
    userHeader, \* userHeader[q]: x-user-id as the service receives it, or none
    acceptedAt, \* history: acceptedAt[q], when the gateway let q pass
    before      \* history: before[q], the rows that were there by then

gatewayVars == <<token, userHeader, acceptedAt, before>>
catalogueVars == <<body, stored, pc, gatewayVars>>
vars == <<accountVars, catalogueVars>>

NoToken == [tokenType |-> "none"]

\* forwarded: the gateway let it pass; inserting: the lookup found no obstacle.
Pc == {"idle", "forwarded", "inserting", "created",
       "unauthorized", "invalid", "conflict", "notFound", "error"}

\* The requests that the gateway let pass.
Passed == {q \in Requests : pc[q] \notin {"idle", "unauthorized"}}

TypeOK ==
    /\ AccountsTypeOK
    /\ body \in [Requests -> Bodies]
    /\ stored \subseteq Requests
    /\ pc \in [Requests -> Pc]
    /\ DOMAIN token = Requests
    /\ DOMAIN userHeader = Requests
    /\ acceptedAt \in [Requests -> Times]
    /\ before \in [Requests -> SUBSET stored]

Init ==
    /\ AccountsInit
    /\ body \in [Requests -> Bodies]
    /\ stored = {}
    /\ pc = [q \in Requests |-> "idle"]
    /\ token = [q \in Requests |-> NoToken]
    /\ userHeader = [q \in Requests |-> "none"]
    /\ acceptedAt = [q \in Requests |-> 0]
    /\ before = [q \in Requests |-> {}]

Goto(q, from, to) == pc[q] = from /\ pc' = [pc EXCEPT ![q] = to]

----------------------------------------------------------------------------
(* The gateway *)

\* authMiddleware lets a request pass.  Its bearer may have sent a token of
\* either kind; an x-user-id of the bearer's own is overwritten.
Forward(q) ==
    /\ Goto(q, "idle", "forwarded")
    /\ \E t \in Tokens :
          /\ VerifyAccessToken(t)
          /\ token' = [token EXCEPT ![q] = t]
          /\ userHeader' = [userHeader EXCEPT ![q] = t.id]
    /\ acceptedAt' = [acceptedAt EXCEPT ![q] = now]
    /\ before' = [before EXCEPT ![q] = stored]
    /\ UNCHANGED <<accountVars, body, stored>>

\* No token, or one that does not verify.
Unauthorized(q) ==
    /\ Goto(q, "idle", "unauthorized")
    /\ UNCHANGED <<accountVars, body, stored, gatewayVars>>

----------------------------------------------------------------------------
(* createBus, createRoute, createTrip *)

\* Mutant: the number of seats is not compared.
ValidBusOfAnySize(b) == b.totalSeats > 0 /\ IsInjective(b.seats)

\* As many seats as announced, at least one, no two with one number.
ValidBus(b) ==
    /\ b.totalSeats > 0
    /\ Len(b.seats) = b.totalSeats
    /\ IsInjective(b.seats)

ValidRoute(b) == Len(b.stops) >= 2

Valid(b) ==
    /\ b.complete
    /\ b.kind = "bus" => ValidBus(b)
    /\ b.kind = "route" => ValidRoute(b)

\* The service throws ValidationError.
Reject(q) ==
    /\ Goto(q, "forwarded", "invalid")
    /\ ~Valid(body[q])
    /\ UNCHANGED <<accountVars, body, stored, gatewayVars>>

Rows(kind) == {s \in stored : body[s].kind = kind}

\* The rows that findByRegistrationNumber and findByName choose from.
FindByRegistrationNumber(number) == {s \in Rows("bus") : body[s].number = number}

FindByName(name) == {s \in Rows("route") : body[s].name = name}

\* The service's lookup finds nothing in the way (answer included: nothing
\* later in the code depends on when it arrives).
CheckBus(q) ==
    /\ Goto(q, "forwarded", "inserting")
    /\ body[q].kind = "bus" /\ Valid(body[q])
    /\ FindByRegistrationNumber(body[q].number) = {}
    /\ UNCHANGED <<accountVars, body, stored, gatewayVars>>

\* Mutant: the name is not looked up.
CheckNoName(q) ==
    /\ Goto(q, "forwarded", "inserting")
    /\ body[q].kind = "route" /\ Valid(body[q])
    /\ UNCHANGED <<accountVars, body, stored, gatewayVars>>

CheckRoute(q) ==
    /\ Goto(q, "forwarded", "inserting")
    /\ body[q].kind = "route" /\ Valid(body[q])
    /\ FindByName(body[q].name) = {}
    /\ UNCHANGED <<accountVars, body, stored, gatewayVars>>

CheckTrip(q) ==
    /\ Goto(q, "forwarded", "inserting")
    /\ body[q].kind = "trip" /\ Valid(body[q])
    /\ body[q].bus \in Rows("bus")
    /\ UNCHANGED <<accountVars, body, stored, gatewayVars>>

\* createHold of the booking service finds the seat free.
CheckBooking(q) ==
    /\ Goto(q, "forwarded", "inserting")
    /\ body[q].kind = "booking" /\ Valid(body[q])
    /\ UNCHANGED <<accountVars, body, stored, gatewayVars>>

\* The lookup finds the number or the name: ConflictError.
RefuseTaken(q) ==
    /\ Goto(q, "forwarded", "conflict")
    /\ Valid(body[q])
    /\ \/ body[q].kind = "bus" /\ FindByRegistrationNumber(body[q].number) # {}
       \/ body[q].kind = "route" /\ FindByName(body[q].name) # {}
    /\ UNCHANGED <<accountVars, body, stored, gatewayVars>>

\* The lookup does not find the bus: NotFoundError.
RefuseBusless(q) ==
    /\ Goto(q, "forwarded", "notFound")
    /\ body[q].kind = "trip" /\ Valid(body[q])
    /\ body[q].bus \notin Rows("bus")
    /\ UNCHANGED <<accountVars, body, stored, gatewayVars>>

\* The row is inserted; the answer may be lost.
Insert(q) ==
    /\ \E to \in {"created", "error"} : Goto(q, "inserting", to)
    /\ stored' = stored \cup {q}
    /\ UNCHANGED <<accountVars, body, gatewayVars>>

\* Mutant: the column is not unique.
CreateBusAnyway(q) == body[q].kind = "bus" /\ Insert(q)

\* Mutant: a bus that is there already counts as created (an upsert).
UpsertBus(q) ==
    /\ body[q].kind = "bus"
    /\ Goto(q, "inserting", "created")
    /\ stored' = IF FindByRegistrationNumber(body[q].number) = {}
                 THEN stored \cup {q} ELSE stored
    /\ UNCHANGED <<accountVars, body, gatewayVars>>

\* The bus with all its seats, unless the unique index refuses.
CreateBusWithSeats(q) ==
    /\ body[q].kind = "bus"
    /\ FindByRegistrationNumber(body[q].number) = {}
    /\ Insert(q)

\* The route with its stops, numbered in the order given.  Nothing refuses.
CreateRouteWithStops(q) == body[q].kind = "route" /\ Insert(q)

\* The trip, connected to its bus; its routeId is not looked up anywhere.
CreateTrip(q) ==
    /\ body[q].kind = "trip"
    /\ body[q].bus \in Rows("bus")
    /\ Insert(q)

\* The booking, for the user of UserId.
CreateHold(q) == body[q].kind = "booking" /\ Insert(q)

\* An awaited call fails, the database refuses, the seat is taken, or a process
\* dies.
RequestFails(q) ==
    /\ \E from \in {"forwarded", "inserting"} : Goto(q, from, "error")
    /\ UNCHANGED <<accountVars, body, stored, gatewayVars>>

Finished ==
    /\ AccountsFinished
    /\ \A q \in Requests : pc[q] \notin {"idle", "forwarded", "inserting"}
    /\ UNCHANGED vars

Next ==
    \/ AccountsNext /\ UNCHANGED catalogueVars
    \/ \E q \in Requests :
          \/ Forward(q) \/ Unauthorized(q)
          \/ Reject(q)
          \/ CheckBus(q) \/ CheckRoute(q) \/ CheckTrip(q) \/ CheckBooking(q)
          \/ RefuseTaken(q) \/ RefuseBusless(q)
          \/ CreateBusWithSeats(q) \/ CreateRouteWithStops(q) \/ CreateTrip(q)
          \/ CreateHold(q)
          \/ RequestFails(q)
    \/ Finished

Spec == Init /\ [][Next]_vars

----------------------------------------------------------------------------
(* searchTrips, getBusLayout, getTripSeats *)

\* Mutant: the end of the day is excluded.
EndOfDayEarly(day) == day * DayLength + DayLength - 2

StartOfDay(day) == day * DayLength

EndOfDay(day) == day * DayLength + DayLength - 1

\* The trips of a route whose departureDate is from the start to the end of
\* the day, both included.
SearchTrips(route, day) ==
    {t \in Rows("trip") :
        /\ body[t].route = route
        /\ StartOfDay(day) <= body[t].departure
        /\ body[t].departure <= EndOfDay(day)}

BusLayout(s) == Range(body[s].seats)

\* Mutant: the body is asked before the header.
UserIdOfBody(q) == body[q].userId

\* The user a booking is inserted for: that of the header, if there is one.
UserId(q) == IF userHeader[q] # "none" THEN userHeader[q] ELSE body[q].userId

\* The seats of the trip's bus.
GetTripSeats(t) == BusLayout(body[t].bus)

----------------------------------------------------------------------------
(* Properties *)

\* Every row was inserted by a request that showed the gateway an unexpired
\* access token of a user who is in the database, no other kind of token, and a
\* booking is that user's, whatever the request said of itself
\* (auth.middleware.ts:31-41, jwt.ts:85-93, booking.controller.ts:61-64).
RowsAreAuthorized ==
    \A q \in stored :
        /\ token[q].tokenType = "access"
        /\ acceptedAt[q] < token[q].exp
        /\ token[q].id \in users
        /\ body[q].kind = "booking" => UserId(q) = token[q].id

\* A request that arrives after a route was created does not create another of
\* its name, so two of one name come from requests that overlapped, which no
\* index keeps apart (routeService.ts:31-36).
LaterRequestSeesName ==
    \A s, t \in Rows("route") :
        body[s].name = body[t].name => s \notin before[t]

\* Two requests that both found a registration number free do not both get a
\* bus (busService.ts:67-72, schema.prisma:33).
OneBusPerNumber ==
    \A s, t \in Rows("bus") : body[s].number = body[t].number => s = t

\* What a creation answers is true whatever happened between its lookup and
\* its insert: success means that the row is there, a conflict that another
\* request's row has the number or the name.
CreateAnswersTrue ==
    \A q \in Requests :
        /\ pc[q] = "created" => q \in stored
        /\ pc[q] = "conflict" =>
              /\ q \notin stored
              /\ \E s \in Rows(body[q].kind) :
                    \/ body[q].kind = "bus" /\ body[s].number = body[q].number
                    \/ body[q].kind = "route" /\ body[s].name = body[q].name

\* Every trip can be sold seat by seat: its bus is there, with as many seats as
\* the bus announces (busService.ts:43, tripService.ts:46, 97).
TripsHaveTheirSeats ==
    \A t \in Rows("trip") :
        /\ body[t].bus \in Rows("bus")
        /\ Cardinality(GetTripSeats(t)) = body[body[t].bus].totalSeats

\* A trip is found by searching for its route on the day on which it departs,
\* and on no other: no instant of a day belongs to none or to two
\* (tripService.ts:76-81, trip.repository.ts:66-73).
FoundOnItsDayOnly ==
    \A t \in Rows("trip"), day \in Days :
        t \in SearchTrips(body[t].route, day) <=>
            body[t].departure \div DayLength = day

=============================================================================
