--------------------------- MODULE BookingService ---------------------------
(***************************************************************************)
(* booking-service: holds on a seat's segments and what becomes of them.   *)
(*                                                                         *)
(* A createHold call takes the seat's lock, asks the database for the      *)
(* seat's active bookings, inserts a PENDING row when none conflicts and   *)
(* releases the lock.  Every await is a step boundary: the effect of the   *)
(* call on Redis or the database is one step, the code that runs on its    *)
(* answer another.  A call names the row it inserts.  Confirm calls read   *)
(* a row, decide, and write its status unconditionally; a release writes   *)
(* FAILED or CANCELLED whatever the row's status is.  Awaited calls may    *)
(* fail before or after their effect, and a process may die at any await.  *)
(***************************************************************************)
EXTENDS SeatLock, SegmentAvailability

CONSTANTS
    Confirms,       \* confirmBooking calls
    Releases,       \* releaseBooking calls
    Segments,       \* the segments requested, valid or not
    HoldDuration    \* env.HOLD_DURATION_MINUTES in clock units

ASSUME BookingAssumption ==
    /\ Segments \subseteq Nat \X Nat
    /\ HoldDuration \in Nat

VARIABLES
    seat,           \* seat[c]: the seat call c asks for
    seg,            \* seg[c]: the segment it asks for
    pc,             \* pc[c]: where the createHold call is
    queryTime,      \* queryTime[c]: `now` of findActiveBookingsForSeat
    refused,        \* the createHold calls that told the caller "no"
    status,         \* status[c]: status column of the row c inserts
    holdExpiresAt,  \* holdExpiresAt[c]: its deadline (first in memory only)
    confirmPc,      \* confirmPc[k]: where the confirmBooking call is
    target,         \* target[k]: the row it confirms
    released,       \* the releaseBooking calls already made
    stale,          \* history: rows confirmed while they did not block
    unlocked        \* history: rows inserted after the lock had lapsed

request     == <<seat, seg>>
callVars    == <<request, pc, queryTime, refused>>
rowVars     == <<status, holdExpiresAt>>
confirmVars == <<confirmPc, target>>
historyVars == <<stale, unlocked>>
otherVars   == <<confirmVars, released, historyVars>>
vars == <<now, lock, lockUntil, seat, seg, pc, queryTime, refused,
          status, holdExpiresAt, confirmPc, target, released, stale, unlocked>>

RowStatus == Status \cup {"ABSENT"}

\* locked, available, releasing: an answer is on its way to the process;
\* querying, inserting: a request is on its way to the database; over: the
\* call was answered, or its process died.
InFlight == {"locked", "querying", "available", "inserting", "releasing"}

CallPc == InFlight \cup {"idle", "over"}

ConfirmInFlight == {"read", "confirming", "expiring"}

ConfirmPc == ConfirmInFlight \cup {"idle", "over"}

TypeOK ==
    /\ LockTypeOK
    /\ seat \in [Calls -> Seats]
    /\ seg \in [Calls -> Segments]
    /\ pc \in [Calls -> CallPc]
    /\ queryTime \in [Calls -> Nat]
    /\ refused \in SUBSET Calls
    /\ status \in [Calls -> RowStatus]
    /\ holdExpiresAt \in [Calls -> Nat]
    /\ confirmPc \in [Confirms -> ConfirmPc]
    /\ target \in [Confirms -> Calls \cup {NoCall}]
    /\ \A k \in Confirms : confirmPc[k] \in ConfirmInFlight => target[k] \in Calls
    /\ released \in SUBSET Releases
    /\ stale \in SUBSET Calls
    /\ unlocked \in SUBSET Calls

Init ==
    /\ LockInit
    /\ seat \in [Calls -> Seats]
    /\ seg \in [Calls -> Segments]
    /\ pc = [c \in Calls |-> "idle"]
    /\ queryTime = [c \in Calls |-> 0]
    /\ refused = {}
    /\ status = [c \in Calls |-> "ABSENT"]
    /\ holdExpiresAt = [c \in Calls |-> 0]
    /\ confirmPc = [k \in Confirms |-> "idle"]
    /\ target = [k \in Confirms |-> NoCall]
    /\ released = {}
    /\ stale = {}
    /\ unlocked = {}

\* The call moves on from pc `from` to `to`.
Goto(c, from, to) == pc[c] = from /\ pc' = [pc EXCEPT ![c] = to]

Present(b) == status[b] # "ABSENT"

\* The rows findActiveBookingsForSeat selects, given its `now`.
ActiveAt(b, t) ==
    \/ status[b] = "CONFIRMED"
    \/ status[b] = "PENDING" /\ holdExpiresAt[b] > t

\* Mutant: the query asks for confirmed bookings only.
ConfirmedBookings(s, t) == {b \in Calls : seat[b] = s /\ status[b] = "CONFIRMED"}

ActiveBookings(s, t) == {b \in Calls : seat[b] = s /\ ActiveAt(b, t)}

Row(b) == [seg |-> seg[b], status |-> status[b]]

----------------------------------------------------------------------------
(* createHold *)

\* Redis sets the key; the answer OK is on its way.
AcquireLock(c) ==
    /\ Goto(c, "idle", "locked")
    /\ SetNX(c, seat[c])
    /\ UNCHANGED <<now, request, queryTime, refused, rowVars, otherVars>>

\* The key is held by another call: ConflictError, nothing to release.
LockRefused(c) ==
    /\ ~Free(seat[c])
    /\ Goto(c, "idle", "over")
    /\ refused' = refused \cup {c}
    /\ UNCHANGED <<now, lockVars, request, queryTime, rowVars, otherVars>>

\* The SET fails before it reaches Redis: the error leaves createHold ahead of
\* its try block.
LockCallFails(c) ==
    /\ Goto(c, "idle", "over")
    /\ UNCHANGED <<now, lockVars, request, queryTime, refused, rowVars,
                   otherVars>>

\* Redis sets the key but its answer is lost: the call ends in an error, or,
\* when the client sends the SET again, is refused because of its own lock.
\* Nobody releases that lock.
LockReplyLost(c) ==
    /\ Goto(c, "idle", "over")
    /\ SetNX(c, seat[c])
    /\ refused' \in {refused, refused \cup {c}}
    /\ UNCHANGED <<now, request, queryTime, rowVars, otherVars>>

\* checkAvailability rejects the segment; finally releases the lock.
RejectSegment(c) ==
    /\ ~ValidSegment(seg[c])
    /\ Goto(c, "locked", "releasing")
    /\ refused' = refused \cup {c}
    /\ UNCHANGED <<now, lockVars, request, queryTime, rowVars, otherVars>>

\* checkAvailability sends the query, with the time at which it does so.
StartCheck(c) ==
    /\ ValidSegment(seg[c])
    /\ Goto(c, "locked", "querying")
    /\ queryTime' = [queryTime EXCEPT ![c] = now]
    /\ UNCHANGED <<now, lockVars, request, refused, rowVars, otherVars>>

Conflict(c) ==
    HasSegmentConflict({Row(b) : b \in ActiveBookings(seat[c], queryTime[c])},
                       seg[c])

\* The database answers the query; the overlap rule runs on its rows.
FindAvailable(c) ==
    /\ ~Conflict(c)
    /\ Goto(c, "querying", "available")
    /\ UNCHANGED <<now, lockVars, request, queryTime, refused, rowVars,
                   otherVars>>

\* Mutant: the conflict is reported but the insert still happens.
FindConflictNoThrow(c) ==
    /\ Conflict(c)
    /\ Goto(c, "querying", "available")
    /\ refused' = refused \cup {c}
    /\ UNCHANGED <<now, lockVars, request, queryTime, rowVars, otherVars>>

\* Mutant: a conflict is retried in place, with the lock held.
FindConflictRetry(c) ==
    /\ Conflict(c)
    /\ Goto(c, "querying", "locked")
    /\ UNCHANGED <<now, lockVars, request, queryTime, refused, rowVars,
                   otherVars>>

FindConflict(c) ==
    /\ Conflict(c)
    /\ Goto(c, "querying", "releasing")
    /\ refused' = refused \cup {c}
    /\ UNCHANGED <<now, lockVars, request, queryTime, rowVars, otherVars>>

\* Mutant: the hold's length is subtracted.
PrepareHoldBackwards(c) ==
    /\ Goto(c, "available", "inserting")
    /\ holdExpiresAt' = [holdExpiresAt EXCEPT ![c] = now - HoldDuration]
    /\ UNCHANGED <<now, lockVars, request, queryTime, refused, status,
                   otherVars>>

\* holdExpiresAt is computed when the answer arrives and the insert is sent.
PrepareHold(c) ==
    /\ Goto(c, "available", "inserting")
    /\ holdExpiresAt' = [holdExpiresAt EXCEPT ![c] = now + HoldDuration]
    /\ UNCHANGED <<now, lockVars, request, queryTime, refused, status,
                   otherVars>>

\* The database inserts the row.  Its answer, or only an error, reaches
\* createHold, which goes on to finally in both cases.
CreateBooking(c) ==
    /\ Goto(c, "inserting", "releasing")
    /\ status' = [status EXCEPT ![c] = "PENDING"]
    /\ unlocked' = IF Holds(c, seat[c]) THEN unlocked ELSE unlocked \cup {c}
    /\ UNCHANGED <<now, lockVars, request, queryTime, refused,
                   holdExpiresAt, confirmVars, released, stale>>

\* The query or the insert fails without effect.
DbCallFails(c) ==
    /\ \E p \in {"querying", "inserting"} : Goto(c, p, "releasing")
    /\ UNCHANGED <<now, lockVars, request, queryTime, refused, rowVars,
                   otherVars>>

\* finally: releaseLock, which swallows its own errors.
ReleaseLock(c) ==
    /\ Goto(c, "releasing", "over")
    /\ CheckAndDelete(c, seat[c])
    /\ UNCHANGED <<now, request, queryTime, refused, rowVars, otherVars>>

ReleaseLockFails(c) ==
    /\ Goto(c, "releasing", "over")
    /\ UNCHANGED <<now, lockVars, request, queryTime, refused, rowVars,
                   otherVars>>

----------------------------------------------------------------------------
(* confirmBooking *)

ConfirmGoto(k, from, to) ==
    confirmPc[k] = from /\ confirmPc' = [confirmPc EXCEPT ![k] = to]

\* findById finds a PENDING row; the answer is on its way.
ReadForConfirm(k, b) ==
    /\ status[b] = "PENDING"
    /\ ConfirmGoto(k, "idle", "read")
    /\ target' = [target EXCEPT ![k] = b]
    /\ UNCHANGED <<now, lockVars, callVars, rowVars, released, historyVars>>

\* findById finds nothing (NotFoundError) or a row of another status
\* (ConflictError): neither answer depends on anything read later.
RefuseConfirm(k, b) ==
    /\ status[b] # "PENDING"
    /\ ConfirmGoto(k, "idle", "over")
    /\ UNCHANGED <<now, lockVars, callVars, rowVars, target, released,
                   historyVars>>

\* Mutant: the age of the hold is not looked at.
ExpireAnyHold(k) ==
    /\ ConfirmGoto(k, "read", "expiring")
    /\ UNCHANGED <<now, lockVars, callVars, rowVars, target, released,
                   historyVars>>

\* holdExpiresAt.getTime() < Date.now(): the update to EXPIRED is sent.
DecideExpire(k) ==
    /\ ConfirmGoto(k, "read", "expiring")
    /\ holdExpiresAt[target[k]] < now
    /\ UNCHANGED <<now, lockVars, callVars, rowVars, target, released,
                   historyVars>>

\* The hold is in time: the update to CONFIRMED is sent.
DecideConfirm(k) ==
    /\ ConfirmGoto(k, "read", "confirming")
    /\ holdExpiresAt[target[k]] >= now
    /\ UNCHANGED <<now, lockVars, callVars, rowVars, target, released,
                   historyVars>>

\* updateStatus(id, EXPIRED), whatever the row holds by now.
WriteExpired(k) ==
    /\ ConfirmGoto(k, "expiring", "over")
    /\ status' = [status EXCEPT ![target[k]] = "EXPIRED"]
    /\ UNCHANGED <<now, lockVars, callVars, holdExpiresAt, target, released,
                   historyVars>>

\* updateStatus(id, CONFIRMED), whatever the row holds by now.
WriteConfirmed(k) ==
    /\ ConfirmGoto(k, "confirming", "over")
    /\ status' = [status EXCEPT ![target[k]] = "CONFIRMED"]
    /\ stale' = IF ActiveAt(target[k], now) THEN stale
                ELSE stale \cup {target[k]}
    /\ UNCHANGED <<now, lockVars, callVars, holdExpiresAt, target, released,
                   unlocked>>

\* The update fails without effect.
ConfirmFails(k) ==
    /\ \E p \in {"confirming", "expiring"} : ConfirmGoto(k, p, "over")
    /\ UNCHANGED <<now, lockVars, callVars, rowVars, target, released,
                   historyVars>>

----------------------------------------------------------------------------
(* releaseBooking: the row's status is not looked at, only its existence,  *)
(* and rows are never deleted, so the update alone is the step.  A call    *)
(* with no row, another reason or a failing database changes nothing.      *)

ReleaseBooking(r, b) ==
    /\ r \notin released
    /\ Present(b)
    /\ released' = released \cup {r}
    /\ \E st \in {"FAILED", "CANCELLED"} : status' = [status EXCEPT ![b] = st]
    /\ UNCHANGED <<now, lockVars, callVars, holdExpiresAt, confirmVars,
                   historyVars>>

----------------------------------------------------------------------------
(* The process of a call dies at an await: nothing runs any more, not even *)
(* finally.  A request already executed keeps its effect.                  *)

CrashHold(c) ==
    /\ \E p \in InFlight : Goto(c, p, "over")
    /\ UNCHANGED <<now, lockVars, request, queryTime, refused, rowVars,
                   otherVars>>

CrashConfirm(k) ==
    /\ \E p \in ConfirmInFlight : ConfirmGoto(k, p, "over")
    /\ UNCHANGED <<now, lockVars, callVars, rowVars, target, released,
                   historyVars>>

TimePasses ==
    /\ Tick
    /\ UNCHANGED <<lockVars, callVars, rowVars, confirmVars, released,
                   historyVars>>

HoldStart(c) == \/ AcquireLock(c) \/ LockRefused(c)
                \/ LockCallFails(c) \/ LockReplyLost(c)

HoldStep(c) == \/ RejectSegment(c) \/ StartCheck(c)
               \/ FindAvailable(c) \/ FindConflict(c)
               \/ PrepareHold(c) \/ CreateBooking(c) \/ DbCallFails(c)
               \/ ReleaseLock(c) \/ ReleaseLockFails(c)

ConfirmStart(k) == \E b \in Calls : ReadForConfirm(k, b) \/ RefuseConfirm(k, b)

ConfirmStep(k) == \/ DecideExpire(k) \/ DecideConfirm(k) \/ WriteExpired(k)
                  \/ WriteConfirmed(k) \/ ConfirmFails(k)

\* Nothing is left to do within the bounds.
Finished ==
    /\ now = MaxTime
    /\ \A c \in Calls : pc[c] = "over"
    /\ \A k \in Confirms : confirmPc[k] = "over"
    /\ UNCHANGED vars

Next ==
    \/ \E c \in Calls : HoldStart(c) \/ HoldStep(c) \/ CrashHold(c)
    \/ \E k \in Confirms : ConfirmStart(k) \/ ConfirmStep(k) \/ CrashConfirm(k)
    \/ \E r \in Releases, b \in Calls : ReleaseBooking(r, b)
    \/ TimePasses
    \/ Finished

Spec == Init /\ [][Next]_vars

\* Awaited calls return or fail, and timers advance; nobody has to call, and
\* nothing has to crash.
Fairness ==
    /\ \A c \in Calls : WF_vars(HoldStep(c))
    /\ \A k \in Confirms : WF_vars(ConfirmStep(k))
    /\ WF_vars(TimePasses)

FairSpec == Spec /\ Fairness

----------------------------------------------------------------------------
(* Properties *)

Blocks(b) == ActiveAt(b, now)

Clashing == {p \in Calls \X Calls :
                /\ p[1] # p[2]
                /\ seat[p[1]] = seat[p[2]]
                /\ Overlaps(seg[p[1]], seg[p[2]])}

Clash(a, b) == <<a, b>> \in Clashing /\ Blocks(a) /\ Blocks(b)

\* No seat is sold twice on overlapping segments (the promise of createHold's
\* lock and re-check).  The code keeps it only as OverlapExplained says.
NoDoubleBooking == \A a, b \in Calls : ~Clash(a, b)

\* Two clashing bookings have one of two causes: one of them was confirmed when
\* it no longer blocked the seat (confirmBooking does not re-check the seat and
\* updates unconditionally), or was inserted after its call's lock had lapsed
\* (createHold does not check the lock again).  No other interleaving of
\* holds, confirms, releases, failures and crashes sells a seat twice.
OverlapExplained ==
    \A a, b \in Calls : Clash(a, b) => {a, b} \cap (stale \cup unlocked) # {}

\* What the lock is for: from the moment a createHold call finds its segment
\* free until it inserts its row, no other row of the seat can come to block
\* the segment while the call holds the lock, unless for the two causes above.
CheckStaysValid ==
    \A c, a \in Calls :
        /\ pc[c] \in {"available", "inserting"}
        /\ Holds(c, seat[c])
        /\ a # c /\ seat[a] = seat[c] /\ Overlaps(seg[a], seg[c])
        /\ Blocks(a)
        => a \in stale \cup unlocked

\* Nobody takes the lock from a running createHold before its TTL is over,
\* neither a second acquireLock nor the late releaseLock of an earlier holder.
LockHeldUntilDeadline ==
    \A c \in Calls :
        /\ pc[c] \in InFlight
        /\ now < lockUntil[c]
        => lock[seat[c]] = c

\* A passenger turned away, by validation or by a conflict, leaves no row
\* behind that would block the seat for others.
RefusalLeavesNoHold ==
    \A c \in refused : ~Present(c)

\* A row that blocks its seat stops blocking it only by a release or by the
\* end of its hold: a confirm that races with others never takes a seat from
\* its holder before the deadline.
SeatLostOnlyByReleaseOrDeadline ==
    [][\A b \in Calls :
          Blocks(b) /\ ~Blocks(b)' =>
              \/ status'[b] \in {"FAILED", "CANCELLED"}
              \/ holdExpiresAt[b] <= now']_vars

\* confirmBooking: "Only PENDING bookings can be confirmed."
OnlyPendingConfirmed ==
    [][\A b \in Calls :
          status'[b] = "CONFIRMED" /\ status[b] # "CONFIRMED" =>
              status[b] = "PENDING"]_vars

Targets(P) == {target[k] : k \in {k \in Confirms : confirmPc[k] \in P}}

\* The rows that a confirm in flight has found PENDING, and has accepted.
Found == Targets({"read", "expiring"})

Accepted == Targets({"confirming"})

\* The rows whose deadline somebody will still look at.
Timed == {c \in Calls : status[c] = "PENDING"} \cup Found

Lapsed == {c \in Timed : holdExpiresAt[c] <= now}

Overdue == {c \in Timed : holdExpiresAt[c] < now}

Flawed == stale \cup unlocked

\* What the service is, seen from outside: the lock, the query, the clock and
\* every await become one decision per row.
Inventory == INSTANCE SeatInventory
             WITH Rows <- Calls, clash <- Clashing, lapsed <- Lapsed,
                  overdue <- Overdue, seen <- Found, accepted <- Accepted,
                  flawed <- Flawed

\* However its calls interleave, lapse, fail and die, the service only claims a
\* row that nothing blocks, confirms a row only after it found it PENDING and
\* accepted it in time, expires only a row it found PENDING and past its
\* deadline, and leaves the two causes above on record.
ImplementsInventory == Inventory!Spec

\* Every createHold and confirmBooking that got past its first await is
\* answered, unless its process died; in the end none is waiting.
EveryCallFinishes ==
    <>[](/\ \A c \in Calls : pc[c] \notin InFlight
         /\ \A k \in Confirms : confirmPc[k] \notin ConfirmInFlight)

\* A call whose process died in mid-flight gives the seat back by the mere
\* passing of time: its lock lapses and the hold it may have inserted stops
\* blocking, unless somebody confirms it.  (The clock stops at MaxTime, so the
\* promise is about deaths early enough to see the deadlines.)
DeadCallUnblocksSeat ==
    \A c \in Calls :
        /\ pc[c] = "over"
        /\ now + LockTTL <= MaxTime
        /\ now + HoldDuration <= MaxTime
        ~> /\ ~Holds(c, seat[c])
           /\ status[c] = "PENDING" => ~Blocks(c)
=============================================================================
