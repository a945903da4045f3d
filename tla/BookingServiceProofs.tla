------------------------ MODULE BookingServiceProofs ------------------------
(***************************************************************************)
(* Proofs about BookingService for any number of seats, calls, confirms    *)
(* and releases, any segments, durations and time bound.                   *)
(***************************************************************************)
EXTENDS BookingService, TLAPS

LEMMA OverlapsSymmetric ==
    ASSUME NEW s, NEW t PROVE Overlaps(s, t) <=> Overlaps(t, s)
BY DEF Overlaps

----------------------------------------------------------------------------
(* Types *)

LEMMA TypeInit == Init => TypeOK
  BY SeatLockAssumption, BookingAssumption
     DEF Init, LockInit, TypeOK, LockTypeOK, CallPc, ConfirmPc, InFlight,
         ConfirmInFlight, RowStatus, Status
LEMMA TypeStep == TypeOK /\ [Next]_vars => TypeOK'
<1> SUFFICES ASSUME TypeOK, [Next]_vars PROVE TypeOK'
  OBVIOUS
<1> USE SeatLockAssumption, BookingAssumption
    DEF TypeOK, LockTypeOK, CallPc, ConfirmPc, InFlight, ConfirmInFlight,
        RowStatus, Status, lockVars, request, callVars, rowVars, confirmVars, historyVars,
        otherVars, Goto, ConfirmGoto
<1>1. ASSUME NEW c \in Calls, HoldStart(c) PROVE TypeOK'
  <2>1. CASE AcquireLock(c)
    BY <2>1 DEF AcquireLock, SetNX
  <2>2. CASE LockRefused(c)
    BY <2>2 DEF LockRefused
  <2>3. CASE LockCallFails(c)
    BY <2>3 DEF LockCallFails
  <2>4. CASE LockReplyLost(c)
    BY <2>4 DEF LockReplyLost, SetNX
  <2> QED BY <1>1, <2>1, <2>2, <2>3, <2>4 DEF HoldStart
<1>2. ASSUME NEW c \in Calls, HoldStep(c) PROVE TypeOK'
  <2>1. CASE RejectSegment(c)
    BY <2>1 DEF RejectSegment
  <2>2. CASE StartCheck(c)
    BY <2>2 DEF StartCheck
  <2>3. CASE FindAvailable(c)
    BY <2>3 DEF FindAvailable
  <2>4. CASE FindConflict(c)
    BY <2>4 DEF FindConflict
  <2>5. CASE PrepareHold(c)
    BY <2>5 DEF PrepareHold
  <2>6. CASE CreateBooking(c)
    BY <2>6 DEF CreateBooking
  <2>7. CASE DbCallFails(c)
    BY <2>7 DEF DbCallFails
  <2>8. CASE ReleaseLock(c)
    <3>1. LockTypeOK'
      BY <2>8 DEF ReleaseLock, CheckAndDelete
    <3>2. pc' \in [Calls -> CallPc]
      BY <2>8 DEF ReleaseLock
    <3>3. UNCHANGED <<request, queryTime, refused, rowVars, otherVars>>
      BY <2>8 DEF ReleaseLock
    <3> QED BY <3>1, <3>2, <3>3
  <2>9. CASE ReleaseLockFails(c)
    BY <2>9 DEF ReleaseLockFails
  <2> QED BY <1>2, <2>1, <2>2, <2>3, <2>4, <2>5, <2>6, <2>7, <2>8, <2>9 DEF HoldStep
<1>3. ASSUME NEW c \in Calls, CrashHold(c) PROVE TypeOK'
  BY <1>3 DEF CrashHold
<1>4. ASSUME NEW k \in Confirms, ConfirmStart(k) PROVE TypeOK'
  BY <1>4 DEF ConfirmStart, ReadForConfirm, RefuseConfirm
<1>5. ASSUME NEW k \in Confirms, ConfirmStep(k) PROVE TypeOK'
  <2>1. CASE DecideExpire(k) \/ DecideConfirm(k) \/ ConfirmFails(k)
    BY <2>1 DEF DecideExpire, DecideConfirm, ConfirmFails
  <2>2. CASE WriteExpired(k)
    BY <2>2 DEF WriteExpired
  <2>3. CASE WriteConfirmed(k)
    BY <2>3 DEF WriteConfirmed
  <2> QED BY <1>5, <2>1, <2>2, <2>3 DEF ConfirmStep
<1>6. ASSUME NEW k \in Confirms, CrashConfirm(k) PROVE TypeOK'
  BY <1>6 DEF CrashConfirm
<1>7. ASSUME NEW r \in Releases, NEW b \in Calls, ReleaseBooking(r, b) PROVE TypeOK'
  BY <1>7 DEF ReleaseBooking
<1>8. CASE TimePasses
  BY <1>8 DEF TimePasses, Tick
<1>9. CASE Finished \/ UNCHANGED vars
  BY <1>9 DEF Finished, vars
<1> QED BY <1>1, <1>2, <1>3, <1>4, <1>5, <1>6, <1>7, <1>8, <1>9 DEF Next

\* The variables keep their types, in every behaviour of the service.
THEOREM TypeCorrect == Spec => []TypeOK
BY TypeInit, TypeStep, PTL DEF Spec

----------------------------------------------------------------------------
(* Rows, refusals and confirms: the facts the main invariant stands on.    *)

\* A row is in the table only once its call has inserted it.
RowsWritten ==
    \A c \in Calls : pc[c] \notin {"releasing", "over"} => ~Present(c)

\* A refused call is past its insert.
RefusedAreDone ==
    \A c \in refused : pc[c] \in {"releasing", "over"} /\ ~Present(c)

\* A confirm works on a row that is there.
TargetsPresent ==
    \A k \in Confirms : confirmPc[k] \in ConfirmInFlight => Present(target[k])

\* A confirm expires holds only after their deadline.
ExpiringIsLate ==
    \A k \in Confirms : confirmPc[k] = "expiring" => holdExpiresAt[target[k]] < now

\* A query was sent in the past.
QueryInPast ==
    \A c \in Calls : pc[c] = "querying" => queryTime[c] <= now

RowInv == /\ TypeOK
          /\ RowsWritten
          /\ RefusedAreDone
          /\ TargetsPresent
          /\ ExpiringIsLate
          /\ QueryInPast

LEMMA RowInvInit == Init => RowInv
<1> SUFFICES ASSUME Init PROVE RowInv
  OBVIOUS
<1>1. TypeOK
  BY TypeInit
<1> QED
  BY <1>1 DEF Init, LockInit, RowInv, RowsWritten, RefusedAreDone,
     TargetsPresent, ExpiringIsLate, QueryInPast, Present, ConfirmInFlight

LEMMA RowInvStep == RowInv /\ [Next]_vars => RowInv'
<1> SUFFICES ASSUME RowInv, [Next]_vars PROVE RowInv'
  OBVIOUS
<1>0. TypeOK'
  BY TypeStep DEF RowInv
<1> USE <1>0 DEF RowInv, RowsWritten, RefusedAreDone, TargetsPresent,
        ExpiringIsLate, QueryInPast, Present, TypeOK, LockTypeOK,
        ConfirmInFlight, lockVars, request, callVars, rowVars, confirmVars,
        historyVars, otherVars, Goto, ConfirmGoto
<1>1. ASSUME NEW c \in Calls, HoldStart(c) PROVE RowInv'
  <2>1. CASE AcquireLock(c)
    BY <2>1 DEF AcquireLock, SetNX
  <2>2. CASE LockRefused(c)
    BY <2>2 DEF LockRefused
  <2>3. CASE LockCallFails(c)
    BY <2>3 DEF LockCallFails
  <2>4. CASE LockReplyLost(c)
    BY <2>4 DEF LockReplyLost, SetNX
  <2> QED BY <1>1, <2>1, <2>2, <2>3, <2>4 DEF HoldStart
<1>2. ASSUME NEW c \in Calls, HoldStep(c) PROVE RowInv'
  <2>1. CASE RejectSegment(c)
    BY <2>1 DEF RejectSegment
  <2>2. CASE StartCheck(c)
    BY <2>2 DEF StartCheck
  <2>3. CASE FindAvailable(c)
    BY <2>3 DEF FindAvailable
  <2>4. CASE FindConflict(c)
    BY <2>4 DEF FindConflict
  <2>5. CASE PrepareHold(c)
    BY <2>5 DEF PrepareHold
  <2>6. CASE CreateBooking(c)
    BY <2>6 DEF CreateBooking
  <2>7. CASE DbCallFails(c)
    BY <2>7 DEF DbCallFails
  <2>8. CASE ReleaseLock(c)
    BY <2>8 DEF ReleaseLock
  <2>9. CASE ReleaseLockFails(c)
    BY <2>9 DEF ReleaseLockFails
  <2> QED BY <1>2, <2>1, <2>2, <2>3, <2>4, <2>5, <2>6, <2>7, <2>8, <2>9 DEF HoldStep
<1>3. ASSUME NEW c \in Calls, CrashHold(c) PROVE RowInv'
  BY <1>3 DEF CrashHold, InFlight
<1>4. ASSUME NEW k \in Confirms, ConfirmStart(k) PROVE RowInv'
  BY <1>4 DEF ConfirmStart, ReadForConfirm, RefuseConfirm
<1>5. ASSUME NEW k \in Confirms, ConfirmStep(k) PROVE RowInv'
  <2>1. CASE DecideExpire(k)
    BY <2>1 DEF DecideExpire
  <2>2. CASE DecideConfirm(k)
    BY <2>2 DEF DecideConfirm
  <2>3. CASE WriteExpired(k)
    BY <2>3 DEF WriteExpired
  <2>4. CASE WriteConfirmed(k)
    BY <2>4 DEF WriteConfirmed
  <2>5. CASE ConfirmFails(k)
    BY <2>5 DEF ConfirmFails
  <2> QED BY <1>5, <2>1, <2>2, <2>3, <2>4, <2>5 DEF ConfirmStep
<1>6. ASSUME NEW k \in Confirms, CrashConfirm(k) PROVE RowInv'
  BY <1>6 DEF CrashConfirm
<1>7. ASSUME NEW r \in Releases, NEW b \in Calls, ReleaseBooking(r, b) PROVE RowInv'
  BY <1>7 DEF ReleaseBooking
<1>8. CASE TimePasses
  BY <1>8 DEF TimePasses, Tick
<1>9. CASE Finished \/ UNCHANGED vars
  BY <1>9 DEF Finished, vars
<1> QED BY <1>1, <1>2, <1>3, <1>4, <1>5, <1>6, <1>7, <1>8, <1>9 DEF Next

\* Nothing is inserted for a passenger who was turned away.
THEOREM RefusalSafe == Spec => []RefusalLeavesNoHold
<1>1. RowInv => RefusalLeavesNoHold
  BY DEF RowInv, RefusedAreDone, RefusalLeavesNoHold
<1> QED BY <1>1, RowInvInit, RowInvStep, PTL DEF Spec

----------------------------------------------------------------------------
(* The lock.                                                               *)

LEMMA LockInvStep ==
    TypeOK /\ LockHeldUntilDeadline /\ [Next]_vars => LockHeldUntilDeadline'
<1> SUFFICES ASSUME TypeOK, LockHeldUntilDeadline, [Next]_vars
             PROVE  LockHeldUntilDeadline'
  OBVIOUS
<1> USE SeatLockAssumption
    DEF LockHeldUntilDeadline, TypeOK, LockTypeOK, InFlight, Holds, Free,
        lockVars, request, callVars, rowVars, confirmVars, historyVars,
        otherVars, Goto
<1>1. ASSUME NEW c \in Calls, HoldStart(c) PROVE LockHeldUntilDeadline'
  <2>1. CASE AcquireLock(c)
    BY <2>1 DEF AcquireLock, SetNX
  <2>2. CASE LockRefused(c)
    BY <2>2 DEF LockRefused
  <2>3. CASE LockCallFails(c)
    BY <2>3 DEF LockCallFails
  <2>4. CASE LockReplyLost(c)
    BY <2>4 DEF LockReplyLost, SetNX
  <2> QED BY <1>1, <2>1, <2>2, <2>3, <2>4 DEF HoldStart
<1>2. ASSUME NEW c \in Calls, HoldStep(c) PROVE LockHeldUntilDeadline'
  <2>1. CASE RejectSegment(c)
    BY <2>1 DEF RejectSegment
  <2>2. CASE StartCheck(c)
    BY <2>2 DEF StartCheck
  <2>3. CASE FindAvailable(c)
    BY <2>3 DEF FindAvailable
  <2>4. CASE FindConflict(c)
    BY <2>4 DEF FindConflict
  <2>5. CASE PrepareHold(c)
    BY <2>5 DEF PrepareHold
  <2>6. CASE CreateBooking(c)
    BY <2>6 DEF CreateBooking
  <2>7. CASE DbCallFails(c)
    BY <2>7 DEF DbCallFails
  <2>8. CASE ReleaseLock(c)
    BY <2>8 DEF ReleaseLock, CheckAndDelete
  <2>9. CASE ReleaseLockFails(c)
    BY <2>9 DEF ReleaseLockFails
  <2> QED BY <1>2, <2>1, <2>2, <2>3, <2>4, <2>5, <2>6, <2>7, <2>8, <2>9 DEF HoldStep
<1>3. ASSUME NEW c \in Calls, CrashHold(c) PROVE LockHeldUntilDeadline'
  BY <1>3 DEF CrashHold, InFlight
<1>4. ASSUME NEW k \in Confirms, ConfirmStart(k) PROVE LockHeldUntilDeadline'
  BY <1>4 DEF ConfirmStart, ReadForConfirm, RefuseConfirm
<1>5. ASSUME NEW k \in Confirms, ConfirmStep(k) PROVE LockHeldUntilDeadline'
  <2>1. CASE DecideExpire(k)
    BY <2>1 DEF DecideExpire
  <2>2. CASE DecideConfirm(k)
    BY <2>2 DEF DecideConfirm
  <2>3. CASE WriteExpired(k)
    BY <2>3 DEF WriteExpired
  <2>4. CASE WriteConfirmed(k)
    BY <2>4 DEF WriteConfirmed
  <2>5. CASE ConfirmFails(k)
    BY <2>5 DEF ConfirmFails
  <2> QED BY <1>5, <2>1, <2>2, <2>3, <2>4, <2>5 DEF ConfirmStep
<1>6. ASSUME NEW k \in Confirms, CrashConfirm(k) PROVE LockHeldUntilDeadline'
  BY <1>6 DEF CrashConfirm
<1>7. ASSUME NEW r \in Releases, NEW b \in Calls, ReleaseBooking(r, b) PROVE LockHeldUntilDeadline'
  BY <1>7 DEF ReleaseBooking
<1>8. CASE TimePasses
  BY <1>8 DEF TimePasses, Tick
<1>9. CASE Finished \/ UNCHANGED vars
  BY <1>9 DEF Finished, vars
<1> QED BY <1>1, <1>2, <1>3, <1>4, <1>5, <1>6, <1>7, <1>8, <1>9 DEF Next

\* A running createHold keeps its lock until the TTL is over.
THEOREM LockSafe == Spec => []LockHeldUntilDeadline
<1>1. Init => LockHeldUntilDeadline
  BY DEF Init, LockInit, LockHeldUntilDeadline, InFlight
<1> QED BY <1>1, TypeInit, TypeStep, LockInvStep, PTL DEF Spec

----------------------------------------------------------------------------
(* What one step can change: who blocks a seat, who holds a lock, which    *)
(* calls may insert, and the history.                                      *)

StepFacts ==
    /\ seat' = seat
    /\ seg' = seg
    /\ stale \subseteq stale'
    /\ unlocked \subseteq unlocked'
    /\ \A a \in Calls : Blocks(a)' => Blocks(a) \/ a \in stale' \/ CreateBooking(a)
    /\ \A c \in Calls : pc'[c] \in {"available", "inserting"} =>
          \/ FindAvailable(c)
          \/ /\ pc[c] \in {"available", "inserting"}
             /\ Holds(c, seat[c])' => Holds(c, seat[c])

LEMMA StepChanges == RowInv /\ [Next]_vars => StepFacts
<1> SUFFICES ASSUME RowInv, [Next]_vars PROVE StepFacts
  OBVIOUS
<1> USE DEF StepFacts, RowInv, RowsWritten, TargetsPresent, Present, TypeOK,
        LockTypeOK, ConfirmInFlight, Blocks, ActiveAt, Holds, lockVars, request,
        callVars, rowVars, confirmVars, historyVars, otherVars, Goto, ConfirmGoto
<1>1. ASSUME NEW c \in Calls, HoldStart(c) PROVE StepFacts
  <2>1. CASE AcquireLock(c)
    BY <2>1 DEF AcquireLock, SetNX
  <2>2. CASE LockRefused(c)
    BY <2>2 DEF LockRefused
  <2>3. CASE LockCallFails(c)
    BY <2>3 DEF LockCallFails
  <2>4. CASE LockReplyLost(c)
    BY <2>4 DEF LockReplyLost, SetNX
  <2> QED BY <1>1, <2>1, <2>2, <2>3, <2>4 DEF HoldStart
<1>2. ASSUME NEW c \in Calls, HoldStep(c) PROVE StepFacts
  <2>1. CASE RejectSegment(c)
    BY <2>1 DEF RejectSegment
  <2>2. CASE StartCheck(c)
    BY <2>2 DEF StartCheck
  <2>3. CASE FindAvailable(c)
    BY <2>3 DEF FindAvailable
  <2>4. CASE FindConflict(c)
    BY <2>4 DEF FindConflict
  <2>5. CASE PrepareHold(c)
    BY <2>5 DEF PrepareHold
  <2>6. CASE CreateBooking(c)
    BY <2>6 DEF CreateBooking
  <2>7. CASE DbCallFails(c)
    BY <2>7 DEF DbCallFails
  <2>8. CASE ReleaseLock(c)
    BY <2>8, SeatLockAssumption DEF ReleaseLock, CheckAndDelete
  <2>9. CASE ReleaseLockFails(c)
    BY <2>9 DEF ReleaseLockFails
  <2> QED BY <1>2, <2>1, <2>2, <2>3, <2>4, <2>5, <2>6, <2>7, <2>8, <2>9 DEF HoldStep
<1>3. ASSUME NEW c \in Calls, CrashHold(c) PROVE StepFacts
  BY <1>3 DEF CrashHold, InFlight
<1>4. ASSUME NEW k \in Confirms, ConfirmStart(k) PROVE StepFacts
  BY <1>4 DEF ConfirmStart, ReadForConfirm, RefuseConfirm
<1>5. ASSUME NEW k \in Confirms, ConfirmStep(k) PROVE StepFacts
  <2>1. CASE DecideExpire(k)
    BY <2>1 DEF DecideExpire
  <2>2. CASE DecideConfirm(k)
    BY <2>2 DEF DecideConfirm
  <2>3. CASE WriteExpired(k)
    BY <2>3 DEF WriteExpired
  <2>4. CASE WriteConfirmed(k)
    BY <2>4 DEF WriteConfirmed
  <2>5. CASE ConfirmFails(k)
    BY <2>5 DEF ConfirmFails
  <2> QED BY <1>5, <2>1, <2>2, <2>3, <2>4, <2>5 DEF ConfirmStep
<1>6. ASSUME NEW k \in Confirms, CrashConfirm(k) PROVE StepFacts
  BY <1>6 DEF CrashConfirm
<1>7. ASSUME NEW r \in Releases, NEW b \in Calls, ReleaseBooking(r, b) PROVE StepFacts
  BY <1>7 DEF ReleaseBooking
<1>8. CASE TimePasses
  BY <1>8 DEF TimePasses, Tick
<1>9. CASE Finished \/ UNCHANGED vars
  BY <1>9 DEF Finished, vars
<1> QED BY <1>1, <1>2, <1>3, <1>4, <1>5, <1>6, <1>7, <1>8, <1>9 DEF Next

----------------------------------------------------------------------------
(* Double bookings.  OverlapExplained is not inductive: whether an insert  *)
(* clashes was decided when its query was answered.  CheckStaysValid       *)
(* carries that answer to the insert.                                      *)

SeatInv == RowInv /\ CheckStaysValid /\ OverlapExplained

\* A call that finds its segment free has no clashing row at that moment: the
\* rows are read with a time that is past, and what blocks now blocked then.
LEMMA FoundFree ==
    ASSUME RowInv, NEW c \in Calls, NEW a \in Calls, FindAvailable(c),
           seat[a] = seat[c], Overlaps(seg[a], seg[c])
    PROVE  ~Blocks(a)
<1> SUFFICES ASSUME Blocks(a) PROVE FALSE
  OBVIOUS
<1>1. queryTime[c] <= now /\ queryTime[c] \in Nat /\ now \in Nat /\ holdExpiresAt[a] \in Nat
  BY DEF FindAvailable, Goto, RowInv, QueryInPast, TypeOK, LockTypeOK
<1>2. ActiveAt(a, queryTime[c]) /\ status[a] \in BlockingStatuses
  BY <1>1 DEF Blocks, ActiveAt, BlockingStatuses
<1>3. Row(a) \in {Row(b) : b \in ActiveBookings(seat[c], queryTime[c])}
  BY <1>2 DEF ActiveBookings
<1>4. HasSegmentConflict({Row(b) : b \in ActiveBookings(seat[c], queryTime[c])}, seg[c])
  BY <1>2, <1>3 DEF HasSegmentConflict, Row
<1> QED BY <1>4 DEF FindAvailable, Conflict

\* An insert that does not hold its lock is recorded, and it adds no other row.
LEMMA InsertFacts ==
    ASSUME RowInv, NEW a \in Calls, NEW b \in Calls, a # b, CreateBooking(a)
    PROVE  /\ Holds(a, seat[a]) \/ a \in unlocked'
           /\ Blocks(b)' => Blocks(b)
           /\ pc[a] = "inserting"
BY DEF CreateBooking, Goto, RowInv, TypeOK, LockTypeOK, Blocks, ActiveAt

LEMMA CheckStaysValidStep == SeatInv /\ [Next]_vars => CheckStaysValid'
<1> SUFFICES ASSUME SeatInv, [Next]_vars,
                    NEW c \in Calls, NEW a \in Calls,
                    pc'[c] \in {"available", "inserting"},
                    Holds(c, seat[c])',
                    a # c, seat'[a] = seat'[c], Overlaps(seg'[a], seg'[c]),
                    Blocks(a)'
             PROVE  a \in stale' \cup unlocked'
  BY DEF CheckStaysValid, Holds, Blocks, ActiveAt
<1>1. StepFacts
  BY StepChanges DEF SeatInv
<1>2. seat[a] = seat[c] /\ Overlaps(seg[a], seg[c])
  BY <1>1 DEF StepFacts
<1>3. CASE FindAvailable(c)
  <2>1. ~Blocks(a)
    BY <1>2, <1>3, FoundFree DEF SeatInv
  <2>2. ~CreateBooking(a)
    BY <1>3 DEF FindAvailable, CreateBooking, Goto, SeatInv, RowInv, TypeOK
  <2> QED BY <1>1, <2>1, <2>2 DEF StepFacts
<1>4. CASE ~FindAvailable(c)
  <2>1. pc[c] \in {"available", "inserting"} /\ Holds(c, seat[c])
    BY <1>1, <1>4 DEF StepFacts
  <2>2. CASE Blocks(a)
    BY <1>1, <1>2, <2>1, <2>2 DEF StepFacts, SeatInv, CheckStaysValid
  <2>3. CASE CreateBooking(a)
    <3>1. ~Holds(a, seat[a])
      BY <1>2, <2>1 DEF Holds
    <3> QED BY <2>3, <3>1, InsertFacts DEF SeatInv
  <2> QED BY <1>1, <2>2, <2>3 DEF StepFacts
<1> QED BY <1>3, <1>4

\* An insert clashes with a row that blocks the seat only if explained.
LEMMA InsertExplained ==
    ASSUME SeatInv, [Next]_vars, NEW a \in Calls, NEW b \in Calls, a # b,
           CreateBooking(a), seat[a] = seat[b], Overlaps(seg[a], seg[b]), Blocks(b)'
    PROVE  {a, b} \cap (stale' \cup unlocked') # {}
<1>1. StepFacts
  BY StepChanges DEF SeatInv
<1>2. /\ Holds(a, seat[a]) \/ a \in unlocked'
      /\ Blocks(b)
      /\ pc[a] = "inserting"
  BY InsertFacts DEF SeatInv
<1>3. Overlaps(seg[b], seg[a])
  BY OverlapsSymmetric
<1>4. CASE Holds(a, seat[a])
  <2>1. b \in stale \cup unlocked
    BY <1>2, <1>3, <1>4 DEF SeatInv, CheckStaysValid
  <2> QED BY <1>1, <2>1 DEF StepFacts
<1> QED BY <1>2, <1>4

LEMMA OverlapExplainedStep == SeatInv /\ [Next]_vars => OverlapExplained'
<1> SUFFICES ASSUME SeatInv, [Next]_vars,
                    NEW a \in Calls, NEW b \in Calls, Clash(a, b)'
             PROVE  {a, b} \cap (stale' \cup unlocked') # {}
  BY DEF OverlapExplained, Clash, Clashing, Blocks, ActiveAt
<1>1. StepFacts
  BY StepChanges DEF SeatInv
<1>2. /\ a # b /\ seat[a] = seat[b] /\ Overlaps(seg[a], seg[b])
      /\ Blocks(a)' /\ Blocks(b)'
  BY <1>1 DEF Clash, Clashing, StepFacts, Blocks, ActiveAt
<1>3. CASE Blocks(a) /\ Blocks(b)
  <2>1. {a, b} \cap (stale \cup unlocked) # {}
    BY <1>2, <1>3 DEF SeatInv, OverlapExplained, Clash, Clashing
  <2> QED BY <1>1, <2>1 DEF StepFacts
<1>4. CASE CreateBooking(a)
  BY <1>2, <1>4, InsertExplained
<1>5. CASE CreateBooking(b)
  <2>1. Overlaps(seg[b], seg[a])
    BY <1>2, OverlapsSymmetric
  <2>2. {b, a} \cap (stale' \cup unlocked') # {}
    BY <1>2, <1>5, <2>1, InsertExplained
  <2> QED BY <2>2
<1>6. CASE a \in stale' \/ b \in stale'
  BY <1>6
<1> QED BY <1>1, <1>2, <1>3, <1>4, <1>5, <1>6 DEF StepFacts

LEMMA SeatInvCorrect == Spec => []SeatInv
<1>1. Init => SeatInv
  <2> SUFFICES ASSUME Init PROVE SeatInv
    OBVIOUS
  <2>1. RowInv
    BY RowInvInit
  <2> QED BY <2>1 DEF Init, SeatInv, CheckStaysValid, OverlapExplained, Clash, Clashing,
          Blocks, ActiveAt
<1>2. SeatInv /\ [Next]_vars => SeatInv'
  BY RowInvStep, CheckStaysValidStep, OverlapExplainedStep DEF SeatInv
<1> QED BY <1>1, <1>2, PTL DEF Spec

\* A seat is sold twice only through a confirm of a row that no longer blocked
\* it or an insert after the lock had lapsed.
THEOREM DoubleBookingExplained == Spec => []OverlapExplained
BY SeatInvCorrect, PTL DEF SeatInv

\* Between its query and its insert, a call that still holds the lock can rely
\* on the answer.
THEOREM CheckReliable == Spec => []CheckStaysValid
BY SeatInvCorrect, PTL DEF SeatInv

----------------------------------------------------------------------------
(* Losing a seat.                                                          *)

\* One step, seen from one row.
KeepsSeat(b) ==
    Blocks(b) /\ ~Blocks(b)' =>
        \/ status'[b] \in {"FAILED", "CANCELLED"}
        \/ holdExpiresAt[b] <= now'

LEMMA StepKeepsSeat == RowInv /\ [Next]_vars => \A b \in Calls : KeepsSeat(b)
<1> SUFFICES ASSUME RowInv, [Next]_vars, NEW x \in Calls PROVE KeepsSeat(x)
  OBVIOUS
<1> USE DEF KeepsSeat, RowInv, RowsWritten, TargetsPresent, ExpiringIsLate,
        Present, TypeOK, LockTypeOK, ConfirmInFlight, Blocks, ActiveAt, lockVars,
        request, callVars, rowVars, confirmVars, historyVars, otherVars, Goto,
        ConfirmGoto
<1>1. ASSUME NEW c \in Calls, HoldStart(c) PROVE KeepsSeat(x)
  <2>1. CASE AcquireLock(c)
    BY <2>1 DEF AcquireLock, SetNX
  <2>2. CASE LockRefused(c)
    BY <2>2 DEF LockRefused
  <2>3. CASE LockCallFails(c)
    BY <2>3 DEF LockCallFails
  <2>4. CASE LockReplyLost(c)
    BY <2>4 DEF LockReplyLost, SetNX
  <2> QED BY <1>1, <2>1, <2>2, <2>3, <2>4 DEF HoldStart
<1>2. ASSUME NEW c \in Calls, HoldStep(c) PROVE KeepsSeat(x)
  <2>1. CASE RejectSegment(c)
    BY <2>1 DEF RejectSegment
  <2>2. CASE StartCheck(c)
    BY <2>2 DEF StartCheck
  <2>3. CASE FindAvailable(c)
    BY <2>3 DEF FindAvailable
  <2>4. CASE FindConflict(c)
    BY <2>4 DEF FindConflict
  <2>5. CASE PrepareHold(c)
    BY <2>5 DEF PrepareHold
  <2>6. CASE CreateBooking(c)
    BY <2>6 DEF CreateBooking
  <2>7. CASE DbCallFails(c)
    BY <2>7 DEF DbCallFails
  <2>8. CASE ReleaseLock(c)
    BY <2>8 DEF ReleaseLock, CheckAndDelete
  <2>9. CASE ReleaseLockFails(c)
    BY <2>9 DEF ReleaseLockFails
  <2> QED BY <1>2, <2>1, <2>2, <2>3, <2>4, <2>5, <2>6, <2>7, <2>8, <2>9 DEF HoldStep
<1>3. ASSUME NEW c \in Calls, CrashHold(c) PROVE KeepsSeat(x)
  BY <1>3 DEF CrashHold, InFlight
<1>4. ASSUME NEW k \in Confirms, ConfirmStart(k) PROVE KeepsSeat(x)
  BY <1>4 DEF ConfirmStart, ReadForConfirm, RefuseConfirm
<1>5. ASSUME NEW k \in Confirms, ConfirmStep(k) PROVE KeepsSeat(x)
  <2>1. CASE DecideExpire(k)
    BY <2>1 DEF DecideExpire
  <2>2. CASE DecideConfirm(k)
    BY <2>2 DEF DecideConfirm
  <2>3. CASE WriteExpired(k)
    BY <2>3 DEF WriteExpired
  <2>4. CASE WriteConfirmed(k)
    BY <2>4 DEF WriteConfirmed
  <2>5. CASE ConfirmFails(k)
    BY <2>5 DEF ConfirmFails
  <2> QED BY <1>5, <2>1, <2>2, <2>3, <2>4, <2>5 DEF ConfirmStep
<1>6. ASSUME NEW k \in Confirms, CrashConfirm(k) PROVE KeepsSeat(x)
  BY <1>6 DEF CrashConfirm
<1>7. ASSUME NEW r \in Releases, NEW b \in Calls, ReleaseBooking(r, b) PROVE KeepsSeat(x)
  BY <1>7 DEF ReleaseBooking
<1>8. CASE TimePasses
  BY <1>8 DEF TimePasses, Tick
<1>9. CASE Finished \/ UNCHANGED vars
  BY <1>9 DEF Finished, vars
<1> QED BY <1>1, <1>2, <1>3, <1>4, <1>5, <1>6, <1>7, <1>8, <1>9 DEF Next

\* A seat is taken from its holder only by a release or after the deadline.
THEOREM SeatKept == Spec => SeatLostOnlyByReleaseOrDeadline
<1>1. RowInv /\ [Next]_vars =>
        [\A b \in Calls :
            Blocks(b) /\ ~Blocks(b)' =>
                \/ status'[b] \in {"FAILED", "CANCELLED"}
                \/ holdExpiresAt[b] <= now']_vars
  BY StepKeepsSeat DEF KeepsSeat
<1> QED BY <1>1, RowInvInit, RowInvStep, PTL DEF Spec, SeatLostOnlyByReleaseOrDeadline

----------------------------------------------------------------------------
(* The service implements SeatInventory.                                   *)

\* Steps that leave the rows, the clock, the confirms and the history alone are
\* not seen.
LEMMA UnseenStep ==
    ASSUME UNCHANGED <<now, seat, seg, status, holdExpiresAt, confirmVars,
                       stale, unlocked>>
    PROVE  UNCHANGED Inventory!vars
BY DEF Inventory!vars, Inventory!deadlines, Inventory!confirms, Clashing, Lapsed,
       Overdue, Timed, Found, Accepted, Targets, Flawed, confirmVars

\* A confirm that moves on leaves or joins the targets of a set of places.
LEMMA TargetsMove ==
    ASSUME TypeOK, NEW P, NEW q, NEW k \in Confirms,
           confirmPc' = [confirmPc EXCEPT ![k] = q], target' = target
    PROVE  /\ q \in P => Targets(P)' = Targets(P) \cup {target[k]}
           /\ q \notin P => Targets(P)' \in {Targets(P), Targets(P) \ {target[k]}}
<1>1. \A m \in Confirms : confirmPc'[m] = IF m = k THEN q ELSE confirmPc[m]
  BY DEF TypeOK
<1>2. ASSUME q \in P PROVE Targets(P)' = Targets(P) \cup {target[k]}
  BY <1>1, <1>2 DEF Targets
<1>3. ASSUME q \notin P PROVE Targets(P)' \in {Targets(P), Targets(P) \ {target[k]}}
  <2>1. Targets(P)' = {target[m] : m \in {m \in Confirms \ {k} : confirmPc[m] \in P}}
    BY <1>1, <1>3 DEF Targets
  <2>2. CASE \E m \in Confirms \ {k} : confirmPc[m] \in P /\ target[m] = target[k]
    BY <2>1, <2>2 DEF Targets
  <2>3. CASE ~\E m \in Confirms \ {k} : confirmPc[m] \in P /\ target[m] = target[k]
    BY <2>1, <2>3 DEF Targets
  <2> QED BY <2>2, <2>3
<1> QED BY <1>2, <1>3

\* Rows of the table and rows in the hands of a confirm.
LEMMA RowsInHand ==
    ASSUME RowInv
    PROVE  /\ \A b \in Found \cup Accepted : b \in Calls /\ Present(b)
           /\ Timed \subseteq {b \in Calls : Present(b)}
           /\ \A b \in Calls : Inventory!Timed(b) <=> b \in Timed
BY DEF RowInv, TypeOK, Found, Accepted, Targets, Timed, TargetsPresent, Present,
       ConfirmInFlight, Inventory!Timed

\* While the clock stands still, deadlines are only forgotten.
LEMMA DeadlinesKept ==
    ASSUME RowInv, RowInv', UNCHANGED <<now, holdExpiresAt>>, Timed' \subseteq Timed
    PROVE  Inventory!KeepDeadlines
<1>1. \A b \in Calls : Inventory!Timed(b)' <=> b \in Timed'
  BY DEF RowInv, TypeOK, Found, Targets, Timed, ConfirmInFlight, Inventory!Timed
<1>2. Timed \subseteq Calls
  BY RowsInHand
<1> QED BY <1>1, <1>2 DEF Lapsed, Overdue, Inventory!KeepDeadlines

LEMMA InsertClaims ==
    ASSUME SeatInv, NEW c \in Calls, CreateBooking(c)
    PROVE  Inventory!Claim(c)
<1> USE DEF SeatInv, RowInv, TypeOK, LockTypeOK, CreateBooking, Goto, confirmVars,
        lockVars, request
<1>1. ~Present(c) /\ pc[c] = "inserting"
  BY DEF RowsWritten
<1>2. /\ Found' = Found /\ Accepted' = Accepted /\ Timed' = Timed \cup {c}
      /\ c \notin Timed
  <2>1. Found' = Found /\ Accepted' = Accepted
    BY DEF Found, Accepted, Targets
  <2>2. c \notin Timed
    BY <1>1, RowsInHand
  <2> QED BY <2>1, <2>2 DEF Timed
<1>3. Inventory!Age({c})
  <2>0. /\ c \notin Lapsed /\ c \notin Overdue
        /\ Lapsed' = {b \in Timed \cup {c} : holdExpiresAt[b] <= now}
        /\ Overdue' = {b \in Timed \cup {c} : holdExpiresAt[b] < now}
    BY <1>2 DEF Lapsed, Overdue
  <2>1. /\ c \notin Lapsed /\ Lapsed' \in {Lapsed, Lapsed \cup {c}}
        /\ c \notin Overdue /\ Overdue' \in {Overdue, Overdue \cup {c}}
        /\ Overdue' \subseteq Lapsed'
    <3>1. Lapsed' \in {Lapsed, Lapsed \cup {c}}
      BY <2>0 DEF Lapsed
    <3>2. Overdue' \in {Overdue, Overdue \cup {c}}
      BY <2>0 DEF Overdue
    <3>3. Timed \cup {c} \subseteq Calls
      BY RowsInHand
    <3>4. Overdue' \subseteq Lapsed'
      BY <2>0, <3>3
    <3> QED BY <2>0, <3>1, <3>2, <3>4
  <2>2. Lapsed' = Lapsed \cup (Lapsed' \ Lapsed) /\ Lapsed' \ Lapsed \in SUBSET ({c} \ Lapsed)
    BY <2>1
  <2>3. /\ Overdue' = Overdue \cup (Overdue' \ Overdue)
        /\ Overdue' \ Overdue \in SUBSET (({c} \cap Lapsed') \ Overdue)
    BY <2>1
  <2> QED BY <2>2, <2>3 DEF Inventory!Age
<1>4. CASE Holds(c, seat[c])
  <2>1. Inventory!Blockers(c) \subseteq Flawed
    BY <1>1, <1>4 DEF Inventory!Blockers, Inventory!Blocks, Clashing, Lapsed, Timed,
       Present, CheckStaysValid, Blocks, ActiveAt, Flawed
  <2> QED BY <1>1, <1>2, <1>3, <1>4, <2>1
          DEF Inventory!Claim, Inventory!Present, Inventory!confirms, Present, Flawed,
              Clashing
<1>5. CASE ~Holds(c, seat[c])
  BY <1>1, <1>2, <1>3, <1>5
     DEF Inventory!Claim, Inventory!Present, Inventory!confirms, Present, Flawed,
         Clashing
<1> QED BY <1>4, <1>5

LEMMA ReadFinds ==
    ASSUME SeatInv, NEW k \in Confirms, NEW b \in Calls, ReadForConfirm(k, b)
    PROVE  Inventory!Find(b)
<1> USE DEF SeatInv, RowInv, TypeOK, ReadForConfirm, ConfirmGoto, callVars, request,
        rowVars, historyVars, lockVars
<1>1. /\ confirmPc[k] = "idle" /\ confirmPc' = [confirmPc EXCEPT ![k] = "read"]
      /\ target' = [target EXCEPT ![k] = b]
  OBVIOUS
<1>2. Found' = Found \cup {b} /\ Accepted' = Accepted
  BY <1>1 DEF Found, Accepted, Targets
<1>3. Timed' = Timed
  BY <1>2 DEF Timed
<1> QED BY <1>2, <1>3 DEF Inventory!Find, Inventory!deadlines, Lapsed, Overdue, Clashing,
        Flawed

\* What the steps of a confirm that found its row have in common.
LEMMA ConfirmStepFacts ==
    ASSUME SeatInv, NEW k \in Confirms, ConfirmStep(k) \/ CrashConfirm(k)
    PROVE  /\ TypeOK /\ RowInv /\ RowInv'
           /\ target[k] \in Calls /\ Present(target[k])
           /\ confirmPc[k] \in ConfirmInFlight
           /\ \E q \in {"confirming", "expiring", "over"} :
                 confirmPc' = [confirmPc EXCEPT ![k] = q]
           /\ UNCHANGED <<now, seat, seg, holdExpiresAt, target, unlocked>>
<1>1. /\ TypeOK /\ RowInv /\ RowInv'
  <2>1. [Next]_vars
    BY DEF Next
  <2> QED BY <2>1, RowInvStep DEF SeatInv, RowInv
<1>2. /\ confirmPc[k] \in ConfirmInFlight
      /\ \E q \in {"confirming", "expiring", "over"} :
            confirmPc' = [confirmPc EXCEPT ![k] = q]
      /\ UNCHANGED <<now, seat, seg, holdExpiresAt, target, unlocked>>
  BY DEF ConfirmStep, CrashConfirm, DecideExpire, DecideConfirm, WriteExpired,
     WriteConfirmed, ConfirmFails, ConfirmGoto, ConfirmInFlight, lockVars, callVars,
     request, rowVars, historyVars
<1>3. target[k] \in Calls /\ Present(target[k])
  BY <1>1, <1>2 DEF TypeOK, RowInv, TargetsPresent
<1> QED BY <1>1, <1>2, <1>3

LEMMA DecideAccepts ==
    ASSUME SeatInv, NEW k \in Confirms, DecideConfirm(k)
    PROVE  Inventory!Accept(target[k])
<1> DEFINE b == target[k]
<1>1. /\ TypeOK /\ RowInv /\ RowInv' /\ b \in Calls
      /\ UNCHANGED <<now, seat, seg, holdExpiresAt, target, unlocked>>
  BY ConfirmStepFacts DEF ConfirmStep
<1>2. /\ confirmPc[k] = "read" /\ confirmPc' = [confirmPc EXCEPT ![k] = "confirming"]
      /\ holdExpiresAt[b] >= now /\ UNCHANGED <<status, stale>>
  BY DEF DecideConfirm, ConfirmGoto, rowVars, historyVars
<1>3. Found' \in {Found, Found \ {b}} /\ Accepted' = Accepted \cup {b}
  <2>1. "confirming" \notin {"read", "expiring"} /\ "confirming" \in {"confirming"}
    OBVIOUS
  <2>2. Found' \in {Found, Found \ {b}}
    BY <1>1, <1>2, <2>1, TargetsMove DEF Found
  <2>3. Accepted' = Accepted \cup {b}
    BY <1>1, <1>2, <2>1, TargetsMove DEF Accepted
  <2> QED BY <2>2, <2>3
<1>4. b \in Found \ Overdue
  BY <1>1, <1>2 DEF Found, Targets, Overdue, RowInv, TypeOK, LockTypeOK
<1>5. Inventory!KeepDeadlines
  BY <1>1, <1>2, <1>3, DeadlinesKept DEF Timed
<1> QED BY <1>1, <1>2, <1>3, <1>4, <1>5 DEF Inventory!Accept, Clashing, Flawed

LEMMA WriteConfirms ==
    ASSUME SeatInv, NEW k \in Confirms, WriteConfirmed(k)
    PROVE  Inventory!Confirm(target[k])
<1> DEFINE b == target[k]
<1>1. /\ TypeOK /\ RowInv /\ RowInv' /\ b \in Calls
      /\ UNCHANGED <<now, seat, seg, holdExpiresAt, target, unlocked>>
  BY ConfirmStepFacts DEF ConfirmStep
<1>2. /\ confirmPc[k] = "confirming" /\ confirmPc' = [confirmPc EXCEPT ![k] = "over"]
      /\ status' = [status EXCEPT ![b] = "CONFIRMED"]
      /\ stale' = IF ActiveAt(b, now) THEN stale ELSE stale \cup {b}
  BY DEF WriteConfirmed, ConfirmGoto
<1>3. Found' = Found /\ Accepted' \in {Accepted, Accepted \ {b}} /\ b \in Accepted
  BY <1>1, <1>2, TargetsMove DEF Found, Accepted, Targets, TypeOK
<1>4. Inventory!KeepDeadlines
  BY <1>1, <1>2, <1>3, DeadlinesKept DEF Timed, TypeOK
<1>5. Inventory!Blocks(b) <=> ActiveAt(b, now)
  BY <1>1 DEF ActiveAt, Inventory!Blocks, Lapsed, Timed, TypeOK, LockTypeOK
<1> QED BY <1>1, <1>2, <1>3, <1>4, <1>5 DEF Inventory!Confirm, Clashing, Flawed

LEMMA WriteExpires ==
    ASSUME SeatInv, NEW k \in Confirms, WriteExpired(k)
    PROVE  Inventory!Expire(target[k])
<1> DEFINE b == target[k]
<1>1. /\ TypeOK /\ RowInv /\ RowInv' /\ b \in Calls
      /\ UNCHANGED <<now, seat, seg, holdExpiresAt, target, unlocked>>
  BY ConfirmStepFacts DEF ConfirmStep
<1>2. /\ confirmPc[k] = "expiring" /\ confirmPc' = [confirmPc EXCEPT ![k] = "over"]
      /\ status' = [status EXCEPT ![b] = "EXPIRED"] /\ UNCHANGED stale
  BY DEF WriteExpired, ConfirmGoto, historyVars
<1>3. Found' \in {Found, Found \ {b}} /\ Accepted' = Accepted /\ b \in Found
  BY <1>1, <1>2, TargetsMove DEF Found, Accepted, Targets, TypeOK
<1>4. b \in Overdue
  BY <1>1, <1>2, <1>3 DEF Overdue, Timed, RowInv, ExpiringIsLate
<1>5. Inventory!KeepDeadlines
  BY <1>1, <1>2, <1>3, DeadlinesKept DEF Timed, TypeOK
<1> QED BY <1>1, <1>2, <1>3, <1>4, <1>5 DEF Inventory!Expire, Clashing, Flawed

LEMMA FailureForgets ==
    ASSUME SeatInv, NEW k \in Confirms, ConfirmFails(k) \/ CrashConfirm(k)
    PROVE  Inventory!Forget
<1>1. /\ TypeOK /\ RowInv /\ RowInv'
      /\ UNCHANGED <<now, seat, seg, holdExpiresAt, target, unlocked>>
  BY ConfirmStepFacts DEF ConfirmStep
<1>2. /\ confirmPc' = [confirmPc EXCEPT ![k] = "over"]
      /\ UNCHANGED <<status, stale>>
  BY DEF ConfirmFails, CrashConfirm, ConfirmGoto, rowVars, historyVars
<1>3. Found' \subseteq Found /\ Accepted' \subseteq Accepted
  <2>1. "over" \notin {"read", "expiring"} /\ "over" \notin {"confirming"}
    OBVIOUS
  <2>2. Found' \in {Found, Found \ {target[k]}}
    BY <1>1, <1>2, <2>1, TargetsMove DEF Found
  <2>3. Accepted' \in {Accepted, Accepted \ {target[k]}}
    BY <1>1, <1>2, <2>1, TargetsMove DEF Accepted
  <2> QED BY <2>2, <2>3
<1>4. Inventory!KeepDeadlines
  BY <1>1, <1>2, <1>3, DeadlinesKept DEF Timed
<1> QED BY <1>1, <1>2, <1>3, <1>4 DEF Inventory!Forget, Clashing, Flawed

LEMMA ReleaseReleases ==
    ASSUME SeatInv, NEW r \in Releases, NEW b \in Calls, ReleaseBooking(r, b)
    PROVE  Inventory!Release(b)
<1>1. TypeOK /\ RowInv /\ RowInv'
  <2>1. [Next]_vars
    BY DEF Next
  <2> QED BY <2>1, RowInvStep DEF SeatInv, RowInv
<1>2. /\ Present(b)
      /\ \E st \in {"FAILED", "CANCELLED"} : status' = [status EXCEPT ![b] = st]
      /\ UNCHANGED <<now, seat, seg, holdExpiresAt, confirmPc, target, stale, unlocked>>
  BY DEF ReleaseBooking, callVars, request, confirmVars, historyVars
<1>3. Found' = Found /\ Accepted' = Accepted
  BY <1>2 DEF Found, Accepted, Targets
<1>4. Inventory!KeepDeadlines
  BY <1>1, <1>2, <1>3, DeadlinesKept DEF Timed, TypeOK
<1> QED BY <1>2, <1>3, <1>4 DEF Inventory!Release, Inventory!Present, Inventory!confirms,
        Present, Clashing, Flawed

LEMMA TimeLapses ==
    ASSUME SeatInv, TimePasses
    PROVE  Inventory!Lapse
<1>1. /\ now \in Nat /\ now' = now + 1 /\ RowInv
      /\ UNCHANGED <<seat, seg, status, holdExpiresAt, confirmPc, target, stale, unlocked>>
  BY DEF TimePasses, Tick, SeatInv, RowInv, TypeOK, LockTypeOK, callVars, request,
     rowVars, confirmVars, historyVars
<1>2. Found' = Found /\ Accepted' = Accepted /\ Timed' = Timed
  BY <1>1 DEF Found, Accepted, Targets, Timed
<1>3. /\ Timed = {b \in Calls : Inventory!Timed(b)}
      /\ \A b \in Timed : holdExpiresAt[b] \in Nat
  BY <1>1, RowsInHand DEF RowInv, TypeOK
<1>4. /\ Lapsed \subseteq Lapsed' /\ Lapsed' \subseteq Timed
      /\ Overdue \subseteq Overdue' /\ Overdue' \subseteq Lapsed'
  BY <1>1, <1>2, <1>3 DEF Lapsed, Overdue
<1>5. /\ Lapsed' = Lapsed \cup (Lapsed' \ Lapsed)
      /\ Lapsed' \ Lapsed \in SUBSET (Timed \ Lapsed)
      /\ Overdue' = Overdue \cup (Overdue' \ Overdue)
      /\ Overdue' \ Overdue \in SUBSET ((Timed \cap Lapsed') \ Overdue)
  BY <1>4
<1>6. Inventory!Age(Timed)
  BY <1>5 DEF Inventory!Age
<1>7. Inventory!Age({b \in Calls : Inventory!Timed(b)})
  BY <1>3, <1>6
<1> QED BY <1>1, <1>2, <1>7 DEF Inventory!Lapse, Inventory!confirms, Clashing, Flawed

LEMMA StepImplements == SeatInv /\ [Next]_vars => [Inventory!Next]_(Inventory!vars)
<1> DEFINE Goal == [Inventory!Next]_(Inventory!vars)
<1> SUFFICES ASSUME SeatInv, [Next]_vars PROVE Goal
  OBVIOUS
<1> USE DEF lockVars, request, callVars, rowVars, confirmVars, historyVars, otherVars
<1>1. ASSUME NEW c \in Calls, HoldStart(c) PROVE Goal
  BY <1>1, UnseenStep DEF HoldStart, AcquireLock, LockRefused, LockCallFails,
     LockReplyLost
<1>2. ASSUME NEW c \in Calls, HoldStep(c) PROVE Goal
  <2>1. CASE CreateBooking(c)
    BY <2>1, InsertClaims DEF Inventory!Next
  <2>2. CASE PrepareHold(c)
    <3>1. c \notin Timed
      <4>1. ~Present(c)
        BY <2>2 DEF PrepareHold, Goto, SeatInv, RowInv, RowsWritten
      <4> QED BY <4>1, RowsInHand DEF SeatInv
    <3>2. /\ Timed' = Timed /\ Found' = Found /\ Accepted' = Accepted
          /\ Timed \subseteq Calls
      BY <2>2, RowsInHand DEF PrepareHold, Timed, Found, Accepted, Targets, SeatInv
    <3>3. \A b \in Timed : holdExpiresAt'[b] = holdExpiresAt[b]
      BY <2>2, <3>1, <3>2 DEF PrepareHold, SeatInv, RowInv, TypeOK
    <3>4. Lapsed' = Lapsed /\ Overdue' = Overdue
      BY <2>2, <3>2, <3>3 DEF PrepareHold, Lapsed, Overdue
    <3> QED BY <2>2, <3>2, <3>4 DEF PrepareHold, Inventory!vars, Inventory!deadlines,
            Inventory!confirms, Clashing, Flawed
  <2>3. CASE \/ RejectSegment(c) \/ StartCheck(c) \/ FindAvailable(c)
             \/ FindConflict(c) \/ DbCallFails(c) \/ ReleaseLock(c)
             \/ ReleaseLockFails(c)
    BY <2>3, UnseenStep DEF RejectSegment, StartCheck, FindAvailable, FindConflict,
       DbCallFails, ReleaseLock, ReleaseLockFails
  <2> QED BY <1>2, <2>1, <2>2, <2>3 DEF HoldStep
<1>3. ASSUME NEW c \in Calls, CrashHold(c) PROVE Goal
  BY <1>3, UnseenStep DEF CrashHold
<1>4. ASSUME NEW k \in Confirms, ConfirmStart(k) PROVE Goal
  <2>1. ASSUME NEW b \in Calls, ReadForConfirm(k, b) PROVE Goal
    BY <2>1, ReadFinds DEF Inventory!Next
  <2>2. ASSUME NEW b \in Calls, RefuseConfirm(k, b) PROVE Goal
    <3>1. confirmPc[k] = "idle" /\ confirmPc' = [confirmPc EXCEPT ![k] = "over"]
      BY <2>2 DEF RefuseConfirm, ConfirmGoto
    <3>2. Found' = Found /\ Accepted' = Accepted
      BY <2>2, <3>1 DEF RefuseConfirm, Found, Accepted, Targets, SeatInv, RowInv, TypeOK
    <3> QED BY <2>2, <3>2 DEF RefuseConfirm, Inventory!vars, Inventory!deadlines,
            Inventory!confirms, Timed, Lapsed, Overdue, Clashing, Flawed
  <2> QED BY <1>4, <2>1, <2>2 DEF ConfirmStart
<1>5. ASSUME NEW k \in Confirms, ConfirmStep(k) \/ CrashConfirm(k) PROVE Goal
  <2>0. target[k] \in Calls
    BY <1>5, ConfirmStepFacts
  <2>1. CASE WriteConfirmed(k)
    BY <2>0, <2>1, WriteConfirms DEF Inventory!Next
  <2>2. CASE WriteExpired(k)
    BY <2>0, <2>2, WriteExpires DEF Inventory!Next
  <2>3. CASE DecideConfirm(k)
    BY <2>0, <2>3, DecideAccepts DEF Inventory!Next
  <2>4. CASE ConfirmFails(k) \/ CrashConfirm(k)
    BY <2>4, FailureForgets DEF Inventory!Next
  <2>5. CASE DecideExpire(k)
    <3>1. /\ confirmPc[k] = "read" /\ confirmPc' = [confirmPc EXCEPT ![k] = "expiring"]
          /\ UNCHANGED <<now, seat, seg, rowVars, target, stale, unlocked>>
      BY <2>5 DEF DecideExpire, ConfirmGoto, callVars, request, historyVars
    <3>2. Found' = Found /\ Accepted' = Accepted
      BY <3>1 DEF Found, Accepted, Targets, SeatInv, RowInv, TypeOK
    <3> QED BY <3>1, <3>2 DEF rowVars, Inventory!vars, Inventory!deadlines,
            Inventory!confirms, Timed, Lapsed, Overdue, Clashing, Flawed
  <2> QED BY <1>5, <2>1, <2>2, <2>3, <2>4, <2>5 DEF ConfirmStep
<1>6. ASSUME NEW r \in Releases, NEW b \in Calls, ReleaseBooking(r, b) PROVE Goal
  BY <1>6, ReleaseReleases DEF Inventory!Next
<1>7. CASE TimePasses
  BY <1>7, TimeLapses DEF Inventory!Next
<1>8. CASE Finished \/ UNCHANGED vars
  BY <1>8, UnseenStep DEF Finished, vars
<1> QED BY <1>1, <1>2, <1>3, <1>4, <1>5, <1>6, <1>7, <1>8 DEF Next

\* The booking service implements SeatInventory: its callers may forget the lock,
\* the query and the interleavings of its awaits.
THEOREM InventoryImplemented == Spec => ImplementsInventory
<1>1. Init => Inventory!Init
  BY OverlapsSymmetric DEF Init, Inventory!Init, Clashing, Lapsed, Overdue, Timed,
     Found, Accepted, Targets, Flawed
<1> QED BY <1>1, SeatInvCorrect, StepImplements, PTL
        DEF Spec, ImplementsInventory, Inventory!Spec

----------------------------------------------------------------------------
(* Progress.  That a call is answered needs fairness; that it cannot go in  *)
(* circles does not.                                                        *)

CallRank == [idle |-> 0, locked |-> 1, querying |-> 2, available |-> 3,
             inserting |-> 4, releasing |-> 5, over |-> 6]

ConfirmRank == [idle |-> 0, read |-> 1, confirming |-> 2, expiring |-> 2, over |-> 3]

Forward(c) == pc'[c] # pc[c] => CallRank[pc'[c]] > CallRank[pc[c]]

ConfirmForward(k) ==
    confirmPc'[k] # confirmPc[k] => ConfirmRank[confirmPc'[k]] > ConfirmRank[confirmPc[k]]

LEMMA ForwardStep ==
    TypeOK /\ [Next]_vars =>
        (\A c \in Calls : Forward(c)) /\ \A k \in Confirms : ConfirmForward(k)
<1> DEFINE Goal == (\A c \in Calls : Forward(c)) /\ \A k \in Confirms : ConfirmForward(k)
<1> SUFFICES ASSUME TypeOK, [Next]_vars PROVE Goal
  OBVIOUS
<1> USE DEF TypeOK, Forward, ConfirmForward, confirmVars, callVars, otherVars
<1>1. ASSUME NEW c \in Calls, NEW p \in CallPc, NEW q \in CallPc, Goto(c, p, q),
             CallRank[q] > CallRank[p], UNCHANGED confirmPc
      PROVE  Goal
  BY <1>1 DEF Goto
<1>2. ASSUME NEW k \in Confirms, NEW p \in ConfirmPc, NEW q \in ConfirmPc,
             ConfirmGoto(k, p, q), ConfirmRank[q] > ConfirmRank[p], UNCHANGED pc
      PROVE  Goal
  BY <1>2 DEF ConfirmGoto
<1>3. ASSUME NEW c \in Calls, HoldStart(c) PROVE Goal
  BY <1>1, <1>3 DEF HoldStart, AcquireLock, LockRefused, LockCallFails, LockReplyLost,
     CallPc, InFlight, CallRank
<1>4. ASSUME NEW c \in Calls, HoldStep(c) PROVE Goal
  <2>1. CASE RejectSegment(c) \/ StartCheck(c) \/ FindAvailable(c) \/ FindConflict(c)
    BY <1>1, <2>1 DEF RejectSegment, StartCheck, FindAvailable, FindConflict,
       CallPc, InFlight, CallRank
  <2>2. CASE PrepareHold(c) \/ CreateBooking(c) \/ DbCallFails(c)
    BY <1>1, <2>2 DEF PrepareHold, CreateBooking, DbCallFails, CallPc, InFlight, CallRank
  <2>3. CASE ReleaseLock(c) \/ ReleaseLockFails(c)
    BY <1>1, <2>3 DEF ReleaseLock, ReleaseLockFails, CallPc, InFlight, CallRank
  <2> QED BY <1>4, <2>1, <2>2, <2>3 DEF HoldStep
<1>5. ASSUME NEW c \in Calls, CrashHold(c) PROVE Goal
  BY <1>1, <1>5 DEF CrashHold, CallPc, InFlight, CallRank
<1>6. ASSUME NEW k \in Confirms, ConfirmStart(k) \/ ConfirmStep(k) \/ CrashConfirm(k)
      PROVE  Goal
  BY <1>2, <1>6 DEF ConfirmStart, ReadForConfirm, RefuseConfirm, ConfirmStep, DecideExpire,
     DecideConfirm, WriteExpired, WriteConfirmed, ConfirmFails, CrashConfirm,
     ConfirmPc, ConfirmInFlight, ConfirmRank
<1>7. ASSUME NEW r \in Releases, NEW b \in Calls, ReleaseBooking(r, b) PROVE Goal
  BY <1>7 DEF ReleaseBooking
<1>8. CASE TimePasses \/ Finished \/ UNCHANGED vars
  BY <1>8 DEF TimePasses, Finished, vars
<1> QED BY <1>3, <1>4, <1>5, <1>6, <1>7, <1>8 DEF Next

\* A createHold and a confirmBooking only go forward, in at most six and three moves:
\* no answer, refusal or failure makes one of them ask again.  The safety half of
\* EveryCallFinishes.
THEOREM CallsGoForward ==
    Spec => [][/\ \A c \in Calls :
                      pc'[c] # pc[c] => CallRank[pc'[c]] > CallRank[pc[c]]
               /\ \A k \in Confirms :
                      confirmPc'[k] # confirmPc[k] =>
                          ConfirmRank[confirmPc'[k]] > ConfirmRank[confirmPc[k]]]_vars
<1>1. TypeOK /\ [Next]_vars =>
          [/\ \A c \in Calls :
                 pc'[c] # pc[c] => CallRank[pc'[c]] > CallRank[pc[c]]
           /\ \A k \in Confirms :
                 confirmPc'[k] # confirmPc[k] =>
                     ConfirmRank[confirmPc'[k]] > ConfirmRank[confirmPc[k]]]_vars
  BY ForwardStep DEF Forward, ConfirmForward
<1> QED BY <1>1, TypeInit, TypeStep, PTL DEF Spec

----------------------------------------------------------------------------
(* Dead calls.  DeadCallUnblocksSeat needs a fair clock; how late it comes, *)
(* by that clock, does not.                                                 *)

\* Deadlines lie at most their length ahead, and only a running call sets one.
DeadlinesNear ==
    \A c \in Calls :
        /\ lockUntil[c] <= now + LockTTL
        /\ holdExpiresAt[c] <= now + HoldDuration

DeadlinesStay(c) ==
    pc[c] = "over" => /\ pc'[c] = "over"
                      /\ lockUntil'[c] = lockUntil[c]
                      /\ holdExpiresAt'[c] = holdExpiresAt[c]

LEMMA DeadlineSteps ==
    TypeOK /\ DeadlinesNear /\ [Next]_vars =>
        DeadlinesNear' /\ now' >= now /\ \A c \in Calls : DeadlinesStay(c)
<1> DEFINE Goal == DeadlinesNear' /\ now' >= now /\ \A c \in Calls : DeadlinesStay(c)
<1> SUFFICES ASSUME TypeOK, DeadlinesNear, [Next]_vars PROVE Goal
  OBVIOUS
<1>1. /\ pc \in [Calls -> CallPc] /\ now \in Nat
      /\ lockUntil \in [Calls -> Nat] /\ holdExpiresAt \in [Calls -> Nat]
      /\ LockTTL \in Nat /\ HoldDuration \in Nat
  BY SeatLockAssumption, BookingAssumption DEF TypeOK, LockTypeOK
<1> DEFINE Kept == UNCHANGED <<now, lockUntil, holdExpiresAt>>
<1>2. ASSUME Kept, UNCHANGED pc PROVE Goal
  BY <1>1, <1>2 DEF DeadlinesNear, DeadlinesStay
<1>3. ASSUME NEW c \in Calls, NEW p, NEW q, p # "over", Goto(c, p, q), Kept PROVE Goal
  BY <1>1, <1>3 DEF Goto, DeadlinesNear, DeadlinesStay
<1>4. ASSUME NEW c \in Calls, HoldStart(c) PROVE Goal
  <2>1. CASE AcquireLock(c) \/ LockReplyLost(c)
    BY <1>1, <2>1 DEF AcquireLock, LockReplyLost, SetNX, Goto, rowVars,
       DeadlinesNear, DeadlinesStay
  <2>2. CASE LockRefused(c) \/ LockCallFails(c)
    BY <1>3, <2>2 DEF LockRefused, LockCallFails, lockVars, rowVars
  <2> QED BY <1>4, <2>1, <2>2 DEF HoldStart
<1>5. ASSUME NEW c \in Calls, HoldStep(c) PROVE Goal
  <2>1. CASE PrepareHold(c)
    BY <1>1, <2>1 DEF PrepareHold, Goto, lockVars, DeadlinesNear, DeadlinesStay
  <2>2. CASE ReleaseLock(c)
    BY <1>1, <2>2 DEF ReleaseLock, CheckAndDelete, Goto, lockVars, rowVars,
       DeadlinesNear, DeadlinesStay
  <2>3. CASE RejectSegment(c) \/ StartCheck(c) \/ FindAvailable(c) \/ FindConflict(c)
    BY <1>3, <2>3 DEF RejectSegment, StartCheck, FindAvailable, FindConflict,
       lockVars, rowVars
  <2>4. CASE CreateBooking(c) \/ DbCallFails(c) \/ ReleaseLockFails(c)
    BY <1>3, <2>4 DEF CreateBooking, DbCallFails, ReleaseLockFails, lockVars, rowVars
  <2> QED BY <1>5, <2>1, <2>2, <2>3, <2>4 DEF HoldStep
<1>6. ASSUME NEW c \in Calls, CrashHold(c) PROVE Goal
  BY <1>3, <1>6 DEF CrashHold, InFlight, lockVars, rowVars
<1>7. ASSUME NEW k \in Confirms, ConfirmStart(k) PROVE Goal
  BY <1>2, <1>7 DEF ConfirmStart, ReadForConfirm, RefuseConfirm, lockVars, callVars, rowVars
<1>8. ASSUME NEW k \in Confirms, ConfirmStep(k) \/ CrashConfirm(k) PROVE Goal
  BY <1>2, <1>8 DEF ConfirmStep, DecideExpire, DecideConfirm, WriteExpired, WriteConfirmed,
     ConfirmFails, CrashConfirm, lockVars, callVars, rowVars
<1>9. ASSUME NEW r \in Releases, NEW b \in Calls, ReleaseBooking(r, b) PROVE Goal
  BY <1>2, <1>9 DEF ReleaseBooking, lockVars, callVars
<1>10. CASE TimePasses
  BY <1>1, <1>10 DEF TimePasses, Tick, lockVars, callVars, rowVars,
     DeadlinesNear, DeadlinesStay
<1>11. CASE Finished \/ UNCHANGED vars
  BY <1>2, <1>11 DEF Finished, vars
<1> QED BY <1>4, <1>5, <1>6, <1>7, <1>8, <1>9, <1>10, <1>11 DEF Next

\* A createHold that is over at time t, answered or dead with its process at any
\* await, has given up the lock at t + LOCK_TTL_MS and its hold at t +
\* HOLD_DURATION_MINUTES, for good: the safety half of DeadCallUnblocksSeat, which
\* also bounds the time.
THEOREM DeadCallUnblocksInTime ==
    ASSUME NEW c \in Calls, NEW t \in Nat
    PROVE  Spec => [](pc[c] = "over" /\ now <= t =>
                        [](/\ now >= t + LockTTL => ~Holds(c, seat[c])
                           /\ now >= t + HoldDuration /\ status[c] = "PENDING"
                                => ~Blocks(c)))
<1> USE SeatLockAssumption, BookingAssumption DEF TypeOK, LockTypeOK
<1> DEFINE Inv == TypeOK /\ DeadlinesNear
           Dying == pc[c] = "over" /\ now <= t
           Dead == /\ pc[c] = "over"
                   /\ lockUntil[c] <= t + LockTTL
                   /\ holdExpiresAt[c] <= t + HoldDuration
           GivenUp == /\ now >= t + LockTTL => ~Holds(c, seat[c])
                      /\ now >= t + HoldDuration /\ status[c] = "PENDING" => ~Blocks(c)
<1>1. Init => Inv
  <2> SUFFICES ASSUME Init PROVE Inv
    OBVIOUS
  <2>1. TypeOK
    BY TypeInit
  <2> QED BY <2>1 DEF Init, LockInit, DeadlinesNear
<1>2. Inv /\ [Next]_vars => Inv'
  BY TypeStep, DeadlineSteps
<1>3. Inv /\ Dying => Dead
  BY DEF DeadlinesNear
<1>4. Inv /\ Dead /\ [Next]_vars => Dead'
  BY DeadlineSteps DEF DeadlinesStay
<1>5. Inv /\ Dead => GivenUp
  BY DEF Holds, Blocks, ActiveAt
<1> QED BY <1>1, <1>2, <1>3, <1>4, <1>5, PTL DEF Spec

----------------------------------------------------------------------------
(* A punctual service.  The two causes of a double booking are matters of   *)
(* timing; where the timing is right the seat is safe.                      *)

\* Inserts reach the database before the lock lapses, updates to CONFIRMED before
\* the hold does and before any release of the row.
Punctual ==
    /\ \A c \in Calls : pc[c] = "inserting" => now < lockUntil[c]
    /\ \A k \in Confirms : confirmPc[k] = "confirming" =>
          /\ now < holdExpiresAt[target[k]]
          /\ status[target[k]] \notin {"FAILED", "CANCELLED"}

\* Only rows past their deadline are expired.
ExpiredIsLate ==
    \A b \in Calls : status[b] = "EXPIRED" => holdExpiresAt[b] < now

NoFlaws == stale = {} /\ unlocked = {}

PunctualInv == RowInv /\ LockHeldUntilDeadline /\ ExpiredIsLate /\ NoFlaws

\* A confirm in time finds a row that blocks its seat.
LEMMA ConfirmInTime ==
    ASSUME PunctualInv, Punctual, NEW k \in Confirms, confirmPc[k] = "confirming"
    PROVE  /\ target[k] \in Calls
           /\ status[target[k]] \in {"PENDING", "CONFIRMED"}
           /\ ActiveAt(target[k], now)
<1>1. target[k] \in Calls /\ Present(target[k]) /\ status[target[k]] \in RowStatus
  BY DEF PunctualInv, RowInv, TypeOK, TargetsPresent, ConfirmInFlight
<1>2. /\ now < holdExpiresAt[target[k]]
      /\ status[target[k]] \notin {"FAILED", "CANCELLED", "EXPIRED"}
      /\ now \in Nat /\ holdExpiresAt[target[k]] \in Nat
  BY <1>1 DEF Punctual, PunctualInv, ExpiredIsLate, RowInv, TypeOK, LockTypeOK
<1> QED BY <1>1, <1>2 DEF Present, ActiveAt, RowStatus, Status

LEMMA PunctualStep ==
    PunctualInv /\ Punctual /\ [Next]_vars =>
        /\ ExpiredIsLate' /\ NoFlaws'
        /\ \A b \in Calls : status'[b] = "CONFIRMED" /\ status[b] # "CONFIRMED"
                               => status[b] = "PENDING"
<1> DEFINE Goal == /\ ExpiredIsLate' /\ NoFlaws'
                   /\ \A b \in Calls : status'[b] = "CONFIRMED" /\ status[b] # "CONFIRMED"
                                          => status[b] = "PENDING"
<1> SUFFICES ASSUME PunctualInv, Punctual, [Next]_vars PROVE Goal
  OBVIOUS
<1> USE DEF ExpiredIsLate, NoFlaws
<1>1. /\ TypeOK /\ RowsWritten /\ ExpiringIsLate /\ TargetsPresent
      /\ LockHeldUntilDeadline /\ ExpiredIsLate /\ NoFlaws
  BY DEF PunctualInv, RowInv
<1>2. now \in Nat /\ now' \in Nat /\ now <= now'
  <2>1. CASE TimePasses
    BY <1>1, <2>1 DEF TimePasses, Tick, TypeOK, LockTypeOK
  <2>2. CASE ~TimePasses
    <3>1. UNCHANGED now
      BY <2>2 DEF Next, HoldStart, HoldStep, ConfirmStart, ConfirmStep, AcquireLock,
         LockRefused, LockCallFails, LockReplyLost, RejectSegment, StartCheck,
         FindAvailable, FindConflict, PrepareHold, CreateBooking, DbCallFails,
         ReleaseLock, ReleaseLockFails, CrashHold, ReadForConfirm, RefuseConfirm,
         DecideExpire, DecideConfirm, WriteExpired, WriteConfirmed, ConfirmFails,
         CrashConfirm, ReleaseBooking, Finished, vars
    <3> QED BY <1>1, <3>1 DEF TypeOK, LockTypeOK
  <2> QED BY <2>1, <2>2
\* A step that leaves the rows and their history alone.
<1>3. ASSUME UNCHANGED <<status, holdExpiresAt, stale, unlocked>> PROVE Goal
  BY <1>1, <1>2, <1>3 DEF TypeOK
<1>4. ASSUME NEW c \in Calls, HoldStart(c) \/ HoldStep(c) \/ CrashHold(c) PROVE Goal
  <2>1. CASE PrepareHold(c)
    BY <1>1, <1>2, <2>1 DEF PrepareHold, Goto, RowsWritten, Present, TypeOK, otherVars,
       historyVars
  <2>2. CASE CreateBooking(c)
    <3>1. Holds(c, seat[c])
      BY <1>1, <2>2 DEF CreateBooking, Goto, Punctual, LockHeldUntilDeadline, InFlight,
         Holds
    <3> QED BY <1>1, <1>2, <2>2, <3>1 DEF CreateBooking, TypeOK
  <2>3. CASE ~PrepareHold(c) /\ ~CreateBooking(c)
    BY <1>3, <1>4, <2>3
       DEF HoldStart, HoldStep, AcquireLock, LockRefused, LockCallFails, LockReplyLost,
           RejectSegment, StartCheck, FindAvailable, FindConflict, DbCallFails,
           ReleaseLock, ReleaseLockFails, CrashHold, rowVars, otherVars, historyVars
  <2> QED BY <2>1, <2>2, <2>3
<1>5. ASSUME NEW k \in Confirms, ConfirmStart(k) \/ ConfirmStep(k) \/ CrashConfirm(k)
      PROVE  Goal
  <2>1. CASE WriteConfirmed(k)
    <3>1. /\ target[k] \in Calls
          /\ status[target[k]] \in {"PENDING", "CONFIRMED"}
          /\ ActiveAt(target[k], now)
      BY <2>1, ConfirmInTime DEF WriteConfirmed, ConfirmGoto
    <3> QED BY <1>1, <1>2, <2>1, <3>1 DEF WriteConfirmed, TypeOK
  <2>2. CASE WriteExpired(k)
    <3>1. target[k] \in Calls /\ holdExpiresAt[target[k]] < now
      BY <1>1, <2>2 DEF WriteExpired, ConfirmGoto, TypeOK, ExpiringIsLate, ConfirmInFlight
    <3> QED BY <1>1, <1>2, <2>2, <3>1 DEF WriteExpired, TypeOK, historyVars
  <2>3. CASE ~WriteConfirmed(k) /\ ~WriteExpired(k)
    BY <1>3, <1>5, <2>3
       DEF ConfirmStart, ConfirmStep, ReadForConfirm, RefuseConfirm, DecideExpire,
           DecideConfirm, ConfirmFails, CrashConfirm, rowVars, historyVars
  <2> QED BY <2>1, <2>2, <2>3
<1>6. ASSUME NEW r \in Releases, NEW b \in Calls, ReleaseBooking(r, b) PROVE Goal
  BY <1>1, <1>2, <1>6 DEF ReleaseBooking, TypeOK, historyVars
<1>7. CASE TimePasses \/ Finished \/ UNCHANGED vars
  BY <1>3, <1>7 DEF TimePasses, Finished, vars, rowVars, historyVars
<1> QED BY <1>4, <1>5, <1>6, <1>7 DEF Next

\* What it takes to sell no seat twice and to revive no booking: where every insert
\* is made within LOCK_TTL_MS, and every confirm within the hold and not across a
\* release, both documented promises hold that NoDoubleBooking and OnlyPendingConfirmed
\* state and that the code breaks in general.
THEOREM PunctualServiceIsSafe ==
    Spec /\ []Punctual => []NoDoubleBooking /\ OnlyPendingConfirmed
<1>1. Init => PunctualInv
  <2> SUFFICES ASSUME Init PROVE PunctualInv
    OBVIOUS
  <2>1. RowInv
    BY RowInvInit
  <2> QED BY <2>1 DEF Init, LockInit, PunctualInv, LockHeldUntilDeadline, InFlight,
          ExpiredIsLate, NoFlaws
<1>2. PunctualInv /\ Punctual /\ [Next]_vars => PunctualInv'
  BY RowInvStep, LockInvStep, PunctualStep DEF PunctualInv, RowInv
<1>3. PunctualInv /\ OverlapExplained => NoDoubleBooking
  BY DEF PunctualInv, NoFlaws, OverlapExplained, NoDoubleBooking
<1>4. PunctualInv /\ Punctual /\ [Next]_vars =>
          [\A b \in Calls : status'[b] = "CONFIRMED" /\ status[b] # "CONFIRMED"
                               => status[b] = "PENDING"]_vars
  BY PunctualStep
<1> QED BY <1>1, <1>2, <1>3, <1>4, DoubleBookingExplained, PTL
        DEF Spec, OnlyPendingConfirmed
=============================================================================
