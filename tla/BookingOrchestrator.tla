------------------------ MODULE BookingOrchestrator ------------------------
(***************************************************************************)
(* booking-orchestrator: the booking saga (hold, charge, confirm or        *)
(* release, publish) and the cancellation (refund, release, publish).      *)
(*                                                                         *)
(* A saga lives in one HTTP request; nothing of it is stored.  It calls    *)
(* the two services with a 5 second timeout, and a request that timed out  *)
(* may still take effect.  A saga names its booking row and, its key being *)
(* "booking-" + id, its payment row.  All sagas ask for the same seat and  *)
(* overlapping segments; others do not meet.  The services do one row      *)
(* update per step and, of what happens inside them, all that SeatInventory*)
(* and PaymentLedger allow, which BookingService and PaymentService        *)
(* implement.                                                              *)
(***************************************************************************)
EXTENDS Naturals

CONSTANTS
    Sagas,      \* confirmBooking requests
    Cancels     \* cancelBooking requests

ASSUME OrchestratorAssumption == Sagas \cap Cancels = {}

VARIABLES
    pc,         \* pc[a]: the call that request a waits for, or idle or over
    answer,     \* answer[a]: what that call returned, NONE before it does
    pending,    \* calls sent to a service that have not taken effect
    booking,    \* booking[i]: status of saga i's row in the booking service
    lapsed,     \* of the rows whose deadline still counts, those that reached it
    overdue,    \* those that are past it
    payment,    \* payment[i]: status of the row under saga i's key
    flawed,     \* history: rows held or confirmed without a sound check
    outcome,    \* outcome[a]: what the caller was told
    events,     \* what was sent to Kafka: <<event, booking>>
    cancelOf,   \* cancelOf[x]: the booking a cancellation names
    withRefund, \* the cancellations that name a payment
    unrefunded  \* history: those whose refund failed or was not heard of

deadlines   == <<lapsed, overdue>>
serviceVars == <<booking, deadlines, payment, flawed>>
cancelVars  == <<cancelOf, withRefund, unrefunded>>
vars == <<pc, answer, pending, booking, deadlines, payment, flawed, outcome,
          events, cancelVars>>

Actors == Sagas \cup Cancels

BookingStatus == {"ABSENT", "PENDING", "CONFIRMED", "FAILED", "CANCELLED", "EXPIRED"}

PaymentStatus == {"ABSENT", "SUCCEEDED", "FAILED", "REFUNDED"}

SagaCall == {"hold", "charge", "confirm", "release", "compensate"}

CancelCall == {"refund", "cancel"}

\* Between its read and its update a confirm request is one of these: it found
\* the row PENDING, and it accepted it.
ConfirmUpdate == {"found", "accepted"}

Publishing == {"publishConfirmed", "publishFailed", "publishCancelled"}

Answer == {"NONE", "OK", "ERROR", "SUCCEEDED", "FAILED"}

Event == {"BookingConfirmed", "BookingFailed", "BookingCancelled"}

TypeOK ==
    /\ pc \in [Actors -> SagaCall \cup CancelCall \cup Publishing \cup {"idle", "over"}]
    /\ answer \in [Actors -> Answer]
    /\ pending \subseteq (Sagas \X (SagaCall \cup ConfirmUpdate))
                          \cup (Cancels \X CancelCall)
    /\ booking \in [Sagas -> BookingStatus]
    /\ lapsed \subseteq Sagas
    /\ overdue \subseteq lapsed
    /\ payment \in [Sagas -> PaymentStatus]
    /\ flawed \subseteq Sagas
    /\ outcome \in [Actors -> {"NONE", "SUCCESS", "DECLINED", "ERROR"}]
    /\ events \subseteq Event \X Sagas
    /\ cancelOf \in [Cancels -> Sagas]
    /\ withRefund \subseteq Cancels
    /\ unrefunded \subseteq Cancels

Init ==
    /\ pc = [a \in Actors |-> "idle"]
    /\ answer = [a \in Actors |-> "NONE"]
    /\ pending = {}
    /\ booking = [i \in Sagas |-> "ABSENT"]
    /\ lapsed = {}
    /\ overdue = {}
    /\ payment = [i \in Sagas |-> "ABSENT"]
    /\ flawed = {}
    /\ outcome = [a \in Actors |-> "NONE"]
    /\ events = {}
    /\ cancelOf \in [Cancels -> Sagas]
    /\ withRefund \in SUBSET Cancels
    /\ unrefunded = {}

----------------------------------------------------------------------------
(* The services, as the orchestrator's clients see them.                   *)

\* The answer to call r reaches request a, unless a has given up waiting.
Respond(a, r, v) ==
    answer' = IF pc[a] = r /\ answer[a] = "NONE"
              THEN [answer EXCEPT ![a] = v] ELSE answer

Executed(a, r) == <<a, r>> \in pending /\ pending' = pending \ {<<a, r>>}

SetBooking(i, st) == booking' = [booking EXCEPT ![i] = st]

\* Mutant: a hold blocks the seat whatever its age.
PendingBlocks(i) == booking[i] \in {"PENDING", "CONFIRMED"}

\* A row that findActiveBookingsForSeat returns.
Blocks(i) == booking[i] = "CONFIRMED" \/ (booking[i] = "PENDING" /\ i \notin lapsed)

\* The rows whose deadline somebody will still look at; others are forgotten.
Timed(i) == booking[i] = "PENDING" \/ <<i, "found">> \in pending

KeepDeadlines ==
    /\ lapsed' = {i \in lapsed : Timed(i)'}
    /\ overdue' = {i \in overdue : Timed(i)'}

\* Of the rows in R some more reach their deadline, and some of these pass it.
Age(R) ==
    \E due \in SUBSET (R \ lapsed) :
        /\ lapsed' = lapsed \cup due
        /\ \E late \in SUBSET ((R \cap lapsed') \ overdue) :
              overdue' = overdue \cup late

\* createHold inserts the row, or finds a conflict.  It may insert in spite of
\* one: its lock may have lapsed, see BookingService.
CreateHold(i) ==
    /\ Executed(i, "hold")
    /\ \/ /\ SetBooking(i, "PENDING") /\ Respond(i, "hold", "OK")
          /\ Age({i})
          /\ \/ (\A j \in Sagas \ {i} : Blocks(j) => j \in flawed) /\ flawed' = flawed
             \/ flawed' = flawed \cup {i}
       \/ /\ \E j \in Sagas : Blocks(j)
          /\ UNCHANGED <<booking, deadlines, flawed>> /\ Respond(i, "hold", "ERROR")
    /\ UNCHANGED <<pc, payment, outcome, events, cancelVars>>

\* Time passes: holds reach or pass their deadlines.
HoldsAge ==
    /\ Age({i \in Sagas : Timed(i)})
    /\ UNCHANGED <<pc, answer, pending, booking, payment, flawed, outcome, events,
                   cancelVars>>

\* charge: the first call under its key.
Charge(i) ==
    /\ Executed(i, "charge")
    /\ \E st \in {"SUCCEEDED", "FAILED"} :
          payment' = [payment EXCEPT ![i] = st] /\ Respond(i, "charge", st)
    /\ UNCHANGED <<pc, booking, deadlines, flawed, outcome, events, cancelVars>>

\* confirmBooking of the booking service reads a row.
ConfirmReads(i) ==
    /\ <<i, "confirm">> \in pending
    /\ booking[i] = "PENDING"
    /\ pending' = (pending \ {<<i, "confirm">>}) \cup {<<i, "found">>}
    /\ UNCHANGED <<pc, answer, serviceVars, outcome, events, cancelVars>>

ConfirmRefused(i) ==
    /\ booking[i] # "PENDING"
    /\ Executed(i, "confirm")
    /\ Respond(i, "confirm", "ERROR")
    /\ UNCHANGED <<pc, serviceVars, outcome, events, cancelVars>>

\* Mutant: the deadline is not looked at.
ConfirmAcceptsLate(i) ==
    /\ <<i, "found">> \in pending
    /\ pending' = (pending \ {<<i, "found">>}) \cup {<<i, "accepted">>}
    /\ UNCHANGED <<pc, answer, booking, payment, flawed, outcome, events, cancelVars>>
    /\ KeepDeadlines

\* ... looks at its deadline, not yet passed ...
ConfirmAccepts(i) ==
    /\ <<i, "found">> \in pending
    /\ i \notin overdue
    /\ pending' = (pending \ {<<i, "found">>}) \cup {<<i, "accepted">>}
    /\ UNCHANGED <<pc, answer, booking, payment, flawed, outcome, events, cancelVars>>
    /\ KeepDeadlines

\* ... and updates it, whatever became of it meanwhile.
ConfirmWrites(i) ==
    /\ \/ /\ Executed(i, "accepted")
          /\ SetBooking(i, "CONFIRMED") /\ Respond(i, "confirm", "OK")
          /\ flawed' = IF Blocks(i) THEN flawed ELSE flawed \cup {i}
       \/ /\ Executed(i, "found") /\ i \in overdue
          /\ SetBooking(i, "EXPIRED") /\ Respond(i, "confirm", "ERROR")
          /\ UNCHANGED flawed
    /\ UNCHANGED <<pc, payment, outcome, events, cancelVars>>
    /\ KeepDeadlines

\* releaseBooking, for a payment failure or a cancellation.
Release(i) ==
    /\ \E r \in {"release", "compensate"} :
          Executed(i, r) /\ SetBooking(i, "FAILED") /\ Respond(i, r, "OK")
    /\ UNCHANGED <<pc, payment, flawed, outcome, events, cancelVars>>
    /\ KeepDeadlines

ReleaseCancelled(x) ==
    /\ Executed(x, "cancel")
    /\ SetBooking(cancelOf[x], "CANCELLED")
    /\ Respond(x, "cancel", "OK")
    /\ UNCHANGED <<pc, payment, flawed, outcome, events, cancelVars>>
    /\ KeepDeadlines

\* Mutant: the payment's status is not looked at.
RefundAny(x) ==
    /\ Executed(x, "refund")
    /\ payment' = [payment EXCEPT ![cancelOf[x]] = "REFUNDED"]
    /\ Respond(x, "refund", "OK")
    /\ UNCHANGED <<pc, booking, deadlines, flawed, outcome, events, cancelVars>>

\* refund, or its refusal of a payment that is not SUCCEEDED.
Refund(x) ==
    /\ Executed(x, "refund")
    /\ IF payment[cancelOf[x]] = "SUCCEEDED"
       THEN payment' = [payment EXCEPT ![cancelOf[x]] = "REFUNDED"]
            /\ Respond(x, "refund", "OK")
       ELSE UNCHANGED payment /\ Respond(x, "refund", "ERROR")
    /\ UNCHANGED <<pc, booking, deadlines, flawed, outcome, events, cancelVars>>

\* A call fails without effect: refused connection, failing database, crash of
\* the service.
CallFails(a, r) ==
    /\ Executed(a, r)
    /\ Respond(a, IF r \in ConfirmUpdate THEN "confirm" ELSE r, "ERROR")
    /\ UNCHANGED <<pc, booking, payment, flawed, outcome, events, cancelVars>>
    /\ KeepDeadlines

\* The caller hears nothing within the timeout, or its answer is lost.
TimesOut(a) ==
    /\ pc[a] \in SagaCall \cup CancelCall
    /\ answer[a] # "ERROR"
    /\ answer' = [answer EXCEPT ![a] = "ERROR"]
    /\ UNCHANGED <<pc, pending, serviceVars, outcome, events, cancelVars>>

----------------------------------------------------------------------------
(* confirmBooking: the saga.                                               *)

\* The request awaits its next call.
Call(a, r) ==
    /\ pc' = [pc EXCEPT ![a] = r]
    /\ answer' = [answer EXCEPT ![a] = "NONE"]
    /\ pending' = pending \cup {<<a, r>>}
    /\ UNCHANGED outcome

\* It awaits an event's delivery to Kafka.
Publish(a, p) ==
    /\ pc' = [pc EXCEPT ![a] = p]
    /\ answer' = [answer EXCEPT ![a] = "NONE"]
    /\ UNCHANGED <<pending, outcome>>

\* It returns or throws.
Finish(a, o) ==
    /\ pc' = [pc EXCEPT ![a] = "over"]
    /\ answer' = [answer EXCEPT ![a] = "NONE"]
    /\ outcome' = [outcome EXCEPT ![a] = o]
    /\ UNCHANGED pending

Answered(a, r, v) == pc[a] = r /\ answer[a] = v

Start(i) ==
    /\ pc[i] = "idle"
    /\ Call(i, "hold")
    /\ UNCHANGED <<serviceVars, events, cancelVars>>

\* No hold: the error leaves confirmBooking ahead of its try block.
HoldAnswered(i) ==
    /\ \/ Answered(i, "hold", "OK") /\ Call(i, "charge")
       \/ Answered(i, "hold", "ERROR") /\ Finish(i, "ERROR")
    /\ UNCHANGED <<serviceVars, events, cancelVars>>

\* Mutant: any answered charge is taken for a successful one.
ChargeTaken(i) ==
    /\ \/ \E v \in {"SUCCEEDED", "FAILED"} :
             Answered(i, "charge", v) /\ Call(i, "confirm")
       \/ Answered(i, "charge", "ERROR") /\ Call(i, "compensate")
    /\ UNCHANGED <<serviceVars, events, cancelVars>>

\* Mutant: a declined booking is not released.
ChargeDeclinedKeepsSeat(i) ==
    /\ \/ Answered(i, "charge", "SUCCEEDED") /\ Call(i, "confirm")
       \/ Answered(i, "charge", "FAILED") /\ Publish(i, "publishFailed")
       \/ Answered(i, "charge", "ERROR") /\ Call(i, "compensate")
    /\ UNCHANGED <<serviceVars, events, cancelVars>>

ChargeAnswered(i) ==
    /\ \/ Answered(i, "charge", "SUCCEEDED") /\ Call(i, "confirm")
       \/ Answered(i, "charge", "FAILED") /\ Call(i, "release")
       \/ Answered(i, "charge", "ERROR") /\ Call(i, "compensate")
    /\ UNCHANGED <<serviceVars, events, cancelVars>>

\* Mutant: the answer to the confirm is not looked at.
ConfirmTaken(i) ==
    /\ \E v \in {"OK", "ERROR"} :
          Answered(i, "confirm", v) /\ Publish(i, "publishConfirmed")
    /\ UNCHANGED <<serviceVars, events, cancelVars>>

ConfirmAnswered(i) ==
    /\ \/ Answered(i, "confirm", "OK") /\ Publish(i, "publishConfirmed")
       \/ Answered(i, "confirm", "ERROR") /\ Call(i, "compensate")
    /\ UNCHANGED <<serviceVars, events, cancelVars>>

\* Mutant: the event is published although the release failed.
ReleaseTaken(i) ==
    /\ \E v \in {"OK", "ERROR"} :
          Answered(i, "release", v) /\ Publish(i, "publishFailed")
    /\ UNCHANGED <<serviceVars, events, cancelVars>>

\* A failing release is tried once more by the catch block.
ReleaseAnswered(i) ==
    /\ \/ Answered(i, "release", "OK") /\ Publish(i, "publishFailed")
       \/ Answered(i, "release", "ERROR") /\ Call(i, "compensate")
    /\ UNCHANGED <<serviceVars, events, cancelVars>>

\* Mutant: the compensation is repeated until it succeeds.
CompensateAgain(i) ==
    /\ \/ Answered(i, "compensate", "OK") /\ Finish(i, "ERROR")
       \/ Answered(i, "compensate", "ERROR") /\ Call(i, "compensate")
    /\ UNCHANGED <<serviceVars, events, cancelVars>>

\* The compensation's own failure is only logged.
CompensateAnswered(i) ==
    /\ \E v \in {"OK", "ERROR"} : Answered(i, "compensate", v)
    /\ Finish(i, "ERROR")
    /\ UNCHANGED <<serviceVars, events, cancelVars>>

\* Kafka takes the event, or takes it and the acknowledgement is lost, or does
\* not take it.  Only a confirmed hold is spared the compensation.
PublishConfirmed(i) ==
    /\ pc[i] = "publishConfirmed"
    /\ \/ events' = events \cup {<<"BookingConfirmed", i>>}
          /\ \E o \in {"SUCCESS", "ERROR"} : Finish(i, o)
       \/ UNCHANGED events /\ Finish(i, "ERROR")
    /\ UNCHANGED <<serviceVars, cancelVars>>

PublishFailed(i) ==
    /\ pc[i] = "publishFailed"
    /\ \/ events' = events \cup {<<"BookingFailed", i>>}
          /\ (Finish(i, "DECLINED") \/ Call(i, "compensate"))
       \/ UNCHANGED events /\ Call(i, "compensate")
    /\ UNCHANGED <<serviceVars, cancelVars>>

----------------------------------------------------------------------------
(* cancelBooking.  A caller knows the ids of a booking and its payment from *)
(* the saga's answer, after a declined payment from the BookingFailed event *)
(* published just ahead of it; it may leave the payment out.               *)

\* Mutant: the refund is not called.
CancelOnly(x) ==
    /\ pc[x] = "idle"
    /\ outcome[cancelOf[x]] \in {"SUCCESS", "DECLINED"}
    /\ Call(x, "cancel")
    /\ UNCHANGED <<serviceVars, events, cancelVars>>

Cancel(x) ==
    /\ pc[x] = "idle"
    /\ outcome[cancelOf[x]] \in {"SUCCESS", "DECLINED"}
    /\ Call(x, IF x \in withRefund THEN "refund" ELSE "cancel")
    /\ UNCHANGED <<serviceVars, events, cancelVars>>

\* A failing refund is only logged.
RefundAnswered(x) ==
    /\ \/ Answered(x, "refund", "OK") /\ UNCHANGED unrefunded
       \/ Answered(x, "refund", "ERROR") /\ unrefunded' = unrefunded \cup {x}
    /\ Call(x, "cancel")
    /\ UNCHANGED <<serviceVars, events, cancelOf, withRefund>>

CancelAnswered(x) ==
    /\ \/ Answered(x, "cancel", "OK") /\ Publish(x, "publishCancelled")
       \/ Answered(x, "cancel", "ERROR") /\ Finish(x, "ERROR")
    /\ UNCHANGED <<serviceVars, events, cancelVars>>

\* Mutant: the event carries the id of the request, not the booking's.
PublishRequestId(x) ==
    /\ pc[x] = "publishCancelled"
    /\ \/ events' = events \cup {<<"BookingCancelled", x>>}
          /\ \E o \in {"SUCCESS", "ERROR"} : Finish(x, o)
       \/ UNCHANGED events /\ Finish(x, "ERROR")
    /\ UNCHANGED <<serviceVars, cancelVars>>

PublishCancelled(x) ==
    /\ pc[x] = "publishCancelled"
    /\ \/ events' = events \cup {<<"BookingCancelled", cancelOf[x]>>}
          /\ \E o \in {"SUCCESS", "ERROR"} : Finish(x, o)
       \/ UNCHANGED events /\ Finish(x, "ERROR")
    /\ UNCHANGED <<serviceVars, cancelVars>>

----------------------------------------------------------------------------
\* The orchestrator's process dies; calls that were sent go their way.
Crash(a) ==
    /\ pc[a] \notin {"idle", "over"}
    /\ pc' = [pc EXCEPT ![a] = "over"]
    /\ answer' = [answer EXCEPT ![a] = "NONE"]
    /\ UNCHANGED <<pending, serviceVars, outcome, events, cancelVars>>

ServiceStep(a) ==
    \/ /\ a \in Sagas
       /\ \/ CreateHold(a) \/ Charge(a) \/ ConfirmReads(a) \/ ConfirmRefused(a)
          \/ ConfirmAccepts(a) \/ ConfirmWrites(a) \/ Release(a)
    \/ a \in Cancels /\ (ReleaseCancelled(a) \/ Refund(a))
    \/ \E r \in SagaCall \cup CancelCall \cup ConfirmUpdate : CallFails(a, r)

SagaStep(i) ==
    \/ HoldAnswered(i) \/ ChargeAnswered(i) \/ ConfirmAnswered(i)
    \/ ReleaseAnswered(i) \/ CompensateAnswered(i)
    \/ PublishConfirmed(i) \/ PublishFailed(i)

CancelStep(x) == RefundAnswered(x) \/ CancelAnswered(x) \/ PublishCancelled(x)

\* Nobody runs and nothing is on its way.
Quiet ==
    /\ \A a \in Actors : pc[a] \in {"idle", "over"}
    /\ pending = {}

Finished == Quiet /\ UNCHANGED vars

Next ==
    \/ \E a \in Actors : ServiceStep(a) \/ TimesOut(a) \/ Crash(a)
    \/ \E i \in Sagas : Start(i) \/ SagaStep(i)
    \/ \E x \in Cancels : Cancel(x) \/ CancelStep(x)
    \/ HoldsAge
    \/ Finished

Spec == Init /\ [][Next]_vars

\* A request runs on the answer it waits for or on its timeout, and deadlines
\* pass.  Nothing is said of calls nobody waits for any more.
Fairness ==
    /\ \A i \in Sagas :
          /\ WF_vars(SagaStep(i) \/ (answer[i] = "NONE" /\ TimesOut(i)))
          /\ WF_vars(HoldsAge /\ i \in lapsed')
    /\ \A x \in Cancels : WF_vars(CancelStep(x) \/ (answer[x] = "NONE" /\ TimesOut(x)))

FairSpec == Spec /\ Fairness

----------------------------------------------------------------------------
(* Properties *)

\* Some cancellation of booking i was accepted for execution.
CancelSent(i) ==
    \E x \in Cancels : cancelOf[x] = i /\ pc[x] # "idle"

\* A passenger told "confirmed and paid" has a confirmed and paid booking until
\* a cancellation: no late release, expiry or refund of the saga's own, delayed
\* by a timeout, takes it away again.
SuccessBacked ==
    \A i \in Sagas :
        outcome[i] = "SUCCESS" /\ ~CancelSent(i) =>
            booking[i] = "CONFIRMED" /\ payment[i] = "SUCCEEDED"

\* A passenger told "declined" has not paid and does not hold the seat, and no
\* late call changes that.
DeclinedBacked ==
    \A i \in Sagas :
        outcome[i] = "DECLINED" =>
            payment[i] = "FAILED" /\ booking[i] \in {"FAILED", "CANCELLED"}

\* Nobody travels for free: whatever times out or arrives late, a confirmed
\* booking has a payment that succeeded, and it is refunded only on the way
\* through a cancellation that was not yet reported as done.
ConfirmedIsPaid ==
    \A i \in Sagas :
        booking[i] = "CONFIRMED" =>
            \/ payment[i] = "SUCCEEDED"
            \/ payment[i] = "REFUNDED" /\
               \E x \in withRefund : cancelOf[x] = i /\ pc[x] # "idle"
                                     /\ outcome[x] # "SUCCESS"

\* "call Payment Service to refund, mark the booking CANCELLED": who was told
\* that the cancellation was done has no booking any more, and the money back.
\* The code keeps the second only if the refund was answered: its failure is
\* logged and forgotten.
CancelledIsRefunded ==
    \A x \in Cancels :
        outcome[x] = "SUCCESS" =>
            /\ booking[cancelOf[x]] = "CANCELLED"
            /\ x \in withRefund \ unrefunded => payment[cancelOf[x]] = "REFUNDED"

\* What Kafka tells the notification service is so: a failure was declined and
\* its seat released, a confirmation was paid and confirmed (and perhaps
\* cancelled since), a cancelled booking is cancelled.
EventsTrue ==
    \A i \in Sagas :
        /\ <<"BookingFailed", i>> \in events =>
              payment[i] = "FAILED" /\ booking[i] \in {"FAILED", "CANCELLED"}
        /\ <<"BookingConfirmed", i>> \in events =>
              /\ payment[i] \in {"SUCCEEDED", "REFUNDED"}
              /\ booking[i] = "CONFIRMED" \/ CancelSent(i)
        /\ <<"BookingCancelled", i>> \in events => booking[i] = "CANCELLED"

\* Every saga answers its passenger or dies, the nested compensation included;
\* in the end none is waiting.
EverySagaEnds == <>[](\A i \in Sagas : pc[i] \in {"idle", "over"})

\* In the end no seat is blocked without a paid booking, wherever the sagas were
\* abandoned and whichever of their calls were lost or late.
SeatNotKeptUnpaid ==
    <>[](\A i \in Sagas :
            Blocks(i) => booking[i] = "CONFIRMED" /\ payment[i] # "FAILED")

\* The pairs of sagas that compete: all of them.
Rivals == {p \in Sagas \X Sagas : p[1] # p[2]}

Waiting(r) == {i \in Sagas : <<i, r>> \in pending}

Inventory == INSTANCE SeatInventory
             WITH Rows <- Sagas, status <- booking, clash <- Rivals,
                  seen <- Waiting("found"), accepted <- Waiting("accepted")

\* The sagas get no more from the booking service than SeatInventory promises,
\* and keep its rules: a row is claimed once, confirmed only when it is there,
\* expired only after its deadline, whatever call arrives late or is lost.
ImplementsInventory == Inventory!Spec

Ledger == INSTANCE PaymentLedger
          WITH Keys <- Sagas, Charges <- Sagas, row <- payment,
               keyOf <- [i \in Sagas |-> i], told <- [i \in Sagas |-> "NONE"]

\* Likewise of the payment service: no key is charged again, and nothing is
\* refunded that was not paid or was refunded before.
ImplementsLedger == Ledger!Spec

\* The seat has one winner: of two passengers told "confirmed and paid", neither
\* of whom cancelled, one was held after its lock had lapsed or confirmed after
\* its hold had.
OneWinner ==
    \A i, j \in Sagas :
        /\ i # j
        /\ \A k \in {i, j} : outcome[k] = "SUCCESS" /\ ~CancelSent(k)
        => {i, j} \cap flawed # {}

\* "If payment succeeds: the booking's status is updated to CONFIRMED": when all
\* is quiet, a payment that was taken and not refunded has a confirmed booking.
PaidMeansConfirmed ==
    Quiet => \A i \in Sagas :
        payment[i] = "SUCCEEDED" => booking[i] = "CONFIRMED" \/ CancelSent(i)

\* "a retried request never double-charges": of several attempts at one seat
\* only one keeps a payment.
RetryChargesOnce ==
    \A i, j \in Sagas :
        payment[i] = "SUCCEEDED" /\ payment[j] = "SUCCEEDED" => i = j
=============================================================================
