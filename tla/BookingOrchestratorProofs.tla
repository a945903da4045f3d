--------------------- MODULE BookingOrchestratorProofs ---------------------
(***************************************************************************)
(* Proofs about BookingOrchestrator for any number of sagas that compete   *)
(* for the seat and any number of cancellations.                           *)
(***************************************************************************)
EXTENDS BookingOrchestrator, TLAPS

----------------------------------------------------------------------------
(* The inductive invariant.  Its parts say which calls may still be on     *)
(* their way at each point of a saga: a call that was given up may take    *)
(* effect at any later time, so a promise holds only if no pending call    *)
(* can break it.                                                           *)

Sent(a, r) == <<a, r>> \in pending

Announced(e, i) == <<e, i>> \in events

Told(i) == outcome[i] \in {"SUCCESS", "DECLINED"}

Confirming(i) == \E r \in {"confirm", "found", "accepted"} : Sent(i, r)

\* No call on the row of i is on its way, but for those of a cancellation.
NoneSent(i) == \A r \in SagaCall \cup ConfirmUpdate : ~Sent(i, r)

\* A saga's row is settled once its confirm or its release was answered.
GotConfirmed(i) ==
    \/ pc[i] = "confirm" /\ answer[i] = "OK"
    \/ pc[i] = "publishConfirmed"
    \/ outcome[i] = "SUCCESS"
    \/ Announced("BookingConfirmed", i)

GotReleased(i) ==
    \/ pc[i] = "release" /\ answer[i] = "OK"
    \/ pc[i] = "publishFailed"
    \/ outcome[i] = "DECLINED"
    \/ Announced("BookingFailed", i)

\* A saga that has not begun has left no trace; a call that is pending while
\* its request goes on was given up.
SentInv(i) ==
    /\ pc[i] = "idle" => NoneSent(i)
    /\ pc[i] \in {"idle", "hold"} => outcome[i] = "NONE"
    /\ outcome[i] # "NONE" => pc[i] = "over" /\ (Told(i) => NoneSent(i))
    /\ \A r \in SagaCall : pc[i] = r /\ Sent(i, r) => answer[i] \in {"NONE", "ERROR"}
    /\ pc[i] = "confirm" /\ Confirming(i) => answer[i] \in {"NONE", "ERROR"}
    /\ Sent(i, "hold") =>
          /\ pc[i] \in {"hold", "over"}
          /\ \A r \in (SagaCall \cup ConfirmUpdate) \ {"hold"} : ~Sent(i, r)
    /\ Sent(i, "charge") => pc[i] \in {"charge", "compensate", "over"}
    /\ Confirming(i) => pc[i] \in {"confirm", "compensate", "over"}
    /\ Sent(i, "release") => pc[i] \in {"release", "compensate", "over"}
    /\ Sent(i, "compensate") => pc[i] \in {"compensate", "over"}
    /\ \A r, s \in {"confirm", "found", "accepted"} :
          Sent(i, r) /\ Sent(i, s) => r = s

\* The saga acts on the answer that the charge succeeded, or that it did not.
ActsPaid(i) ==
    \/ pc[i] \in {"confirm", "publishConfirmed"}
    \/ Confirming(i)
    \/ booking[i] = "CONFIRMED"
    \/ GotConfirmed(i)

ActsDeclined(i) ==
    \/ pc[i] \in {"release", "publishFailed"}
    \/ Sent(i, "release")
    \/ GotReleased(i)

\* Some cancellation of booking i was to refund it.
RefundSent(i) ==
    \E x \in withRefund : cancelOf[x] = i /\ pc[x] # "idle"

\* What is known of the payment.
PaidInv(i) ==
    /\ pc[i] \in {"idle", "hold"} \/ Sent(i, "hold") \/ Sent(i, "charge")
          => payment[i] = "ABSENT"
    /\ pc[i] = "charge" /\ answer[i] \in {"SUCCEEDED", "FAILED"}
          => payment[i] = answer[i]
    /\ ActsPaid(i) => payment[i] \in {"SUCCEEDED", "REFUNDED"}
    /\ ActsDeclined(i) => payment[i] = "FAILED"
    /\ payment[i] = "REFUNDED" => RefundSent(i)

\* What is known of the booking.
SettledInv(i) ==
    /\ GotConfirmed(i) =>
          /\ NoneSent(i)
          /\ pc[i] \in {"confirm", "publishConfirmed", "over"}
          /\ booking[i] = "CONFIRMED" \/ CancelSent(i)
    /\ Announced("BookingConfirmed", i) => pc[i] = "over"
    /\ GotReleased(i) =>
          /\ \A r \in (SagaCall \cup ConfirmUpdate) \ {"compensate"} : ~Sent(i, r)
          /\ pc[i] \in {"release", "publishFailed", "compensate", "over"}
          /\ booking[i] \in {"FAILED", "CANCELLED"}
    /\ Announced("BookingCancelled", i) => Told(i) /\ booking[i] = "CANCELLED"

\* A cancellation begins after its saga is settled; once its calls are answered,
\* the booking is cancelled and, unless the refund failed, the payment refunded.
CancelInv(x) ==
    /\ \A r \in CancelCall : Sent(x, r) => pc[x] # "idle"
    /\ Sent(x, "refund") \/ pc[x] = "refund" => x \in withRefund
    /\ pc[x] # "idle" => Told(cancelOf[x])
    /\ outcome[x] # "NONE" => pc[x] = "over"
    /\ \/ pc[x] = "cancel" /\ answer[x] = "OK"
       \/ pc[x] = "publishCancelled"
       \/ outcome[x] = "SUCCESS"
       => booking[cancelOf[x]] = "CANCELLED"
    /\ /\ x \in withRefund \ unrefunded
       /\ \/ pc[x] = "refund" /\ answer[x] = "OK"
          \/ pc[x] \in {"cancel", "publishCancelled"}
          \/ outcome[x] = "SUCCESS"
       => payment[cancelOf[x]] = "REFUNDED"

SagaInv ==
    /\ TypeOK
    /\ \A i \in Sagas : SentInv(i) /\ PaidInv(i) /\ SettledInv(i)
    /\ \A x \in Cancels : CancelInv(x)

----------------------------------------------------------------------------
(* Types *)

LEMMA TypeInit == Init => TypeOK
BY DEF Init, TypeOK, Actors, BookingStatus, PaymentStatus, Answer, Event

LEMMA TypeStep == TypeOK /\ [Next]_vars => TypeOK'
<1> SUFFICES ASSUME TypeOK, [Next]_vars PROVE TypeOK'
  OBVIOUS
<1> USE OrchestratorAssumption
    DEF TypeOK, Actors, BookingStatus, PaymentStatus, Answer, Event, SagaCall,
        CancelCall, ConfirmUpdate, Publishing, serviceVars, deadlines, cancelVars
<1>1. ASSUME NEW i \in Sagas, CreateHold(i) PROVE TypeOK'
  BY <1>1 DEF CreateHold, Respond, Executed, SetBooking, Age
<1>2. ASSUME NEW i \in Sagas, Charge(i) PROVE TypeOK'
  BY <1>2 DEF Charge, Respond, Executed
<1>3. ASSUME NEW i \in Sagas, ConfirmReads(i) \/ ConfirmAccepts(i) PROVE TypeOK'
  BY <1>3 DEF ConfirmReads, ConfirmAccepts, KeepDeadlines
<1>4. ASSUME NEW i \in Sagas, ConfirmRefused(i) PROVE TypeOK'
  BY <1>4 DEF ConfirmRefused, Respond, Executed
<1>5. ASSUME NEW i \in Sagas, ConfirmWrites(i) PROVE TypeOK'
  BY <1>5 DEF ConfirmWrites, Respond, Executed, SetBooking, KeepDeadlines
<1>6. ASSUME NEW i \in Sagas, Release(i) PROVE TypeOK'
  BY <1>6 DEF Release, Respond, Executed, SetBooking, KeepDeadlines
<1>7. ASSUME NEW x \in Cancels, ReleaseCancelled(x) PROVE TypeOK'
  BY <1>7 DEF ReleaseCancelled, Respond, Executed, SetBooking, KeepDeadlines
<1>8. ASSUME NEW x \in Cancels, Refund(x) PROVE TypeOK'
  BY <1>8 DEF Refund, Respond, Executed
<1>9. ASSUME NEW a \in Actors, NEW r \in SagaCall \cup CancelCall \cup ConfirmUpdate,
             CallFails(a, r) PROVE TypeOK'
  BY <1>9 DEF CallFails, Respond, Executed, KeepDeadlines
<1>10. ASSUME NEW a \in Actors, TimesOut(a) PROVE TypeOK'
  BY <1>10 DEF TimesOut
<1>11. ASSUME NEW a \in Actors, Crash(a) PROVE TypeOK'
  BY <1>11 DEF Crash
<1>12. CASE HoldsAge
  BY <1>12 DEF HoldsAge, Age
<1>13. ASSUME NEW i \in Sagas, Start(i) PROVE TypeOK'
  BY <1>13 DEF Start, Call
<1>14. ASSUME NEW i \in Sagas, HoldAnswered(i) PROVE TypeOK'
  BY <1>14 DEF HoldAnswered, Call, Finish, Answered
<1>15. ASSUME NEW i \in Sagas, ChargeAnswered(i) PROVE TypeOK'
  BY <1>15 DEF ChargeAnswered, Call, Answered
<1>16. ASSUME NEW i \in Sagas, ConfirmAnswered(i) PROVE TypeOK'
  BY <1>16 DEF ConfirmAnswered, Call, Publish, Answered
<1>17. ASSUME NEW i \in Sagas, ReleaseAnswered(i) PROVE TypeOK'
  BY <1>17 DEF ReleaseAnswered, Call, Publish, Answered
<1>18. ASSUME NEW i \in Sagas, CompensateAnswered(i) PROVE TypeOK'
  BY <1>18 DEF CompensateAnswered, Finish, Answered
<1>19. ASSUME NEW i \in Sagas, PublishConfirmed(i) PROVE TypeOK'
  BY <1>19 DEF PublishConfirmed, Finish
<1>20. ASSUME NEW i \in Sagas, PublishFailed(i) PROVE TypeOK'
  BY <1>20 DEF PublishFailed, Call, Finish
<1>21. ASSUME NEW x \in Cancels, Cancel(x) PROVE TypeOK'
  BY <1>21 DEF Cancel, Call
<1>22. ASSUME NEW x \in Cancels, RefundAnswered(x) PROVE TypeOK'
  BY <1>22 DEF RefundAnswered, Call, Answered
<1>23. ASSUME NEW x \in Cancels, CancelAnswered(x) PROVE TypeOK'
  BY <1>23 DEF CancelAnswered, Publish, Finish, Answered
<1>24. ASSUME NEW x \in Cancels, PublishCancelled(x) PROVE TypeOK'
  BY <1>24 DEF PublishCancelled, Finish
<1>25. CASE Finished \/ UNCHANGED vars
  BY <1>25 DEF Finished, vars
<1> QED BY <1>1, <1>2, <1>3, <1>4, <1>5, <1>6, <1>7, <1>8, <1>9, <1>10,
       <1>11, <1>12, <1>13, <1>14, <1>15, <1>16, <1>17, <1>18, <1>19, <1>20,
       <1>21, <1>22, <1>23, <1>24, <1>25
       DEF Next, ServiceStep, SagaStep, CancelStep

\* The variables keep their types, in every behaviour of the orchestrator.
THEOREM TypeCorrect == Spec => []TypeOK
BY TypeInit, TypeStep, PTL DEF Spec

----------------------------------------------------------------------------
(* What a step leaves alone.                                               *)

SagaRow(i) == SentInv(i) /\ PaidInv(i) /\ SettledInv(i)

\* Nothing of saga j changes.
Same(j) ==
    /\ pc'[j] = pc[j] /\ answer'[j] = answer[j] /\ outcome'[j] = outcome[j]
    /\ booking'[j] = booking[j] /\ payment'[j] = payment[j]
    /\ \A r : Sent(j, r)' <=> Sent(j, r)
    /\ \A e : Announced(e, j)' <=> Announced(e, j)

\* Only actor a moves, and only the rows and events of saga i may change.
Only(a, i) ==
    /\ \A b \in Actors \ {a} :
          /\ pc'[b] = pc[b] /\ answer'[b] = answer[b] /\ outcome'[b] = outcome[b]
          /\ \A r : Sent(b, r)' <=> Sent(b, r)
    /\ \A j \in Sagas \ {i} :
          /\ booking'[j] = booking[j] /\ payment'[j] = payment[j]
          /\ \A e : Announced(e, j)' <=> Announced(e, j)
    /\ cancelOf' = cancelOf /\ withRefund' = withRefund
    /\ \A y \in Cancels \ {a} : y \in unrefunded' <=> y \in unrefunded

\* Call r of actor a is taken off those that are pending.
TakenUp(a, r) ==
    Sent(a, r) /\ \A b, s : Sent(b, s)' <=> Sent(b, s) /\ ~(b = a /\ s = r)

\* v is the answer to call r of actor a, if a still waits for it.
Heard(a, r, v) ==
    \A b \in Actors :
       answer'[b] = IF b = a /\ pc[a] = r /\ answer[a] = "NONE" THEN v ELSE answer[b]

LEMMA SentByCall ==
    ASSUME NEW a, NEW r, Call(a, r)
    PROVE  \A b, s : Sent(b, s)' <=> Sent(b, s) \/ (b = a /\ s = r)
BY DEF Call, Sent

LEMMA SentByExecuted ==
    ASSUME NEW a, NEW r, Executed(a, r)
    PROVE  TakenUp(a, r)
BY DEF Executed, TakenUp, Sent

LEMMA SentUnchanged ==
    ASSUME UNCHANGED pending PROVE \A b, s : Sent(b, s)' <=> Sent(b, s)
BY DEF Sent

LEMMA AnnouncedUnchanged ==
    ASSUME UNCHANGED events PROVE \A e, i : Announced(e, i)' <=> Announced(e, i)
BY DEF Announced

LEMMA AnnouncedNow ==
    ASSUME NEW e, NEW i, events' = events \cup {<<e, i>>}
    PROVE  \A f, j : Announced(f, j)' <=> Announced(f, j) \/ (f = e /\ j = i)
BY DEF Announced

LEMMA Responded ==
    ASSUME TypeOK, NEW a \in Actors, NEW r, NEW v, Respond(a, r, v)
    PROVE  Heard(a, r, v)
BY DEF Respond, Heard, TypeOK

\* A saga none of whose parts change keeps its invariant.
LEMMA SameKeeps ==
    ASSUME NEW j \in Sagas, SagaRow(j), Same(j), CancelSent(j) => CancelSent(j)',
           RefundSent(j) => RefundSent(j)'
    PROVE  SagaRow(j)'
<1> USE DEF Same, Told, Confirming, NoneSent, GotConfirmed, GotReleased,
           ActsPaid, ActsDeclined
<1>1. SentInv(j)'
  BY DEF SagaRow, SentInv
<1>2. PaidInv(j)'
  BY DEF SagaRow, PaidInv
<1>3. SettledInv(j)'
  BY DEF SagaRow, SettledInv
<1> QED BY <1>1, <1>2, <1>3 DEF SagaRow

\* No cancellation has begun, and nothing was refunded, before the caller is told.
LEMMA UntoldUncancelled ==
    ASSUME SagaInv, NEW i \in Sagas, ~Told(i)
    PROVE  ~CancelSent(i) /\ payment[i] # "REFUNDED"
BY DEF SagaInv, TypeOK, CancelInv, CancelSent, RefundSent, PaidInv

\* A saga whose caller was not told anything is nobody else's business: what it
\* and its calls do touches no other saga and no cancellation.
LEMMA SagaSide ==
    ASSUME SagaInv, TypeOK', NEW i \in Sagas, Only(i, i), ~Told(i),
           ~CancelSent(i)' => SagaRow(i)'
    PROVE  SagaInv'
<1> USE OrchestratorAssumption DEF Actors
<1>1. \A x \in Cancels : pc'[x] = pc[x] /\ cancelOf'[x] = cancelOf[x]
  BY DEF Only
<1>2. \A j \in Sagas : /\ CancelSent(j)' <=> CancelSent(j)
                       /\ RefundSent(j)' <=> RefundSent(j)
  BY <1>1 DEF CancelSent, RefundSent, Only, SagaInv, TypeOK
<1>3. ~CancelSent(i)
  BY UntoldUncancelled
<1>4. ASSUME NEW j \in Sagas PROVE SagaRow(j)'
  <2>1. CASE j = i
    BY <2>1, <1>2, <1>3
  <2>2. CASE j # i
    <3>1. Same(j)
      BY <2>2 DEF Only, Same
    <3> QED BY <3>1, <1>2, SameKeeps DEF SagaInv, SagaRow
  <2> QED BY <2>1, <2>2
<1>5. ASSUME NEW y \in Cancels PROVE CancelInv(y)'
  <2>1. cancelOf[y] \in Sagas /\ CancelInv(y)
    BY DEF SagaInv, TypeOK
  <2>2. /\ pc'[y] = pc[y] /\ answer'[y] = answer[y] /\ outcome'[y] = outcome[y]
        /\ cancelOf'[y] = cancelOf[y] /\ withRefund' = withRefund
        /\ y \in unrefunded' <=> y \in unrefunded
        /\ \A r : Sent(y, r)' <=> Sent(y, r)
    BY DEF Only
  <2>3. CASE cancelOf[y] = i
    BY <2>1, <2>2, <2>3 DEF CancelInv
  <2>4. CASE cancelOf[y] # i
    <3>1. outcome'[cancelOf[y]] = outcome[cancelOf[y]]
          /\ booking'[cancelOf[y]] = booking[cancelOf[y]]
          /\ payment'[cancelOf[y]] = payment[cancelOf[y]]
      BY <2>1, <2>4 DEF Only
    <3> QED BY <2>1, <2>2, <3>1 DEF CancelInv, Told
  <2> QED BY <2>3, <2>4
<1> QED BY <1>4, <1>5 DEF SagaInv, SagaRow

----------------------------------------------------------------------------
(* The steps of the services for a saga.                                   *)

LEMMA ServiceSagaStep ==
    ASSUME SagaInv, TypeOK', NEW i \in Sagas,
           \/ CreateHold(i) \/ Charge(i) \/ ConfirmReads(i) \/ ConfirmRefused(i)
           \/ ConfirmAccepts(i) \/ ConfirmWrites(i) \/ Release(i)
    PROVE  SagaInv'
<1> USE OrchestratorAssumption
    DEF Actors, SagaCall, ConfirmUpdate, TypeOK, SetBooking, cancelVars, serviceVars,
        Only, TakenUp, Heard, SagaRow, SentInv, PaidInv, SettledInv, Told,
        Confirming, NoneSent, GotConfirmed, GotReleased, ActsPaid, ActsDeclined
<1>1. TypeOK /\ SagaRow(i)
  BY DEF SagaInv
<1>2. \A e, j : Announced(e, j)' <=> Announced(e, j)
  BY AnnouncedUnchanged DEF CreateHold, Charge, ConfirmReads, ConfirmRefused,
     ConfirmAccepts, ConfirmWrites, Release
<1>3. CASE CreateHold(i)
  <2>1. TakenUp(i, "hold")
    BY <1>3, SentByExecuted DEF CreateHold
  <2>2. \E v \in {"OK", "ERROR"} : Heard(i, "hold", v)
    BY <1>1, <1>3, Responded DEF CreateHold
  <2>3. Only(i, i) /\ ~Told(i)
    BY <1>1, <1>2, <1>3, <2>1, <2>2 DEF CreateHold
  <2>4. SentInv(i)'
    BY <1>1, <1>2, <1>3, <2>1, <2>2 DEF CreateHold
  <2>5. PaidInv(i)'
    BY <1>1, <1>2, <1>3, <2>1, <2>2, <2>3, UntoldUncancelled DEF CreateHold
  <2>6. SettledInv(i)'
    BY <1>1, <1>2, <1>3, <2>1, <2>2 DEF CreateHold
  <2> QED BY <2>3, <2>4, <2>5, <2>6, SagaSide
<1>4. CASE Charge(i)
  <2>1. TakenUp(i, "charge")
    BY <1>4, SentByExecuted DEF Charge
  <2>2. \E v \in {"SUCCEEDED", "FAILED"} : payment' = [payment EXCEPT ![i] = v] /\
        Heard(i, "charge", v)
    <3>1. PICK v \in {"SUCCEEDED", "FAILED"} :
             payment' = [payment EXCEPT ![i] = v] /\ Respond(i, "charge", v)
      BY <1>4 DEF Charge
    <3>2. Heard(i, "charge", v)
      <4> HIDE DEF Heard, TypeOK
      <4> QED BY <1>1, <3>1, Responded
    <3> QED BY <3>1, <3>2
  <2>3. Only(i, i) /\ ~Told(i)
    BY <1>1, <1>2, <1>4, <2>1, <2>2 DEF Charge
  <2>4. SentInv(i)'
    BY <1>1, <1>2, <1>4, <2>1, <2>2 DEF Charge
  <2>5. PaidInv(i)'
    BY <1>1, <1>2, <1>4, <2>1, <2>2, <2>3, UntoldUncancelled DEF Charge
  <2>6. SettledInv(i)'
    BY <1>1, <1>2, <1>4, <2>1, <2>2 DEF Charge
  <2> QED BY <2>3, <2>4, <2>5, <2>6, SagaSide
<1>5. CASE ConfirmReads(i) \/ ConfirmAccepts(i)
  <2>1. \E r \in {"confirm", "found"}, w \in ConfirmUpdate :
           /\ Sent(i, r)
           /\ \A b, s : Sent(b, s)' <=>
                  (Sent(b, s) /\ ~(b = i /\ s = r)) \/ (b = i /\ s = w)
    BY <1>5 DEF ConfirmReads, ConfirmAccepts, Sent
  <2>2. UNCHANGED <<pc, answer, booking, payment, outcome, events, cancelVars>>
    BY <1>5 DEF ConfirmReads, ConfirmAccepts
  <2>3. Only(i, i) /\ ~Told(i)
    BY <1>1, <1>2, <2>1, <2>2
  <2>4. SentInv(i)'
    BY <1>1, <2>1, <2>2
  <2>5. PaidInv(i)'
    BY <1>1, <1>2, <2>1, <2>2, <2>3, UntoldUncancelled
  <2>6. SettledInv(i)'
    BY <1>1, <1>2, <2>1, <2>2
  <2> QED BY <2>3, <2>4, <2>5, <2>6, SagaSide
<1>6. CASE ConfirmRefused(i)
  <2>1. TakenUp(i, "confirm")
    BY <1>6, SentByExecuted DEF ConfirmRefused
  <2>2. Heard(i, "confirm", "ERROR")
    BY <1>1, <1>6, Responded DEF ConfirmRefused
  <2>3. Only(i, i) /\ ~Told(i)
    BY <1>1, <1>2, <1>6, <2>1, <2>2 DEF ConfirmRefused
  <2>4. SentInv(i)'
    BY <1>1, <1>2, <1>6, <2>1, <2>2 DEF ConfirmRefused
  <2>5. PaidInv(i)'
    BY <1>1, <1>2, <1>6, <2>1, <2>2, <2>3, UntoldUncancelled DEF ConfirmRefused
  <2>6. SettledInv(i)'
    BY <1>1, <1>2, <1>6, <2>1, <2>2 DEF ConfirmRefused
  <2> QED BY <2>3, <2>4, <2>5, <2>6, SagaSide
<1>7. CASE ConfirmWrites(i)
  <2>1. \E w \in ConfirmUpdate, v \in {"OK", "ERROR"}, st \in {"CONFIRMED", "EXPIRED"} :
           /\ TakenUp(i, w)
           /\ booking' = [booking EXCEPT ![i] = st]
           /\ v = "OK" => st = "CONFIRMED"
           /\ Heard(i, "confirm", v)
    <3>1. CASE Executed(i, "accepted") /\ SetBooking(i, "CONFIRMED")
                 /\ Respond(i, "confirm", "OK")
      BY <1>1, <3>1, SentByExecuted, Responded
    <3>2. CASE Executed(i, "found") /\ SetBooking(i, "EXPIRED")
                 /\ Respond(i, "confirm", "ERROR")
      BY <1>1, <3>2, SentByExecuted, Responded
    <3> QED BY <1>7, <3>1, <3>2 DEF ConfirmWrites
  <2>2. Only(i, i) /\ ~Told(i)
    BY <1>1, <1>2, <1>7, <2>1 DEF ConfirmWrites
  <2>3. SentInv(i)'
    BY <1>1, <1>2, <1>7, <2>1 DEF ConfirmWrites
  <2>4. PaidInv(i)'
    BY <1>1, <1>2, <1>7, <2>1, <2>2, UntoldUncancelled DEF ConfirmWrites
  <2>5. SettledInv(i)'
    BY <1>1, <1>2, <1>7, <2>1 DEF ConfirmWrites
  <2> QED BY <2>2, <2>3, <2>4, <2>5, SagaSide
<1>8. CASE Release(i)
  <2> PICK r \in {"release", "compensate"} :
           Executed(i, r) /\ SetBooking(i, "FAILED") /\ Respond(i, r, "OK")
    BY <1>8 DEF Release
  <2>1. TakenUp(i, r)
    BY SentByExecuted
  <2>2. Heard(i, r, "OK")
    BY <1>1, Responded
  <2>3. Only(i, i) /\ ~Told(i)
    BY <1>1, <1>2, <1>8, <2>1, <2>2 DEF Release
  <2>4. SentInv(i)'
    BY <1>1, <1>2, <1>8, <2>1, <2>2 DEF Release
  <2>5. PaidInv(i)'
    BY <1>1, <1>2, <1>8, <2>1, <2>2, <2>3, UntoldUncancelled DEF Release
  <2>6. SettledInv(i)'
    BY <1>1, <1>2, <1>8, <2>1, <2>2 DEF Release
  <2> QED BY <2>3, <2>4, <2>5, <2>6, SagaSide
<1> QED BY <1>3, <1>4, <1>5, <1>6, <1>7, <1>8

----------------------------------------------------------------------------
(* The steps of the orchestrator for a saga, by what they do next.         *)

LEMMA SagaCalls ==
    ASSUME SagaInv, TypeOK', NEW i \in Sagas, NEW r \in SagaCall, Call(i, r),
           \/ r = "hold" /\ pc[i] = "idle"
           \/ r = "charge" /\ Answered(i, "hold", "OK")
           \/ r = "confirm" /\ Answered(i, "charge", "SUCCEEDED")
           \/ r = "release" /\ Answered(i, "charge", "FAILED")
           \/ /\ r = "compensate"
              /\ \/ \E c \in {"charge", "confirm", "release"} : Answered(i, c, "ERROR")
                 \/ pc[i] = "publishFailed",
           \/ UNCHANGED events
           \/ pc[i] = "publishFailed" /\ events' = events \cup {<<"BookingFailed", i>>},
           UNCHANGED <<serviceVars, cancelVars>>
    PROVE  SagaInv'
<1> USE OrchestratorAssumption
    DEF Actors, SagaCall, ConfirmUpdate, TypeOK, cancelVars, serviceVars,
        Only, TakenUp, Heard, SagaRow, SentInv, PaidInv, SettledInv, Told,
        Confirming, NoneSent, GotConfirmed, GotReleased, ActsPaid, ActsDeclined
<1> USE DEF Call, Answered
<1>1. TypeOK /\ SagaRow(i)
  BY DEF SagaInv
<1>2. \A b, s : Sent(b, s)' <=> Sent(b, s) \/ (b = i /\ s = r)
  BY SentByCall
<1>3. /\ \A e, j : Announced(e, j) => Announced(e, j)'
      /\ \A e, j : Announced(e, j)' /\ ~Announced(e, j) =>
            j = i /\ e = "BookingFailed" /\ pc[i] = "publishFailed"
  BY DEF Announced
<1>4. Only(i, i) /\ ~Told(i)
  BY <1>1, <1>2, <1>3
<1>5. payment[i] # "REFUNDED" /\ ~CancelSent(i)
  BY <1>4, UntoldUncancelled
<1>6. SentInv(i)'
  BY <1>1, <1>2
<1>7. PaidInv(i)'
  BY <1>1, <1>2, <1>3, <1>5
<1>8. SettledInv(i)'
  BY <1>1, <1>2, <1>3
<1> QED BY <1>4, <1>6, <1>7, <1>8, SagaSide

LEMMA SagaPublishes ==
    ASSUME SagaInv, TypeOK', NEW i \in Sagas, NEW p, Publish(i, p),
           \/ p = "publishConfirmed" /\ Answered(i, "confirm", "OK")
           \/ p = "publishFailed" /\ Answered(i, "release", "OK"),
           UNCHANGED <<serviceVars, events, cancelVars>>
    PROVE  SagaInv'
<1> USE OrchestratorAssumption
    DEF Actors, SagaCall, ConfirmUpdate, TypeOK, cancelVars, serviceVars,
        Only, TakenUp, Heard, SagaRow, SentInv, PaidInv, SettledInv, Told,
        Confirming, NoneSent, GotConfirmed, GotReleased, ActsPaid, ActsDeclined
<1> USE DEF Publish, Answered
<1>1. TypeOK /\ SagaRow(i)
  BY DEF SagaInv
<1>2. /\ \A b, s : Sent(b, s)' <=> Sent(b, s)
      /\ \A e, j : Announced(e, j)' <=> Announced(e, j)
  BY SentUnchanged, AnnouncedUnchanged
<1>3. Only(i, i) /\ ~Told(i)
  BY <1>1, <1>2
<1>4. payment[i] # "REFUNDED" /\ ~CancelSent(i)
  BY <1>3, UntoldUncancelled
<1>5. SentInv(i)'
  BY <1>1, <1>2
<1>6. PaidInv(i)'
  BY <1>1, <1>2, <1>4
<1>7. SettledInv(i)'
  BY <1>1, <1>2, <1>4
<1> QED BY <1>3, <1>5, <1>6, <1>7, SagaSide

LEMMA SagaFinishes ==
    ASSUME SagaInv, TypeOK', NEW i \in Sagas, NEW o, Finish(i, o),
           \/ o = "ERROR" /\ Answered(i, "hold", "ERROR") /\ UNCHANGED events
           \/ o = "ERROR" /\ pc[i] = "compensate" /\ UNCHANGED events
           \/ o = "ERROR" /\ pc[i] = "publishConfirmed" /\ UNCHANGED events
           \/ /\ o \in {"SUCCESS", "ERROR"} /\ pc[i] = "publishConfirmed"
              /\ events' = events \cup {<<"BookingConfirmed", i>>}
           \/ /\ o = "DECLINED" /\ pc[i] = "publishFailed"
              /\ events' = events \cup {<<"BookingFailed", i>>},
           UNCHANGED <<serviceVars, cancelVars>>
    PROVE  SagaInv'
<1> USE OrchestratorAssumption
    DEF Actors, SagaCall, ConfirmUpdate, TypeOK, cancelVars, serviceVars,
        Only, TakenUp, Heard, SagaRow, SentInv, PaidInv, SettledInv, Told,
        Confirming, NoneSent, GotConfirmed, GotReleased, ActsPaid, ActsDeclined
<1> USE DEF Finish, Answered
<1>1. TypeOK /\ SagaRow(i)
  BY DEF SagaInv
<1>2. \A b, s : Sent(b, s)' <=> Sent(b, s)
  BY SentUnchanged
<1>3. /\ \A e, j : Announced(e, j) => Announced(e, j)'
      /\ \A e, j : Announced(e, j)' /\ ~Announced(e, j) =>
            /\ j = i
            /\ \/ e = "BookingConfirmed" /\ pc[i] = "publishConfirmed"
               \/ e = "BookingFailed" /\ pc[i] = "publishFailed"
  BY DEF Announced
<1>4. Only(i, i) /\ ~Told(i)
  BY <1>1, <1>2, <1>3
<1>5. payment[i] # "REFUNDED" /\ ~CancelSent(i)
  BY <1>4, UntoldUncancelled
<1>6. SentInv(i)'
  BY <1>1, <1>2
<1>7. PaidInv(i)'
  BY <1>1, <1>2, <1>3, <1>5
<1>8. SettledInv(i)'
  BY <1>1, <1>2, <1>3, <1>5
<1> QED BY <1>4, <1>6, <1>7, <1>8, SagaSide

LEMMA SagaGoesOn ==
    ASSUME SagaInv, TypeOK', NEW i \in Sagas, Start(i) \/ SagaStep(i)
    PROVE  SagaInv'
<1> USE SagaCalls, SagaPublishes, SagaFinishes DEF SagaCall
<1>1. CASE Start(i)
  BY <1>1 DEF Start, cancelVars
<1>2. CASE HoldAnswered(i)
  BY <1>2 DEF HoldAnswered
<1>3. CASE ChargeAnswered(i)
  BY <1>3 DEF ChargeAnswered
<1>4. CASE ConfirmAnswered(i)
  BY <1>4 DEF ConfirmAnswered
<1>5. CASE ReleaseAnswered(i)
  BY <1>5 DEF ReleaseAnswered
<1>6. CASE CompensateAnswered(i)
  BY <1>6 DEF CompensateAnswered, Answered
<1>7. CASE PublishConfirmed(i)
  BY <1>7 DEF PublishConfirmed
<1>8. CASE PublishFailed(i)
  BY <1>8 DEF PublishFailed
<1> QED BY <1>1, <1>2, <1>3, <1>4, <1>5, <1>6, <1>7, <1>8 DEF SagaStep

----------------------------------------------------------------------------
(* Failures of a saga, and the deadlines.                                  *)

LEMMA SagaFails ==
    ASSUME SagaInv, TypeOK', NEW i \in Sagas,
           \/ \E r \in SagaCall \cup CancelCall \cup ConfirmUpdate : CallFails(i, r)
           \/ TimesOut(i) \/ Crash(i)
    PROVE  SagaInv'
<1> USE OrchestratorAssumption
    DEF Actors, SagaCall, ConfirmUpdate, TypeOK, cancelVars, serviceVars,
        Only, TakenUp, Heard, SagaRow, SentInv, PaidInv, SettledInv, Told,
        Confirming, NoneSent, GotConfirmed, GotReleased, ActsPaid, ActsDeclined
<1>1. TypeOK /\ SagaRow(i)
  BY DEF SagaInv
<1>2. \A e, j : Announced(e, j)' <=> Announced(e, j)
  BY AnnouncedUnchanged DEF CallFails, TimesOut, Crash
<1>3. ASSUME NEW r \in SagaCall \cup CancelCall \cup ConfirmUpdate, CallFails(i, r)
      PROVE  SagaInv'
  <2>1. TakenUp(i, r)
    BY <1>3, SentByExecuted DEF CallFails
  <2>2. r \in SagaCall \cup ConfirmUpdate
    BY <1>1, <2>1 DEF TakenUp, Sent, CancelCall
  <2>3. \E q \in SagaCall : Heard(i, q, "ERROR")
    BY <1>1, <1>3, <2>2, Responded DEF CallFails
  <2>4. Only(i, i) /\ ~Told(i)
    BY <1>1, <1>2, <1>3, <2>1, <2>2, <2>3 DEF CallFails
  <2>5. payment[i] # "REFUNDED" /\ ~CancelSent(i)
    BY <2>4, UntoldUncancelled
  <2>6. SentInv(i)'
    BY <1>1, <1>2, <1>3, <2>1, <2>2, <2>3 DEF CallFails
  <2>7. PaidInv(i)'
    BY <1>1, <1>2, <1>3, <2>1, <2>2, <2>3, <2>5 DEF CallFails
  <2>8. SettledInv(i)'
    BY <1>1, <1>2, <1>3, <2>1, <2>2, <2>3, <2>5 DEF CallFails
  <2> QED BY <2>4, <2>6, <2>7, <2>8, SagaSide
<1>4. CASE TimesOut(i) \/ Crash(i)
  <2>1. \A b, s : Sent(b, s)' <=> Sent(b, s)
    BY <1>4, SentUnchanged DEF TimesOut, Crash
  <2>2. Only(i, i) /\ ~Told(i)
    BY <1>1, <1>2, <1>4, <2>1 DEF TimesOut, Crash, CancelCall
  <2>3. payment[i] # "REFUNDED" /\ ~CancelSent(i)
    BY <2>2, UntoldUncancelled
  <2>4. SentInv(i)'
    BY <1>1, <1>4, <2>1, <2>2 DEF TimesOut, Crash
  <2>5. PaidInv(i)'
    BY <1>1, <1>2, <1>4, <2>1, <2>3 DEF TimesOut, Crash
  <2>6. SettledInv(i)'
    BY <1>1, <1>2, <1>4, <2>1, <2>3 DEF TimesOut, Crash
  <2> QED BY <2>2, <2>4, <2>5, <2>6, SagaSide
<1> QED BY <1>3, <1>4

LEMMA NothingChanges ==
    ASSUME SagaInv, TypeOK',
           UNCHANGED <<pc, answer, pending, booking, payment, outcome, events,
                       cancelVars>>
    PROVE  SagaInv'
<1> USE DEF cancelVars
<1>1. \A j \in Sagas : /\ Same(j) /\ (CancelSent(j) => CancelSent(j)')
                       /\ (RefundSent(j) => RefundSent(j)')
  BY SentUnchanged, AnnouncedUnchanged DEF Same, CancelSent, RefundSent
<1>2. \A j \in Sagas : SagaRow(j)'
  BY <1>1, SameKeeps DEF SagaInv, SagaRow
<1>3. ASSUME NEW y \in Cancels PROVE CancelInv(y)'
  BY SentUnchanged DEF SagaInv, CancelInv, Told
<1> QED BY <1>2, <1>3 DEF SagaInv, SagaRow

----------------------------------------------------------------------------
(* The steps of a cancellation.                                            *)

\* A cancellation x works on the settled rows of its saga: it refunds the
\* payment, cancels the booking, and announces a cancelled booking.
LEMMA CancelSide ==
    ASSUME SagaInv, TypeOK', NEW x \in Cancels, NEW i \in Sagas, i = cancelOf[x],
           Only(x, i), Told(i), pc'[x] # "idle", CancelInv(x)',
           \/ payment'[i] = payment[i]
           \/ payment[i] = "SUCCEEDED" /\ payment'[i] = "REFUNDED" /\ x \in withRefund,
           booking'[i] \in {booking[i], "CANCELLED"},
           \A e : Announced(e, i) => Announced(e, i)',
           \A e : Announced(e, i)' =>
              \/ Announced(e, i)
              \/ e = "BookingCancelled" /\ booking'[i] = "CANCELLED"
    PROVE  SagaInv'
<1> USE OrchestratorAssumption DEF Actors
<1>1. \A y \in Cancels : /\ cancelOf'[y] = cancelOf[y]
                         /\ pc[y] # "idle" => pc'[y] # "idle"
  BY DEF Only
<1>2. \A j \in Sagas : /\ CancelSent(j) => CancelSent(j)'
                       /\ RefundSent(j) => RefundSent(j)'
  BY <1>1 DEF CancelSent, RefundSent, Only, SagaInv, TypeOK
<1>3. CancelSent(i)'
  BY <1>1 DEF CancelSent
<1>4. \A j \in Sagas : /\ pc'[j] = pc[j] /\ answer'[j] = answer[j]
                       /\ outcome'[j] = outcome[j]
                       /\ \A r : Sent(j, r)' <=> Sent(j, r)
  BY DEF Only
<1>5. ASSUME NEW j \in Sagas PROVE SagaRow(j)'
  <2>1. CASE j = i
    <3>1. SagaRow(i)
      BY DEF SagaInv, SagaRow
    <3> USE DEF SagaRow, SentInv, PaidInv, SettledInv, Told, Confirming, NoneSent,
            GotConfirmed, GotReleased, ActsPaid, ActsDeclined
    <3>2. SentInv(i)'
      BY <1>4, <3>1
    <3>3. PaidInv(i)'
      <4>1. payment'[i] = "REFUNDED" => RefundSent(i)'
        BY <1>1, <1>2, <3>1 DEF RefundSent, Only
      <4> QED BY <1>3, <1>4, <3>1, <4>1
    <3>4. SettledInv(i)'
      BY <1>3, <1>4, <3>1
    <3> QED BY <2>1, <3>2, <3>3, <3>4
  <2>2. CASE j # i
    <3>1. Same(j)
      BY <1>4, <2>2 DEF Only, Same
    <3> QED BY <1>2, <3>1, SameKeeps DEF SagaInv, SagaRow
  <2> QED BY <2>1, <2>2
<1>6. ASSUME NEW y \in Cancels, y # x PROVE CancelInv(y)'
  <2>1. CancelInv(y) /\ cancelOf[y] \in Sagas
    BY DEF SagaInv, TypeOK
  <2>2. /\ pc'[y] = pc[y] /\ answer'[y] = answer[y] /\ outcome'[y] = outcome[y]
        /\ cancelOf'[y] = cancelOf[y] /\ withRefund' = withRefund
        /\ y \in unrefunded' <=> y \in unrefunded
        /\ \A r : Sent(y, r)' <=> Sent(y, r)
        /\ booking'[cancelOf[y]] \in {booking[cancelOf[y]], "CANCELLED"}
        /\ payment'[cancelOf[y]] \in {payment[cancelOf[y]], "REFUNDED"}
    BY <1>6, <2>1 DEF Only
  <2> QED BY <1>4, <2>1, <2>2 DEF CancelInv, Told
<1> QED BY <1>5, <1>6 DEF SagaInv, SagaRow

LEMMA CancelGoesOn ==
    ASSUME SagaInv, TypeOK', NEW x \in Cancels,
           Cancel(x) \/ RefundAnswered(x) \/ CancelAnswered(x)
    PROVE  SagaInv'
<1> USE OrchestratorAssumption
    DEF Actors, CancelCall, TypeOK, cancelVars, serviceVars, Only, TakenUp, Heard,
        CancelInv, Told
<1>1. TypeOK /\ CancelInv(x) /\ cancelOf[x] \in Sagas
  BY DEF SagaInv
<1>2. \A e, j : Announced(e, j)' <=> Announced(e, j)
  BY AnnouncedUnchanged DEF Cancel, RefundAnswered, CancelAnswered
<1>3. ASSUME NEW r \in CancelCall, Call(x, r), pc[x] = "idle" => Told(cancelOf[x]),
             UNCHANGED <<serviceVars, cancelOf, withRefund>>,
             \A y \in Cancels \ {x} : y \in unrefunded' <=> y \in unrefunded,
             r = "refund" => x \in withRefund,
             pc[x] # "over",
             r = "cancel" /\ x \in withRefund \ unrefunded' =>
                payment[cancelOf[x]] = "REFUNDED"
      PROVE  SagaInv'
  <2>1. \A b, s : Sent(b, s)' <=> Sent(b, s) \/ (b = x /\ s = r)
    BY <1>3, SentByCall
  <2>2. Only(x, cancelOf[x]) /\ Told(cancelOf[x])
    BY <1>1, <1>2, <1>3, <2>1 DEF Call
  <2>3. CancelInv(x)'
    BY <1>1, <1>3, <2>1, <2>2 DEF Call
  <2> QED BY <1>1, <1>2, <1>3, <2>2, <2>3, CancelSide DEF Call
<1>4. CASE Cancel(x)
  BY <1>3, <1>4 DEF Cancel
<1>5. CASE RefundAnswered(x)
  BY <1>1, <1>3, <1>5 DEF RefundAnswered, Answered
<1>6. CASE CancelAnswered(x)
  <2>1. \A b, s : Sent(b, s)' <=> Sent(b, s)
    BY <1>6, SentUnchanged DEF CancelAnswered, Publish, Finish
  <2>2. Only(x, cancelOf[x]) /\ Told(cancelOf[x]) /\ CancelInv(x)' /\ pc'[x] # "idle"
    BY <1>1, <1>2, <1>6, <2>1 DEF CancelAnswered, Answered, Publish, Finish
  <2> QED BY <1>1, <1>2, <1>6, <2>2, CancelSide DEF CancelAnswered
<1> QED BY <1>4, <1>5, <1>6

LEMMA CancelPublishes ==
    ASSUME SagaInv, TypeOK', NEW x \in Cancels, PublishCancelled(x)
    PROVE  SagaInv'
<1> USE OrchestratorAssumption DEF Actors, cancelVars, serviceVars
<1>1. /\ TypeOK /\ CancelInv(x) /\ cancelOf[x] \in Sagas
      /\ Told(cancelOf[x]) /\ booking[cancelOf[x]] = "CANCELLED"
      /\ pc[x] = "publishCancelled"
  <2>1. TypeOK /\ CancelInv(x) /\ pc[x] = "publishCancelled"
    BY DEF SagaInv, PublishCancelled
  <2>2. cancelOf[x] \in Sagas
    BY <2>1 DEF TypeOK
  <2>3. Told(cancelOf[x])
    BY <2>1 DEF CancelInv
  <2>4. booking[cancelOf[x]] = "CANCELLED"
    BY <2>1 DEF CancelInv
  <2> QED BY <2>1, <2>2, <2>3, <2>4
<1>2. \A b, s : Sent(b, s)' <=> Sent(b, s)
  BY SentUnchanged DEF PublishCancelled, Finish
<1>3. /\ \A e, j : Announced(e, j) => Announced(e, j)'
      /\ \A e, j : Announced(e, j)' =>
            Announced(e, j) \/ (e = "BookingCancelled" /\ j = cancelOf[x])
  BY DEF PublishCancelled, Announced
<1>4. /\ \A b \in Actors \ {x} :
            pc'[b] = pc[b] /\ answer'[b] = answer[b] /\ outcome'[b] = outcome[b]
      /\ pc'[x] = "over"
      /\ UNCHANGED <<booking, payment, cancelOf, withRefund, unrefunded>>
  BY <1>1 DEF PublishCancelled, Finish, TypeOK
<1>5. \A e, j : j # cancelOf[x] => (Announced(e, j)' <=> Announced(e, j))
  BY <1>3
<1>6. Only(x, cancelOf[x])
  BY <1>2, <1>4, <1>5 DEF Only
<1>7. Told(cancelOf[x])'
  BY <1>1, <1>4 DEF Told
<1>8. CancelInv(x)'
  BY <1>1, <1>2, <1>4, <1>7 DEF CancelInv
<1>9. \A e : /\ Announced(e, cancelOf[x]) => Announced(e, cancelOf[x])'
             /\ Announced(e, cancelOf[x])' =>
                   \/ Announced(e, cancelOf[x])
                   \/ e = "BookingCancelled" /\ booking'[cancelOf[x]] = "CANCELLED"
  BY <1>1, <1>3, <1>4
<1> QED BY <1>1, <1>4, <1>6, <1>8, <1>9, CancelSide

LEMMA ServiceCancelStep ==
    ASSUME SagaInv, TypeOK', NEW x \in Cancels,
           ReleaseCancelled(x) \/ Refund(x)
    PROVE  SagaInv'
<1> USE OrchestratorAssumption
    DEF Actors, CancelCall, TypeOK, cancelVars, serviceVars, Only, TakenUp, Heard,
        CancelInv, Told
<1>1. TypeOK /\ CancelInv(x) /\ cancelOf[x] \in Sagas
  BY DEF SagaInv
<1>2. \A e, j : Announced(e, j)' <=> Announced(e, j)
  BY AnnouncedUnchanged DEF ReleaseCancelled, Refund
<1>3. CASE ReleaseCancelled(x)
  <2>1. TakenUp(x, "cancel")
    BY <1>3, SentByExecuted DEF ReleaseCancelled
  <2>2. Heard(x, "cancel", "OK")
    BY <1>1, <1>3, Responded DEF ReleaseCancelled
  <2>3. Only(x, cancelOf[x]) /\ Told(cancelOf[x]) /\ CancelInv(x)' /\ pc'[x] # "idle"
    BY <1>1, <1>2, <1>3, <2>1, <2>2 DEF ReleaseCancelled, SetBooking
  <2> QED BY <1>1, <1>2, <1>3, <2>3, CancelSide DEF ReleaseCancelled, SetBooking
<1>4. CASE Refund(x)
  <2>1. TakenUp(x, "refund")
    BY <1>4, SentByExecuted DEF Refund
  <2>2. \E v \in {"OK", "ERROR"} :
           Heard(x, "refund", v) /\ (v = "OK" => payment'[cancelOf[x]] = "REFUNDED")
    BY <1>1, <1>4, Responded DEF Refund
  <2>3. Only(x, cancelOf[x]) /\ Told(cancelOf[x]) /\ pc'[x] # "idle"
    BY <1>1, <1>2, <1>4, <2>1, <2>2 DEF Refund
  <2>4. \/ payment'[cancelOf[x]] = payment[cancelOf[x]]
        \/ payment[cancelOf[x]] = "SUCCEEDED" /\ payment'[cancelOf[x]] = "REFUNDED"
    BY <1>1, <1>4 DEF Refund
  <2>5. CancelInv(x)'
    BY <1>1, <1>4, <2>1, <2>2, <2>3, <2>4 DEF Refund
  <2> QED BY <1>1, <1>2, <1>4, <2>1, <2>3, <2>4, <2>5, CancelSide DEF Refund
<1> QED BY <1>3, <1>4

LEMMA CancelFails ==
    ASSUME SagaInv, TypeOK', NEW x \in Cancels,
           \/ \E r \in SagaCall \cup CancelCall \cup ConfirmUpdate : CallFails(x, r)
           \/ TimesOut(x) \/ Crash(x)
    PROVE  SagaInv'
<1> USE OrchestratorAssumption
    DEF Actors, CancelCall, TypeOK, cancelVars, serviceVars, Only, TakenUp, Heard,
        CancelInv, Told
<1>1. TypeOK /\ CancelInv(x) /\ cancelOf[x] \in Sagas
  BY DEF SagaInv
<1>2. \A e, j : Announced(e, j)' <=> Announced(e, j)
  BY AnnouncedUnchanged DEF CallFails, TimesOut, Crash
<1>3. ASSUME NEW r \in SagaCall \cup CancelCall \cup ConfirmUpdate, CallFails(x, r)
      PROVE  SagaInv'
  <2>1. TakenUp(x, r)
    BY <1>3, SentByExecuted DEF CallFails
  <2>2. r \in CancelCall
    BY <1>1, <2>1 DEF TakenUp, Sent, SagaCall, ConfirmUpdate
  <2>3. Heard(x, r, "ERROR")
    BY <1>1, <1>3, <2>2, Responded DEF CallFails, ConfirmUpdate
  <2>4. Only(x, cancelOf[x]) /\ Told(cancelOf[x]) /\ CancelInv(x)' /\ pc'[x] # "idle"
    BY <1>1, <1>2, <1>3, <2>1, <2>2, <2>3 DEF CallFails
  <2> QED BY <1>1, <1>2, <1>3, <2>4, CancelSide DEF CallFails
<1>4. CASE TimesOut(x) \/ Crash(x)
  <2>1. \A b, s : Sent(b, s)' <=> Sent(b, s)
    BY <1>4, SentUnchanged DEF TimesOut, Crash
  <2>2. Only(x, cancelOf[x]) /\ Told(cancelOf[x]) /\ CancelInv(x)' /\ pc'[x] # "idle"
    BY <1>1, <1>2, <1>4, <2>1 DEF TimesOut, Crash, SagaCall
  <2> QED BY <1>1, <1>2, <1>4, <2>2, CancelSide DEF TimesOut, Crash
<1> QED BY <1>3, <1>4

----------------------------------------------------------------------------
(* The invariant and what follows from it.                                 *)

LEMMA SagaInvInit == Init => SagaInv
<1> SUFFICES ASSUME Init PROVE SagaInv
  OBVIOUS
<1>1. TypeOK
  BY TypeInit
<1>2. \A a, r, e : ~Sent(a, r) /\ ~Announced(e, a)
  BY DEF Init, Sent, Announced
<1>3. ASSUME NEW i \in Sagas PROVE SagaRow(i)
  <2>1. /\ pc[i] = "idle" /\ outcome[i] = "NONE" /\ answer[i] = "NONE"
        /\ booking[i] = "ABSENT" /\ payment[i] = "ABSENT"
    BY DEF Init, Actors
  <2> QED
    BY <1>2, <2>1 DEF SagaRow, SentInv, PaidInv, SettledInv, Told, Confirming,
       NoneSent, GotConfirmed, GotReleased, ActsPaid, ActsDeclined
<1>4. ASSUME NEW x \in Cancels PROVE CancelInv(x)
  BY <1>2 DEF Init, Actors, CancelInv
<1> QED BY <1>1, <1>3, <1>4 DEF SagaInv, SagaRow

LEMMA SagaInvStep == SagaInv /\ [Next]_vars => SagaInv'
<1> SUFFICES ASSUME SagaInv, [Next]_vars PROVE SagaInv'
  OBVIOUS
<1>1. TypeOK'
  BY TypeStep DEF SagaInv
<1>2. ASSUME NEW a \in Actors, ServiceStep(a) \/ TimesOut(a) \/ Crash(a)
      PROVE  SagaInv'
  <2>1. CASE a \in Sagas
    BY <1>1, <1>2, <2>1, ServiceSagaStep, SagaFails, OrchestratorAssumption
       DEF ServiceStep
  <2>2. CASE a \in Cancels
    BY <1>1, <1>2, <2>2, ServiceCancelStep, CancelFails, OrchestratorAssumption
       DEF ServiceStep
  <2> QED BY <2>1, <2>2 DEF Actors
<1>3. ASSUME NEW i \in Sagas, Start(i) \/ SagaStep(i) PROVE SagaInv'
  BY <1>1, <1>3, SagaGoesOn
<1>4. CASE HoldsAge
  BY <1>1, <1>4, NothingChanges DEF HoldsAge
<1>5. ASSUME NEW x \in Cancels, Cancel(x) \/ CancelStep(x) PROVE SagaInv'
  BY <1>1, <1>5, CancelGoesOn, CancelPublishes DEF CancelStep
<1>6. CASE Finished \/ UNCHANGED vars
  BY <1>1, <1>6, NothingChanges DEF Finished, vars, cancelVars
<1> QED BY <1>2, <1>3, <1>4, <1>5, <1>6 DEF Next

LEMMA SagaInvCorrect == Spec => []SagaInv
BY SagaInvInit, SagaInvStep, PTL DEF Spec

LEMMA SagaInvSuffices ==
    SagaInv => /\ SuccessBacked /\ DeclinedBacked /\ ConfirmedIsPaid
               /\ CancelledIsRefunded /\ EventsTrue
<1> SUFFICES ASSUME SagaInv
             PROVE  /\ SuccessBacked /\ DeclinedBacked /\ ConfirmedIsPaid
                    /\ CancelledIsRefunded /\ EventsTrue
  OBVIOUS
<1> USE DEF SagaInv, PaidInv, SettledInv, GotConfirmed, GotReleased, ActsPaid,
        ActsDeclined
<1>1. SuccessBacked
  BY DEF SuccessBacked, RefundSent, CancelSent, TypeOK
<1>2. DeclinedBacked
  BY DEF DeclinedBacked
<1>3. ConfirmedIsPaid
  <2> SUFFICES ASSUME NEW i \in Sagas, booking[i] = "CONFIRMED", payment[i] # "SUCCEEDED"
               PROVE  payment[i] = "REFUNDED" /\
                      \E x \in withRefund : cancelOf[x] = i /\ pc[x] # "idle"
                                            /\ outcome[x] # "SUCCESS"
    BY DEF ConfirmedIsPaid
  <2>1. payment[i] = "REFUNDED" /\ RefundSent(i)
    OBVIOUS
  <2> QED BY <2>1 DEF RefundSent, CancelInv, TypeOK
<1>4. CancelledIsRefunded
  BY DEF CancelledIsRefunded, CancelInv
<1>5. EventsTrue
  BY DEF EventsTrue, Announced
<1> QED BY <1>1, <1>2, <1>3, <1>4, <1>5

\* A passenger told of success has a confirmed and paid booking until a
\* cancellation, whatever timed out before.
THEOREM SuccessSafe == Spec => []SuccessBacked
BY SagaInvCorrect, SagaInvSuffices, PTL

\* A declined passenger has not paid and does not keep the seat.
THEOREM DeclinedSafe == Spec => []DeclinedBacked
BY SagaInvCorrect, SagaInvSuffices, PTL

\* No booking is confirmed without a payment that succeeded and was not refunded,
\* but for a cancellation that is still under way or was reported as failed.
THEOREM ConfirmedPaid == Spec => []ConfirmedIsPaid
BY SagaInvCorrect, SagaInvSuffices, PTL

\* A cancellation reported as done has cancelled the booking and, unless its refund
\* was answered by an error or not at all, returned the money.
THEOREM CancellationsSafe == Spec => []CancelledIsRefunded
BY SagaInvCorrect, SagaInvSuffices, PTL

\* The events on Kafka are true and stay true.
THEOREM EventsReliable == Spec => []EventsTrue
BY SagaInvCorrect, SagaInvSuffices, PTL

----------------------------------------------------------------------------
(* Progress.  That a request ends needs fairness (EverySagaEnds); that it   *)
(* never waits for an answer it has, and never goes back, does not.         *)

\* The answers that a request at p has a continuation for.
Expected(p) ==
    CASE p = "charge" -> {"SUCCEEDED", "FAILED", "ERROR"}
      [] p \in (SagaCall \cup CancelCall) \ {"charge"} -> {"OK", "ERROR"}
      [] OTHER -> {}

\* Where the code of a request can be.
Places(a) ==
    {"idle", "over"} \cup
    IF a \in Sagas THEN SagaCall \cup {"publishConfirmed", "publishFailed"}
                   ELSE CancelCall \cup {"publishCancelled"}

AnswersExpected ==
    \A a \in Actors : pc[a] \in Places(a) /\ answer[a] \in {"NONE"} \cup Expected(pc[a])

Rank == [idle |-> 0, hold |-> 1, charge |-> 2, confirm |-> 3, release |-> 3,
         publishConfirmed |-> 4, publishFailed |-> 4, compensate |-> 5,
         refund |-> 1, cancel |-> 2, publishCancelled |-> 3, over |-> 6]

\* A request moves on, with no answer yet, or one that it waits for arrives.
Moves(a) ==
    \/ pc'[a] = pc[a] /\ answer'[a] \in {answer[a]} \cup Expected(pc[a])
    \/ pc'[a] \in Places(a) /\ Rank[pc'[a]] > Rank[pc[a]] /\ answer'[a] = "NONE"

LEMMA RequestsMove == TypeOK /\ [Next]_vars => \A a \in Actors : Moves(a)
<1> SUFFICES ASSUME TypeOK, [Next]_vars, NEW b \in Actors PROVE Moves(b)
  OBVIOUS
<1> USE OrchestratorAssumption DEF TypeOK, Actors, SagaCall, CancelCall
<1>1. ASSUME UNCHANGED <<pc, answer>> PROVE Moves(b)
  BY <1>1 DEF Moves
<1>2. ASSUME NEW a \in Actors, NEW r, NEW v \in Expected(r), UNCHANGED pc,
             Respond(a, r, v)
      PROVE  Moves(b)
  BY <1>2 DEF Respond, Moves
<1>3. ASSUME NEW a \in Actors, NEW p \in Places(a), Rank[p] > Rank[pc[a]],
             \/ Call(a, p) \/ Publish(a, p)
             \/ p = "over" /\ \E o : Finish(a, o)
             \/ pc' = [pc EXCEPT ![a] = p] /\ answer' = [answer EXCEPT ![a] = "NONE"]
      PROVE  Moves(b)
  BY <1>3 DEF Moves, Call, Publish, Finish
<1>4. ASSUME NEW a \in Actors, ServiceStep(a) PROVE Moves(b)
  <2>1. CASE a \in Sagas /\ (CreateHold(a) \/ ConfirmRefused(a) \/ ConfirmWrites(a))
    BY <1>2, <2>1 DEF CreateHold, ConfirmRefused, ConfirmWrites, Expected
  <2>2. CASE a \in Sagas /\ (Charge(a) \/ Release(a))
    BY <1>2, <2>2 DEF Charge, Release, Expected
  <2>3. CASE a \in Sagas /\ (ConfirmReads(a) \/ ConfirmAccepts(a))
    BY <1>1, <2>3 DEF ConfirmReads, ConfirmAccepts
  <2>4. CASE a \in Cancels /\ (ReleaseCancelled(a) \/ Refund(a))
    BY <1>2, <2>4 DEF ReleaseCancelled, Refund, Expected
  <2>5. ASSUME NEW r \in SagaCall \cup CancelCall \cup ConfirmUpdate, CallFails(a, r)
        PROVE  Moves(b)
    <3>1. "ERROR" \in Expected(IF r \in ConfirmUpdate THEN "confirm" ELSE r)
      BY DEF Expected, ConfirmUpdate
    <3> QED BY <1>2, <2>5, <3>1 DEF CallFails
  <2> QED BY <1>4, <2>1, <2>2, <2>3, <2>4, <2>5 DEF ServiceStep
<1>5. ASSUME NEW a \in Actors, TimesOut(a) PROVE Moves(b)
  BY <1>5 DEF TimesOut, Moves, Expected
<1>6. ASSUME NEW a \in Actors, Crash(a) PROVE Moves(b)
  <2>1. "over" \in Places(a) /\ Rank["over"] > Rank[pc[a]]
    BY <1>6 DEF Crash, Rank, Places, Publishing
  <2> QED BY <1>3, <1>6, <2>1 DEF Crash
<1>7. ASSUME NEW i \in Sagas, Start(i) PROVE Moves(b)
  BY <1>3, <1>7 DEF Start, Rank, Places
<1>8. ASSUME NEW i \in Sagas, SagaStep(i) PROVE Moves(b)
  <2>1. CASE HoldAnswered(i)
    BY <1>3, <2>1 DEF HoldAnswered, Answered, Rank, Places
  <2>2. CASE ChargeAnswered(i)
    BY <1>3, <2>2 DEF ChargeAnswered, Answered, Rank, Places
  <2>3. CASE ConfirmAnswered(i)
    BY <1>3, <2>3 DEF ConfirmAnswered, Answered, Rank, Places
  <2>4. CASE ReleaseAnswered(i)
    BY <1>3, <2>4 DEF ReleaseAnswered, Answered, Rank, Places
  <2>5. CASE CompensateAnswered(i)
    BY <1>3, <2>5 DEF CompensateAnswered, Answered, Rank, Places
  <2>6. CASE PublishConfirmed(i)
    BY <1>3, <2>6 DEF PublishConfirmed, Rank, Places
  <2>7. CASE PublishFailed(i)
    BY <1>3, <2>7 DEF PublishFailed, Rank, Places
  <2> QED BY <1>8, <2>1, <2>2, <2>3, <2>4, <2>5, <2>6, <2>7 DEF SagaStep
<1>9. ASSUME NEW x \in Cancels, Cancel(x) PROVE Moves(b)
  BY <1>3, <1>9 DEF Cancel, Rank, Places
<1>10. ASSUME NEW x \in Cancels, CancelStep(x) PROVE Moves(b)
  <2>1. CASE RefundAnswered(x)
    BY <1>3, <2>1 DEF RefundAnswered, Answered, Rank, Places
  <2>2. CASE CancelAnswered(x)
    BY <1>3, <2>2 DEF CancelAnswered, Answered, Rank, Places
  <2>3. CASE PublishCancelled(x)
    BY <1>3, <2>3 DEF PublishCancelled, Rank, Places
  <2> QED BY <1>10, <2>1, <2>2, <2>3 DEF CancelStep
<1>11. CASE HoldsAge \/ Finished \/ UNCHANGED vars
  BY <1>1, <1>11 DEF HoldsAge, Finished, vars
<1> QED BY <1>4, <1>5, <1>6, <1>7, <1>8, <1>9, <1>10, <1>11 DEF Next

\* Whatever the services do, answer late or fail to, a request that has an answer has
\* one that its code goes on from: none is stuck for want of a case.
THEOREM EveryAnswerExpected == Spec => []AnswersExpected
<1>1. Init => AnswersExpected
  BY DEF Init, AnswersExpected, Places
<1>2. TypeOK /\ AnswersExpected /\ [Next]_vars => AnswersExpected'
  BY RequestsMove DEF AnswersExpected, Moves
<1> QED BY <1>1, <1>2, TypeInit, TypeStep, PTL DEF Spec

\* A saga, its nested compensations included, and a cancellation only go forward: no
\* answer makes a request repeat a call, so that each has at most six moves.
THEOREM RequestsGoForward ==
    Spec => [][\A a \in Actors : pc'[a] # pc[a] => Rank[pc'[a]] > Rank[pc[a]]]_vars
<1>1. TypeOK /\ [Next]_vars =>
          [\A a \in Actors : pc'[a] # pc[a] => Rank[pc'[a]] > Rank[pc[a]]]_vars
  BY RequestsMove DEF Moves
<1> QED BY <1>1, TypeInit, TypeStep, PTL DEF Spec
=============================================================================
