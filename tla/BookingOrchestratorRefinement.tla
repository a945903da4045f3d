------------------- MODULE BookingOrchestratorRefinement -------------------
(***************************************************************************)
(* The sagas and the contracts of the services they call: proofs that      *)
(* BookingOrchestrator implements SeatInventory and PaymentLedger, that it *)
(* allows its services all that these do, and what follows from it.        *)
(***************************************************************************)
EXTENDS BookingOrchestratorProofs

----------------------------------------------------------------------------
(* The inventory's rules are about rows that are there.  A row is claimed   *)
(* by the first call of its saga only, and every other call is sent after  *)
(* that one was answered.                                                  *)

RowInv(i) ==
    /\ pc[i] = "idle" \/ Sent(i, "hold") => booking[i] = "ABSENT"
    /\ booking[i] = "ABSENT" =>
          /\ pc[i] \in {"idle", "hold", "over"}
          /\ pc[i] = "hold" => answer[i] # "OK"
          /\ \A r \in (SagaCall \cup ConfirmUpdate) \ {"hold"} : ~Sent(i, r)
          /\ ~Told(i)

RowsInv == SagaInv /\ \A i \in Sagas : RowInv(i)

LEMMA RowsInvInit == Init => RowsInv
<1> SUFFICES ASSUME Init, NEW i \in Sagas PROVE RowInv(i)
  BY SagaInvInit DEF RowsInv
<1>1. /\ pc[i] = "idle" /\ outcome[i] = "NONE" /\ booking[i] = "ABSENT"
      /\ pending = {}
  BY DEF Init, Actors
<1> QED BY <1>1 DEF RowInv, Sent, Told

\* Steps that leave saga j alone keep what is known of it.
LEMMA RowSame ==
    ASSUME NEW j \in Sagas, RowInv(j), pc'[j] = pc[j], answer'[j] = answer[j],
           outcome'[j] = outcome[j], booking'[j] = booking[j],
           \A r : Sent(j, r)' => Sent(j, r)
    PROVE  RowInv(j)'
BY DEF RowInv, Told

\* The steps of the services for saga i.
LEMMA RowsServiceStep ==
    ASSUME RowsInv, NEW i \in Sagas, NEW j \in Sagas,
           \/ CreateHold(i) \/ Charge(i) \/ ConfirmReads(i) \/ ConfirmRefused(i)
           \/ ConfirmAccepts(i) \/ ConfirmWrites(i) \/ Release(i)
    PROVE  RowInv(j)'
<1> USE DEF serviceVars, SetBooking
<1>1. TypeOK /\ SentInv(i) /\ RowInv(i) /\ RowInv(j) /\ j \in Actors /\ i \in Actors
  BY DEF RowsInv, SagaInv, Actors
<1>2. /\ pc' = pc /\ outcome' = outcome
      /\ \A b \in Actors : answer'[b] = answer[b] \/ b = i
      /\ \A k \in Sagas : booking'[k] = booking[k] \/ k = i
      /\ \A r : Sent(j, r)' => Sent(j, r) \/ j = i
  BY <1>1 DEF CreateHold, Charge, ConfirmReads, ConfirmRefused, ConfirmAccepts,
     ConfirmWrites, Release, Executed, Respond, TypeOK, Sent
<1>3. CASE j # i
  BY <1>1, <1>2, <1>3, RowSame
<1>4. CASE j = i /\ CreateHold(i)
  <2>1. TakenUp(i, "hold")
    BY <1>4, SentByExecuted DEF CreateHold
  <2>2. \/ booking'[i] = "PENDING"
        \/ booking'[i] = booking[i] /\ answer'[i] \in {"ERROR", answer[i]}
    BY <1>1, <1>4 DEF CreateHold, Respond, TypeOK
  <2> QED BY <1>1, <1>2, <1>4, <2>1, <2>2
          DEF RowInv, SentInv, TakenUp, Told, ConfirmUpdate, SagaCall
<1>5. CASE j = i /\ Charge(i)
  <2>1. TakenUp(i, "charge") /\ booking' = booking
    BY <1>5, SentByExecuted DEF Charge
  <2> QED BY <1>1, <1>2, <1>5, <2>1 DEF RowInv, TakenUp, Told, SagaCall
<1>6. CASE j = i /\ (ConfirmReads(i) \/ ConfirmAccepts(i))
  <2>1. /\ booking' = booking
        /\ Sent(i, "confirm") \/ Sent(i, "found")
        /\ \A r : Sent(i, r)' => Sent(i, r) \/ r \in ConfirmUpdate
    BY <1>6 DEF ConfirmReads, ConfirmAccepts, Sent, ConfirmUpdate
  <2>2. booking[i] # "ABSENT"
    BY <1>1, <2>1 DEF RowInv, SagaCall, ConfirmUpdate
  <2> QED BY <1>1, <1>2, <1>6, <2>1, <2>2 DEF RowInv, SentInv, ConfirmUpdate
<1>7. CASE j = i /\ ConfirmRefused(i)
  <2>1. TakenUp(i, "confirm") /\ booking' = booking
    BY <1>7, SentByExecuted DEF ConfirmRefused
  <2> QED BY <1>1, <1>2, <1>7, <2>1 DEF RowInv, TakenUp, Told, SagaCall
<1>8. CASE j = i /\ (ConfirmWrites(i) \/ Release(i))
  <2>1. PICK r \in (SagaCall \cup ConfirmUpdate) \ {"hold"} : Executed(i, r)
    BY <1>8 DEF ConfirmWrites, Release, SagaCall, ConfirmUpdate
  <2>2. TakenUp(i, r)
    BY <2>1, SentByExecuted
  <2>3. booking'[i] \in {"CONFIRMED", "EXPIRED", "FAILED"}
    BY <1>1, <1>8 DEF ConfirmWrites, Release, TypeOK
  <2> QED BY <1>1, <1>2, <1>8, <2>2, <2>3 DEF RowInv, TakenUp, Told
<1> QED BY <1>3, <1>4, <1>5, <1>6, <1>7, <1>8

\* The steps of a saga, and the failures of any request.
LEMMA RowsSagaStep ==
    ASSUME RowsInv, NEW i \in Sagas, NEW j \in Sagas, Start(i) \/ SagaStep(i)
    PROVE  RowInv(j)'
<1> USE DEF serviceVars
<1>1. TypeOK /\ SentInv(i) /\ RowInv(i) /\ RowInv(j) /\ j \in Actors /\ i \in Actors
  BY DEF RowsInv, SagaInv, Actors
<1>2. /\ booking' = booking
      /\ \A b \in Actors \ {i} :
            pc'[b] = pc[b] /\ answer'[b] = answer[b] /\ outcome'[b] = outcome[b]
      /\ \A r : Sent(j, r)' => Sent(j, r) \/ j = i
  BY <1>1 DEF Start, SagaStep, HoldAnswered, ChargeAnswered, ConfirmAnswered,
     ReleaseAnswered, CompensateAnswered, PublishConfirmed, PublishFailed, Call,
     Publish, Finish, TypeOK, Sent
<1>3. CASE j # i
  BY <1>1, <1>2, <1>3, RowSame
<1>4. CASE j = i /\ Start(i)
  <2>1. /\ pc[i] = "idle" /\ pc'[i] = "hold" /\ answer'[i] = "NONE"
        /\ outcome' = outcome
    BY <1>1, <1>4 DEF Start, Call, TypeOK
  <2>2. \A r : Sent(i, r)' => Sent(i, r) \/ r = "hold"
    BY <1>4, SentByCall DEF Start
  <2> QED BY <1>1, <1>2, <1>4, <2>1, <2>2
          DEF RowInv, SentInv, Told, SagaCall, ConfirmUpdate
<1>5. CASE j = i /\ SagaStep(i)
  <2>1. /\ pc[i] # "idle" /\ pc'[i] \notin {"idle", "hold"}
        /\ \A r : Sent(i, r)' => Sent(i, r) \/ r \in {"charge", "confirm", "release",
                                                      "compensate"}
    BY <1>1, <1>5 DEF SagaStep, HoldAnswered, ChargeAnswered, ConfirmAnswered,
       ReleaseAnswered, CompensateAnswered, PublishConfirmed, PublishFailed, Call,
       Publish, Finish, Answered, TypeOK, Sent
  <2>2. CASE HoldAnswered(i) /\ answer[i] = "ERROR"
    <3>1. /\ pc'[i] = "over" /\ outcome'[i] = "ERROR" /\ answer'[i] = "NONE"
          /\ \A r : Sent(i, r)' <=> Sent(i, r)
      BY <1>1, <2>2, SentUnchanged DEF HoldAnswered, Answered, Finish, TypeOK
    <3> QED BY <1>1, <1>2, <1>5, <2>1, <3>1 DEF RowInv, Told
  <2>3. CASE ~(HoldAnswered(i) /\ answer[i] = "ERROR")
    <3>1. booking[i] # "ABSENT"
      BY <1>1, <1>5, <2>3 DEF SagaStep, HoldAnswered, ChargeAnswered,
         ConfirmAnswered, ReleaseAnswered, CompensateAnswered, PublishConfirmed,
         PublishFailed, Answered, RowInv
    <3> QED BY <1>1, <1>2, <1>5, <2>1, <3>1 DEF RowInv
  <2> QED BY <2>2, <2>3
<1> QED BY <1>3, <1>4, <1>5

LEMMA RowsFailure ==
    ASSUME RowsInv, NEW a \in Actors, NEW j \in Sagas,
           \/ \E r \in SagaCall \cup CancelCall \cup ConfirmUpdate : CallFails(a, r)
           \/ TimesOut(a) \/ Crash(a)
    PROVE  RowInv(j)'
<1> USE DEF serviceVars
<1>1. TypeOK /\ SentInv(j) /\ RowInv(j) /\ j \in Actors
  BY DEF RowsInv, SagaInv, Actors
<1>2. /\ booking' = booking /\ outcome' = outcome
      /\ pc'[j] \in {pc[j], "over"} /\ (pc[j] = "idle" => pc'[j] = "idle")
      /\ answer'[j] \in {answer[j], "NONE", "ERROR"}
      /\ \A r : Sent(j, r)' => Sent(j, r)
  BY <1>1 DEF CallFails, TimesOut, Crash, Respond, Executed, Sent, TypeOK
<1> QED BY <1>1, <1>2 DEF RowInv, Told

\* The steps of a cancellation: its saga's row is there.
LEMMA RowsCancelStep ==
    ASSUME RowsInv, NEW x \in Cancels, NEW j \in Sagas,
           ReleaseCancelled(x) \/ Refund(x) \/ Cancel(x) \/ CancelStep(x)
    PROVE  RowInv(j)'
<1> USE OrchestratorAssumption DEF serviceVars, cancelVars
<1>1. /\ TypeOK /\ RowInv(j) /\ j \in Actors /\ x \in Actors /\ x # j
      /\ CancelInv(x)
  BY DEF RowsInv, SagaInv, Actors
<1>2. /\ pc'[j] = pc[j] /\ answer'[j] = answer[j] /\ outcome'[j] = outcome[j]
      /\ \A r : Sent(j, r)' => Sent(j, r)
  BY <1>1 DEF ReleaseCancelled, Refund, Cancel, CancelStep, RefundAnswered,
     CancelAnswered, PublishCancelled, Call, Publish, Finish, Respond, Executed, Sent,
     TypeOK
<1>3. CASE booking'[j] = booking[j]
  BY <1>1, <1>2, <1>3, RowSame
<1>4. CASE booking'[j] # booking[j]
  <2>1. ReleaseCancelled(x) /\ j = cancelOf[x] /\ booking'[j] = "CANCELLED"
    BY <1>1, <1>4 DEF ReleaseCancelled, Refund, Cancel, CancelStep, RefundAnswered,
       CancelAnswered, PublishCancelled, SetBooking, TypeOK
  <2>2. Sent(x, "cancel")
    BY <2>1 DEF ReleaseCancelled, Executed, Sent
  <2>3. Told(j)
    BY <1>1, <2>1, <2>2 DEF CancelInv, CancelCall
  <2>4. booking[j] # "ABSENT"
    BY <1>1, <2>3 DEF RowInv
  <2>5. pc'[j] # "idle" /\ ~Sent(j, "hold")
    BY <1>1, <1>2, <2>4 DEF RowInv
  <2> QED BY <1>1, <1>2, <2>1, <2>5 DEF RowInv
<1> QED BY <1>3, <1>4

LEMMA RowsInvStep == RowsInv /\ [Next]_vars => RowsInv'
<1> SUFFICES ASSUME RowsInv, [Next]_vars, NEW j \in Sagas PROVE RowInv(j)'
  BY SagaInvStep DEF RowsInv
<1> USE OrchestratorAssumption
<1>1. ASSUME NEW a \in Actors, ServiceStep(a) \/ TimesOut(a) \/ Crash(a)
      PROVE  RowInv(j)'
  BY <1>1, RowsServiceStep, RowsCancelStep, RowsFailure DEF ServiceStep
<1>2. ASSUME NEW i \in Sagas, Start(i) \/ SagaStep(i) PROVE RowInv(j)'
  BY <1>2, RowsSagaStep
<1>3. CASE HoldsAge
  <2>1. RowInv(j)
    BY DEF RowsInv
  <2> QED BY <1>3, <2>1, SentUnchanged, RowSame DEF HoldsAge
<1>4. ASSUME NEW x \in Cancels, Cancel(x) \/ CancelStep(x) PROVE RowInv(j)'
  BY <1>4, RowsCancelStep
<1>5. CASE Finished \/ UNCHANGED vars
  <2>1. RowInv(j) /\ UNCHANGED vars
    BY <1>5 DEF RowsInv, Finished
  <2> QED BY <2>1, SentUnchanged, RowSame DEF vars
<1> QED BY <1>1, <1>2, <1>3, <1>4, <1>5 DEF Next

----------------------------------------------------------------------------
(* Deadlines are kept for as long as they count.                           *)

Counted == lapsed \subseteq {i \in Sagas : Timed(i)}

LEMMA CountedStep == TypeOK /\ Counted /\ [Next]_vars => Counted'
<1> SUFFICES ASSUME TypeOK, Counted, [Next]_vars PROVE Counted'
  OBVIOUS
<1> USE OrchestratorAssumption DEF Counted, serviceVars, deadlines
<1>1. ASSUME KeepDeadlines PROVE Counted'
  BY <1>1 DEF KeepDeadlines, TypeOK
<1>2. ASSUME UNCHANGED <<booking, lapsed>>,
             \A i \in Sagas : <<i, "found">> \in pending => <<i, "found">> \in pending'
      PROVE  Counted'
  BY <1>2 DEF Timed
<1>3. ASSUME NEW a \in Actors, ServiceStep(a) \/ TimesOut(a) \/ Crash(a) PROVE Counted'
  <2>1. CASE a \in Sagas /\ CreateHold(a)
    <3>1. \/ UNCHANGED <<booking, lapsed>>
          \/ booking' = [booking EXCEPT ![a] = "PENDING"] /\ lapsed' \subseteq lapsed \cup {a}
      BY <2>1 DEF CreateHold, SetBooking, Age
    <3>2. \A i \in Sagas : <<i, "found">> \in pending => <<i, "found">> \in pending'
      BY <2>1 DEF CreateHold, Executed
    <3> QED BY <1>2, <2>1, <3>1, <3>2 DEF Timed, TypeOK
  <2>2. CASE \/ a \in Sagas /\ (ConfirmAccepts(a) \/ ConfirmWrites(a) \/ Release(a))
             \/ a \in Cancels /\ ReleaseCancelled(a)
             \/ \E r \in SagaCall \cup CancelCall \cup ConfirmUpdate : CallFails(a, r)
    BY <1>1, <2>2 DEF ConfirmAccepts, ConfirmWrites, Release, ReleaseCancelled, CallFails
  <2>3. CASE \/ a \in Sagas /\ (Charge(a) \/ ConfirmReads(a) \/ ConfirmRefused(a))
             \/ a \in Cancels /\ Refund(a)
             \/ TimesOut(a) \/ Crash(a)
    BY <1>2, <2>3 DEF Charge, ConfirmReads, ConfirmRefused, Refund, TimesOut, Crash,
       Executed
  <2> QED BY <1>3, <2>1, <2>2, <2>3 DEF ServiceStep
<1>4. ASSUME NEW i \in Sagas, Start(i) \/ SagaStep(i) PROVE Counted'
  BY <1>2, <1>4 DEF Start, SagaStep, HoldAnswered, ChargeAnswered, ConfirmAnswered,
     ReleaseAnswered, CompensateAnswered, PublishConfirmed, PublishFailed, Call, Publish,
     Finish
<1>5. CASE HoldsAge
  BY <1>5 DEF HoldsAge, Age, Timed
<1>6. ASSUME NEW x \in Cancels, Cancel(x) \/ CancelStep(x) PROVE Counted'
  BY <1>2, <1>6 DEF Cancel, CancelStep, RefundAnswered, CancelAnswered, PublishCancelled,
     Call, Publish, Finish
<1>7. CASE Finished \/ UNCHANGED vars
  BY <1>2, <1>7 DEF Finished, vars
<1> QED BY <1>3, <1>4, <1>5, <1>6, <1>7 DEF Next

ViewInv == RowsInv /\ Counted

LEMMA ViewInvInit == Init => ViewInv
BY RowsInvInit DEF Init, Counted, ViewInv

LEMMA ViewInvStep == ViewInv /\ [Next]_vars => ViewInv'
BY RowsInvStep, CountedStep DEF ViewInv, RowsInv, SagaInv

LEMMA ViewInvCorrect == Spec => []ViewInv
BY ViewInvInit, ViewInvStep, PTL DEF Spec

----------------------------------------------------------------------------
(* The sagas among services of which nothing is known but their contracts: *)
(* a pending call is executed as SeatInventory or PaymentLedger allows.    *)

\* A confirm goes from one of its stages to the next.
Passes(i, r, s) ==
    <<i, r>> \in pending /\ pending' = (pending \ {<<i, r>>}) \cup {<<i, s>>}

BookingServes(i) ==
    /\ \/ Executed(i, "hold") /\ Inventory!Claim(i) /\ Respond(i, "hold", "OK")
       \/ Passes(i, "confirm", "found") /\ Inventory!Find(i) /\ UNCHANGED answer
       \/ Passes(i, "found", "accepted") /\ Inventory!Accept(i) /\ UNCHANGED answer
       \/ Executed(i, "accepted") /\ Inventory!Confirm(i) /\ Respond(i, "confirm", "OK")
       \/ Executed(i, "found") /\ Inventory!Expire(i) /\ Respond(i, "confirm", "ERROR")
       \/ \E r \in {"release", "compensate"} :
             /\ Executed(i, r) /\ Inventory!Release(i) /\ booking'[i] = "FAILED"
             /\ Respond(i, r, "OK")
    /\ UNCHANGED <<pc, payment, outcome, events, cancelVars>>

BookingCancels(x) ==
    /\ Executed(x, "cancel")
    /\ Inventory!Release(cancelOf[x]) /\ booking'[cancelOf[x]] = "CANCELLED"
    /\ Respond(x, "cancel", "OK")
    /\ UNCHANGED <<pc, payment, outcome, events, cancelVars>>

PaymentServes(i) ==
    /\ Executed(i, "charge") /\ Ledger!Charge(i) /\ Respond(i, "charge", payment'[i])
    /\ UNCHANGED <<pc, booking, deadlines, flawed, outcome, events, cancelVars>>

PaymentRefunds(x) ==
    /\ Executed(x, "refund") /\ Ledger!Refund(cancelOf[x]) /\ Respond(x, "refund", "OK")
    /\ UNCHANGED <<pc, booking, deadlines, flawed, outcome, events, cancelVars>>

\* A call is refused, or fails.
ServiceRefuses(a, r) ==
    /\ Executed(a, r) /\ Inventory!Forget
    /\ Respond(a, IF r \in ConfirmUpdate THEN "confirm" ELSE r, "ERROR")
    /\ UNCHANGED <<pc, payment, outcome, events, cancelVars>>

DeadlinesPass ==
    Inventory!Lapse /\ UNCHANGED <<pc, answer, pending, payment, outcome, events, cancelVars>>

Served(a) ==
    \/ a \in Sagas /\ (BookingServes(a) \/ PaymentServes(a))
    \/ a \in Cancels /\ (BookingCancels(a) \/ PaymentRefunds(a))
    \/ \E r \in SagaCall \cup CancelCall \cup ConfirmUpdate : ServiceRefuses(a, r)

\* What the orchestrator does by itself.
OwnStep ==
    \/ \E a \in Actors : TimesOut(a) \/ Crash(a)
    \/ \E i \in Sagas : Start(i) \/ SagaStep(i)
    \/ \E x \in Cancels : Cancel(x) \/ CancelStep(x)

ContractNext == (\E a \in Actors : Served(a)) \/ OwnStep \/ DeadlinesPass

ContractSpec == Init /\ [][ContractNext]_vars

\* The calls that wait at one stage, after a step.
LEMMA WaitingTaken ==
    ASSUME NEW a, NEW r, NEW q, Executed(a, r)
    PROVE  Waiting(q)' = IF q = r THEN Waiting(q) \ {a} ELSE Waiting(q)
BY DEF Executed, Waiting

LEMMA WaitingPassed ==
    ASSUME NEW i \in Sagas, NEW r, NEW s, NEW q, Passes(i, r, s), r # s
    PROVE  Waiting(q)' = IF q = r THEN Waiting(q) \ {i}
                         ELSE IF q = s THEN Waiting(q) \cup {i} ELSE Waiting(q)
BY DEF Passes, Waiting

\* Deadlines are the same for the inventory.
LEMMA SameDeadlines ==
    ASSUME TypeOK
    PROVE  /\ \A i \in Sagas : Inventory!Timed(i) <=> Timed(i)
           /\ KeepDeadlines <=> Inventory!KeepDeadlines
<1>1. \A i \in Sagas : (Inventory!Timed(i) <=> Timed(i)) /\ (Inventory!Timed(i)' <=> Timed(i)')
  BY DEF Inventory!Timed, Timed, Waiting
<1>2. lapsed \subseteq Sagas /\ overdue \subseteq Sagas
  BY DEF TypeOK
<1> QED BY <1>1, <1>2 DEF KeepDeadlines, Inventory!KeepDeadlines

\* Steps that leave the rows and the confirms alone also keep the deadlines.
LEMMA NothingForgotten ==
    ASSUME ViewInv, UNCHANGED <<booking, lapsed, overdue>>,
           \A i \in Sagas : <<i, "found">> \in pending' <=> <<i, "found">> \in pending
    PROVE  KeepDeadlines
<1>1. \A i \in Sagas : Timed(i)' <=> Timed(i)
  BY DEF Timed
<1>2. lapsed \subseteq Sagas /\ overdue \subseteq lapsed /\ \A i \in lapsed : Timed(i)
  BY DEF ViewInv, RowsInv, SagaInv, TypeOK, Counted
<1> QED BY <1>1, <1>2 DEF KeepDeadlines

\* A refusal, whatever the service's reason, and a failure are alike.
LEMMA RefusalIsFailure ==
    ASSUME ViewInv, NEW a \in Actors, NEW r \in SagaCall \cup CancelCall \cup ConfirmUpdate
    PROVE  ServiceRefuses(a, r) <=> CallFails(a, r)
<1>1. ASSUME Executed(a, r)
      PROVE  Waiting("found")' \subseteq Waiting("found") /\ Waiting("accepted")' \subseteq Waiting("accepted")
  BY <1>1, WaitingTaken
<1>2. KeepDeadlines <=> Inventory!KeepDeadlines
  BY SameDeadlines DEF ViewInv, RowsInv, SagaInv
<1> QED BY <1>1, <1>2 DEF ServiceRefuses, CallFails, Inventory!Forget, serviceVars, Rivals

\* The inventory's claims are createHold's.
LEMMA HoldView ==
    ASSUME ViewInv, NEW i \in Sagas
    PROVE  /\ CreateHold(i) => BookingServes(i) \/ ServiceRefuses(i, "hold")
           /\ /\ Executed(i, "hold") /\ Inventory!Claim(i) /\ Respond(i, "hold", "OK")
              /\ UNCHANGED <<pc, payment, outcome, events, cancelVars>>
              => CreateHold(i)
<1>1. TypeOK /\ RowInv(i) /\ i \in Actors
  BY DEF ViewInv, RowsInv, SagaInv, Actors
<1>2. ASSUME Executed(i, "hold")
      PROVE  Waiting("found")' = Waiting("found") /\ Waiting("accepted")' = Waiting("accepted")
  BY <1>2, WaitingTaken
<1>3. Inventory!Blockers(i) \subseteq flawed <=>
         \A j \in Sagas \ {i} : Blocks(j) => j \in flawed
  BY DEF Inventory!Blockers, Inventory!Blocks, Blocks, Rivals
<1>4. Inventory!Age({i}) <=> Age({i})
  BY DEF Inventory!Age, Age
<1>5. ASSUME CreateHold(i), booking' = [booking EXCEPT ![i] = "PENDING"], Age({i}),
             Respond(i, "hold", "OK"),
             \/ (\A j \in Sagas \ {i} : Blocks(j) => j \in flawed) /\ flawed' = flawed
             \/ flawed' = flawed \cup {i}
      PROVE  BookingServes(i)
  <2>1. Executed(i, "hold") /\ UNCHANGED <<pc, payment, outcome, events, cancelVars>>
    BY <1>5 DEF CreateHold
  <2>2. ~Inventory!Present(i)
    BY <1>1, <2>1 DEF Inventory!Present, RowInv, Executed, Sent
  <2>3. Inventory!Claim(i)
    BY <1>2, <1>3, <1>4, <1>5, <2>1, <2>2 DEF Inventory!Claim, Inventory!confirms, Rivals
  <2> QED BY <1>5, <2>1, <2>3 DEF BookingServes
<1>6. ASSUME CreateHold(i), UNCHANGED <<booking, deadlines, flawed>>,
             Respond(i, "hold", "ERROR")
      PROVE  ServiceRefuses(i, "hold")
  <2>1. Executed(i, "hold") /\ UNCHANGED <<pc, payment, outcome, events, cancelVars>>
    BY <1>6 DEF CreateHold
  <2>2. KeepDeadlines
    BY <1>6, <2>1, NothingForgotten DEF Executed, deadlines
  <2>3. CallFails(i, "hold")
    BY <1>6, <2>1, <2>2 DEF CallFails, ConfirmUpdate
  <2> QED BY <1>1, <2>3, RefusalIsFailure DEF SagaCall
<1>7. ASSUME Executed(i, "hold"), Inventory!Claim(i), Respond(i, "hold", "OK"),
             UNCHANGED <<pc, payment, outcome, events, cancelVars>>
      PROVE  CreateHold(i)
  BY <1>3, <1>4, <1>7 DEF Inventory!Claim, CreateHold, SetBooking
<1> QED BY <1>5, <1>6, <1>7 DEF CreateHold, SetBooking

\* Its finds, acceptances, confirms and expiries are confirmBooking's.
LEMMA ConfirmView ==
    ASSUME ViewInv, NEW i \in Sagas
    PROVE  /\ ConfirmReads(i) \/ ConfirmAccepts(i) \/ ConfirmWrites(i) => BookingServes(i)
           /\ ConfirmRefused(i) => ServiceRefuses(i, "confirm")
           /\ /\ \/ Passes(i, "confirm", "found") /\ Inventory!Find(i) /\ UNCHANGED answer
                 \/ /\ Passes(i, "found", "accepted") /\ Inventory!Accept(i)
                    /\ UNCHANGED answer
                 \/ /\ Executed(i, "accepted") /\ Inventory!Confirm(i)
                    /\ Respond(i, "confirm", "OK")
                 \/ /\ Executed(i, "found") /\ Inventory!Expire(i)
                    /\ Respond(i, "confirm", "ERROR")
              /\ UNCHANGED <<pc, payment, outcome, events, cancelVars>>
              => ConfirmReads(i) \/ ConfirmAccepts(i) \/ ConfirmWrites(i)
<1>1. TypeOK /\ i \in Actors
  BY DEF ViewInv, RowsInv, SagaInv, Actors
<1>2. KeepDeadlines <=> Inventory!KeepDeadlines
  BY <1>1, SameDeadlines
<1>3. Inventory!Blocks(i) <=> Blocks(i)
  BY DEF Inventory!Blocks, Blocks
<1> USE DEF Rivals, serviceVars, deadlines, Inventory!deadlines, Inventory!confirms,
        SetBooking
<1>4. ASSUME ConfirmReads(i) PROVE BookingServes(i)
  <2>1. Passes(i, "confirm", "found")
    BY <1>4 DEF ConfirmReads, Passes
  <2>2. /\ Waiting("found")' = Waiting("found") \cup {i}
        /\ Waiting("accepted")' = Waiting("accepted")
    BY <2>1, WaitingPassed
  <2> QED BY <1>4, <2>1, <2>2 DEF ConfirmReads, BookingServes, Inventory!Find
<1>5. ASSUME ConfirmAccepts(i) PROVE BookingServes(i)
  <2>1. Passes(i, "found", "accepted") /\ i \in Waiting("found")
    BY <1>5 DEF ConfirmAccepts, Passes, Waiting
  <2>2. /\ Waiting("found")' = Waiting("found") \ {i}
        /\ Waiting("accepted")' = Waiting("accepted") \cup {i}
    BY <2>1, WaitingPassed
  <2> QED BY <1>2, <1>5, <2>1, <2>2 DEF ConfirmAccepts, BookingServes, Inventory!Accept
<1>6. ASSUME ConfirmWrites(i) PROVE BookingServes(i)
  <2>1. CASE Executed(i, "accepted") /\ booking' = [booking EXCEPT ![i] = "CONFIRMED"]
             /\ Respond(i, "confirm", "OK")
             /\ flawed' = IF Blocks(i) THEN flawed ELSE flawed \cup {i}
    <3>1. /\ i \in Waiting("accepted") /\ Waiting("found")' = Waiting("found")
          /\ Waiting("accepted")' = Waiting("accepted") \ {i}
      BY <2>1, WaitingTaken DEF Executed, Waiting
    <3> QED BY <1>2, <1>3, <1>6, <2>1, <3>1
            DEF ConfirmWrites, BookingServes, Inventory!Confirm
  <2>2. CASE Executed(i, "found") /\ i \in overdue
             /\ booking' = [booking EXCEPT ![i] = "EXPIRED"]
             /\ Respond(i, "confirm", "ERROR") /\ flawed' = flawed
    <3>1. /\ i \in Waiting("found") /\ Waiting("accepted")' = Waiting("accepted")
          /\ Waiting("found")' = Waiting("found") \ {i}
      BY <2>2, WaitingTaken DEF Executed, Waiting
    <3> QED BY <1>2, <1>6, <2>2, <3>1 DEF ConfirmWrites, BookingServes, Inventory!Expire
  <2> QED BY <1>6, <2>1, <2>2 DEF ConfirmWrites
<1>7. ASSUME ConfirmRefused(i) PROVE ServiceRefuses(i, "confirm")
  <2>1. /\ Executed(i, "confirm") /\ Respond(i, "confirm", "ERROR")
        /\ UNCHANGED <<pc, booking, deadlines, flawed, payment, outcome, events, cancelVars>>
    BY <1>7 DEF ConfirmRefused
  <2>2. KeepDeadlines
    BY <2>1, NothingForgotten DEF Executed
  <2>3. CallFails(i, "confirm")
    BY <2>1, <2>2 DEF CallFails, ConfirmUpdate
  <2> QED BY <1>1, <2>3, RefusalIsFailure DEF SagaCall
<1>8. ASSUME UNCHANGED <<pc, payment, outcome, events, cancelVars>>,
             \/ Passes(i, "confirm", "found") /\ Inventory!Find(i) /\ UNCHANGED answer
             \/ /\ Passes(i, "found", "accepted") /\ Inventory!Accept(i)
                /\ UNCHANGED answer
             \/ /\ Executed(i, "accepted") /\ Inventory!Confirm(i)
                /\ Respond(i, "confirm", "OK")
             \/ /\ Executed(i, "found") /\ Inventory!Expire(i)
                /\ Respond(i, "confirm", "ERROR")
      PROVE  ConfirmReads(i) \/ ConfirmAccepts(i) \/ ConfirmWrites(i)
  <2>1. CASE Passes(i, "confirm", "found") /\ Inventory!Find(i) /\ UNCHANGED answer
    BY <1>8, <2>1 DEF Passes, Inventory!Find, ConfirmReads
  <2>2. CASE Passes(i, "found", "accepted") /\ Inventory!Accept(i) /\ UNCHANGED answer
    BY <1>2, <1>8, <2>2 DEF Passes, Inventory!Accept, ConfirmAccepts
  <2>3. CASE Executed(i, "accepted") /\ Inventory!Confirm(i) /\ Respond(i, "confirm", "OK")
    BY <1>2, <1>3, <1>8, <2>3 DEF Inventory!Confirm, ConfirmWrites
  <2>4. CASE Executed(i, "found") /\ Inventory!Expire(i) /\ Respond(i, "confirm", "ERROR")
    BY <1>2, <1>8, <2>4 DEF Inventory!Expire, ConfirmWrites
  <2> QED BY <1>8, <2>1, <2>2, <2>3, <2>4
<1> QED BY <1>4, <1>5, <1>6, <1>7, <1>8

\* Its releases are releaseBooking's, for a saga and for a cancellation.
LEMMA ReleaseView ==
    ASSUME ViewInv, NEW i \in Sagas, NEW a \in Actors,
           NEW r \in {"release", "compensate", "cancel"}, NEW st \in {"FAILED", "CANCELLED"},
           Executed(a, r), booking[i] # "ABSENT"
    PROVE  /\ SetBooking(i, st) /\ KeepDeadlines /\ UNCHANGED flawed
              => Inventory!Release(i) /\ booking'[i] = st
           /\ Inventory!Release(i) /\ booking'[i] = st
              => SetBooking(i, st) /\ KeepDeadlines /\ UNCHANGED flawed
<1>1. TypeOK
  BY DEF ViewInv, RowsInv, SagaInv
<1>2. Waiting("found")' = Waiting("found") /\ Waiting("accepted")' = Waiting("accepted")
  BY WaitingTaken
<1>3. KeepDeadlines <=> Inventory!KeepDeadlines
  BY <1>1, SameDeadlines
<1> QED BY <1>1, <1>2, <1>3
        DEF SetBooking, Inventory!Release, Inventory!Present, Inventory!confirms, Rivals,
            TypeOK

\* A row that a call is to release is there.
LEMMA ReleasedIsThere ==
    ASSUME ViewInv
    PROVE  /\ \A i \in Sagas, r \in {"release", "compensate"} :
                 Executed(i, r) => booking[i] # "ABSENT"
           /\ \A x \in Cancels :
                 Executed(x, "cancel") => booking[cancelOf[x]] # "ABSENT"
<1>1. ASSUME NEW i \in Sagas, NEW r \in {"release", "compensate"}, Executed(i, r)
      PROVE  booking[i] # "ABSENT"
  BY <1>1 DEF ViewInv, RowsInv, RowInv, Executed, Sent, SagaCall
<1>2. ASSUME NEW x \in Cancels, Executed(x, "cancel")
      PROVE  booking[cancelOf[x]] # "ABSENT"
  <2>1. cancelOf[x] \in Sagas /\ CancelInv(x) /\ RowInv(cancelOf[x])
    BY DEF ViewInv, RowsInv, SagaInv, TypeOK
  <2> QED BY <1>2, <2>1 DEF Executed, Sent, CancelInv, CancelCall, RowInv
<1> QED BY <1>1, <1>2

\* The ledger's charges and refunds are charge's and refund's.
LEMMA PaymentView ==
    ASSUME ViewInv, NEW a \in Actors
    PROVE  /\ a \in Sagas => (Charge(a) <=> PaymentServes(a))
           /\ a \in Cancels =>
                 /\ Refund(a) => PaymentRefunds(a) \/ ServiceRefuses(a, "refund")
                 /\ PaymentRefunds(a) => Refund(a)
<1>1. TypeOK
  BY DEF ViewInv, RowsInv, SagaInv
<1>2. ASSUME a \in Sagas PROVE Charge(a) <=> PaymentServes(a)
  <2>1. Executed(a, "charge") => payment[a] = "ABSENT"
    BY <1>2 DEF ViewInv, RowsInv, SagaInv, PaidInv, Executed, Sent
  <2>2. ASSUME NEW st, payment' = [payment EXCEPT ![a] = st] PROVE payment'[a] = st
    BY <1>1, <1>2, <2>2 DEF TypeOK
  <2>3. ASSUME Executed(a, "charge")
        PROVE  Ledger!Charge(a) <=>
                  \E st \in {"SUCCEEDED", "FAILED"} : payment' = [payment EXCEPT ![a] = st]
    BY <1>2, <2>1, <2>3 DEF Ledger!Charge
  <2> QED BY <1>2, <2>2, <2>3 DEF Charge, PaymentServes
<1>3. ASSUME a \in Cancels, PaymentRefunds(a) PROVE Refund(a)
  BY <1>3 DEF PaymentRefunds, Ledger!Refund, Refund
<1>4. ASSUME a \in Cancels, Refund(a) PROVE PaymentRefunds(a) \/ ServiceRefuses(a, "refund")
  <2>1. CASE payment[cancelOf[a]] = "SUCCEEDED"
    BY <1>4, <2>1 DEF PaymentRefunds, Ledger!Refund, Refund
  <2>2. CASE payment[cancelOf[a]] # "SUCCEEDED"
    <3>1. /\ Executed(a, "refund") /\ Respond(a, "refund", "ERROR") /\ UNCHANGED payment
          /\ UNCHANGED <<pc, booking, deadlines, flawed, outcome, events, cancelVars>>
      BY <1>4, <2>2 DEF Refund
    <3>2. KeepDeadlines
      BY <3>1, NothingForgotten DEF Executed, deadlines
    <3>3. CallFails(a, "refund")
      BY <3>1, <3>2 DEF CallFails, ConfirmUpdate
    <3> QED BY <3>3, RefusalIsFailure DEF CancelCall
  <2> QED BY <2>1, <2>2
<1> QED BY <1>2, <1>3, <1>4

LEMMA ServiceView ==
    ASSUME ViewInv, NEW a \in Actors
    PROVE  ServiceStep(a) <=> Served(a)
<1> USE OrchestratorAssumption
<1>1. ASSUME a \in Sagas, Release(a) PROVE BookingServes(a)
  <2>1. PICK r \in {"release", "compensate"} :
           Executed(a, r) /\ SetBooking(a, "FAILED") /\ Respond(a, r, "OK")
    BY <1>1 DEF Release
  <2>2. Inventory!Release(a) /\ booking'[a] = "FAILED"
    BY <1>1, <2>1, ReleaseView, ReleasedIsThere DEF Release
  <2> QED BY <1>1, <2>1, <2>2 DEF Release, BookingServes
<1>2. ASSUME a \in Sagas, NEW r \in {"release", "compensate"}, Executed(a, r),
             Inventory!Release(a), booking'[a] = "FAILED", Respond(a, r, "OK"),
             UNCHANGED <<pc, payment, outcome, events, cancelVars>>
      PROVE  Release(a)
  BY <1>2, ReleaseView, ReleasedIsThere DEF Release
<1>3. ASSUME a \in Cancels PROVE ReleaseCancelled(a) <=> BookingCancels(a)
  <2>1. cancelOf[a] \in Sagas
    BY <1>3 DEF ViewInv, RowsInv, SagaInv, TypeOK
  <2> QED BY <1>3, <2>1, ReleaseView, ReleasedIsThere DEF ReleaseCancelled, BookingCancels
<1>4. ASSUME ServiceStep(a) PROVE Served(a)
  <2>1. CASE a \in Sagas /\ (CreateHold(a) \/ ConfirmRefused(a))
    BY <2>1, HoldView, ConfirmView DEF Served, SagaCall
  <2>2. CASE a \in Sagas /\ (ConfirmReads(a) \/ ConfirmAccepts(a) \/ ConfirmWrites(a)
                              \/ Release(a) \/ Charge(a))
    BY <1>1, <2>2, ConfirmView, PaymentView DEF Served
  <2>3. CASE a \in Cancels /\ (ReleaseCancelled(a) \/ Refund(a))
    BY <1>3, <2>3, PaymentView DEF Served, CancelCall
  <2>4. ASSUME NEW r \in SagaCall \cup CancelCall \cup ConfirmUpdate, CallFails(a, r)
        PROVE  Served(a)
    BY <2>4, RefusalIsFailure DEF Served
  <2> QED BY <1>4, <2>1, <2>2, <2>3, <2>4 DEF ServiceStep
<1>5. ASSUME Served(a) PROVE ServiceStep(a)
  <2>1. CASE a \in Sagas /\ BookingServes(a)
    BY <1>2, <2>1, HoldView, ConfirmView DEF BookingServes, ServiceStep
  <2>2. CASE a \in Sagas /\ PaymentServes(a)
    BY <2>2, PaymentView DEF ServiceStep
  <2>3. CASE a \in Cancels /\ (BookingCancels(a) \/ PaymentRefunds(a))
    BY <1>3, <2>3, PaymentView DEF ServiceStep
  <2>4. ASSUME NEW r \in SagaCall \cup CancelCall \cup ConfirmUpdate, ServiceRefuses(a, r)
        PROVE  ServiceStep(a)
    BY <2>4, RefusalIsFailure DEF ServiceStep
  <2> QED BY <1>5, <2>1, <2>2, <2>3, <2>4 DEF Served
<1> QED BY <1>4, <1>5

LEMMA TimeView == ViewInv => (HoldsAge <=> DeadlinesPass)
<1> SUFFICES ASSUME ViewInv PROVE HoldsAge <=> DeadlinesPass
  OBVIOUS
<1>1. {i \in Sagas : Timed(i)} = {i \in Sagas : Inventory!Timed(i)}
  BY SameDeadlines DEF ViewInv, RowsInv, SagaInv
<1>2. Inventory!Age({i \in Sagas : Inventory!Timed(i)}) <=> Age({i \in Sagas : Timed(i)})
  BY <1>1 DEF Inventory!Age, Age
<1>3. UNCHANGED pending => UNCHANGED Inventory!confirms
  BY DEF Inventory!confirms, Waiting
<1> QED BY <1>2, <1>3 DEF HoldsAge, DeadlinesPass, Inventory!Lapse, Rivals

LEMMA ViewStep == ViewInv => ([Next]_vars <=> [ContractNext]_vars)
BY ServiceView, TimeView DEF Next, ContractNext, OwnStep, Finished

\* The sagas' view of their services is exact: executing every pending call as the
\* contracts SeatInventory and PaymentLedger allow, or refusing it, gives the behaviours
\* of BookingOrchestrator, no more and no fewer.
THEOREM ViewExact == Spec <=> ContractSpec
<1>1. ViewInv /\ [Next]_vars => [ContractNext]_vars
  BY ViewStep
<1>2. ViewInv /\ [ContractNext]_vars => [Next]_vars /\ ViewInv'
  BY ViewStep, ViewInvStep
<1>3. Spec => ContractSpec
  BY <1>1, ViewInvCorrect, PTL DEF Spec, ContractSpec
<1>4. ContractSpec => Spec
  BY <1>2, ViewInvInit, PTL DEF Spec, ContractSpec
<1> QED BY <1>3, <1>4

----------------------------------------------------------------------------
(* Every step is one of the inventory's and of the ledger's, or stutters.  *)

LEMMA OwnStepUnseen ==
    ASSUME TypeOK, OwnStep
    PROVE  UNCHANGED <<booking, lapsed, overdue, payment, flawed, Waiting("found"),
                       Waiting("accepted")>>
<1>1. UNCHANGED <<booking, lapsed, overdue, payment, flawed>>
  BY DEF OwnStep, TimesOut, Crash, Start, SagaStep, Cancel, CancelStep, HoldAnswered,
     ChargeAnswered, ConfirmAnswered, ReleaseAnswered, CompensateAnswered,
     PublishConfirmed, PublishFailed, RefundAnswered, CancelAnswered, PublishCancelled,
     serviceVars, deadlines
<1>2. ASSUME NEW a \in Actors, NEW r \in SagaCall \cup CancelCall, Call(a, r)
      PROVE  UNCHANGED <<Waiting("found"), Waiting("accepted")>>
  BY <1>2 DEF Call, Waiting, SagaCall, CancelCall
<1>3. UNCHANGED <<Waiting("found"), Waiting("accepted")>>
  <2>1. CASE UNCHANGED pending
    BY <2>1 DEF Waiting
  <2>2. CASE \E a \in Actors, r \in SagaCall \cup CancelCall : Call(a, r)
    BY <1>2, <2>2
  <2> QED BY <2>1, <2>2
          DEF OwnStep, TimesOut, Crash, Start, SagaStep, Cancel, CancelStep, HoldAnswered,
              ChargeAnswered, ConfirmAnswered, ReleaseAnswered, CompensateAnswered,
              PublishConfirmed, PublishFailed, RefundAnswered, CancelAnswered,
              PublishCancelled, Publish, Finish, SagaCall, CancelCall, Actors
<1> QED BY <1>1, <1>3

LEMMA PaymentUnseen ==
    ASSUME NEW a, PaymentServes(a) \/ PaymentRefunds(a)
    PROVE  UNCHANGED Inventory!vars
<1>1. Waiting("found")' = Waiting("found") /\ Waiting("accepted")' = Waiting("accepted")
  BY DEF PaymentServes, PaymentRefunds, Executed, Waiting
<1> QED BY <1>1 DEF PaymentServes, PaymentRefunds, deadlines, Inventory!vars,
        Inventory!deadlines, Inventory!confirms, Rivals

LEMMA InventoryStep == ViewInv /\ [Next]_vars => [Inventory!Next]_(Inventory!vars)
<1> DEFINE Goal == [Inventory!Next]_(Inventory!vars)
<1> SUFFICES ASSUME ViewInv, [ContractNext]_vars PROVE Goal
  BY ViewStep
<1>1. TypeOK
  BY DEF ViewInv, RowsInv, SagaInv
<1>2. ASSUME NEW a \in Actors, Served(a) PROVE Goal
  <2>1. CASE a \in Sagas /\ BookingServes(a)
    BY <2>1 DEF BookingServes, Inventory!Next
  <2>2. CASE a \in Cancels /\ BookingCancels(a)
    <3>1. cancelOf[a] \in Sagas
      BY <1>1, <2>2 DEF TypeOK
    <3> QED BY <2>2, <3>1 DEF BookingCancels, Inventory!Next
  <2>3. CASE PaymentServes(a) \/ PaymentRefunds(a)
    BY <2>3, PaymentUnseen
  <2>4. CASE \E r \in SagaCall \cup CancelCall \cup ConfirmUpdate : ServiceRefuses(a, r)
    BY <2>4 DEF ServiceRefuses, Inventory!Next
  <2> QED BY <1>2, <2>1, <2>2, <2>3, <2>4 DEF Served
<1>3. CASE OwnStep
  BY <1>1, <1>3, OwnStepUnseen
     DEF Inventory!vars, Inventory!deadlines, Inventory!confirms, Rivals
<1>4. CASE DeadlinesPass
  BY <1>4 DEF DeadlinesPass, Inventory!Next
<1>5. CASE UNCHANGED vars
  BY <1>5 DEF vars, deadlines, Inventory!vars, Inventory!deadlines, Inventory!confirms,
     Rivals, Waiting
<1> QED BY <1>2, <1>3, <1>4, <1>5 DEF ContractNext

LEMMA InventoryInit == Init => Inventory!Init
BY DEF Init, Inventory!Init, Rivals, Waiting

\* The sagas use the booking service as SeatInventory allows: a row is claimed once,
\* and only a claimed row is confirmed, released or expired, however late the call.
THEOREM InventoryImplemented == Spec => ImplementsInventory
BY InventoryInit, ViewInvCorrect, InventoryStep, PTL
   DEF Spec, ImplementsInventory, Inventory!Spec

LEMMA LedgerStep == ViewInv /\ [Next]_vars => [Ledger!Next]_(Ledger!vars)
<1> DEFINE Goal == [Ledger!Next]_(Ledger!vars)
<1> SUFFICES ASSUME ViewInv, [ContractNext]_vars PROVE Goal
  BY ViewStep
<1>1. TypeOK
  BY DEF ViewInv, RowsInv, SagaInv
<1>2. ASSUME UNCHANGED payment PROVE Goal
  BY <1>2 DEF Ledger!vars
<1>3. ASSUME NEW a \in Actors, Served(a) PROVE Goal
  <2>1. CASE \/ a \in Sagas /\ BookingServes(a)
             \/ a \in Cancels /\ BookingCancels(a)
             \/ \E r \in SagaCall \cup CancelCall \cup ConfirmUpdate : ServiceRefuses(a, r)
    BY <1>2, <2>1 DEF BookingServes, BookingCancels, ServiceRefuses
  <2>2. CASE a \in Sagas /\ PaymentServes(a)
    BY <2>2 DEF PaymentServes, Ledger!Next
  <2>3. CASE a \in Cancels /\ PaymentRefunds(a)
    <3>1. cancelOf[a] \in Sagas
      BY <1>1, <2>3 DEF TypeOK
    <3> QED BY <2>3, <3>1 DEF PaymentRefunds, Ledger!Next
  <2> QED BY <1>3, <2>1, <2>2, <2>3 DEF Served
<1>4. CASE OwnStep
  BY <1>1, <1>2, <1>4, OwnStepUnseen
<1>5. CASE DeadlinesPass \/ UNCHANGED vars
  BY <1>2, <1>5 DEF DeadlinesPass, vars
<1> QED BY <1>3, <1>4, <1>5 DEF ContractNext

\* They use the payment service as PaymentLedger allows: one charge under a saga's
\* key, and a refund of nothing but a payment that succeeded.
THEOREM LedgerImplemented == Spec => ImplementsLedger
<1>1. Init => Ledger!Init
  BY DEF Init, Ledger!Init
<1> QED BY <1>1, ViewInvCorrect, LedgerStep, PTL
        DEF Spec, ImplementsLedger, Ledger!Spec

----------------------------------------------------------------------------
(* What the inventory guarantees to everyone, it guarantees to the sagas.  *)

InventoryProofs == INSTANCE SeatInventoryProofs
                   WITH Rows <- Sagas, status <- booking, clash <- Rivals,
                        seen <- Waiting("found"), accepted <- Waiting("accepted")

LEMMA RivalsExclusive == Spec => [](InventoryProofs!Exclusive)
<1>1. Init => InventoryProofs!Init
  BY InventoryInit DEF InventoryProofs!Init, Inventory!Init
<1>2. ViewInv /\ [Next]_vars => [InventoryProofs!Next]_(InventoryProofs!vars)
  BY InventoryStep
     DEF Inventory!Next, Inventory!Claim, Inventory!Find, Inventory!Accept,
         Inventory!Confirm, Inventory!Expire, Inventory!Release, Inventory!Forget,
         Inventory!Lapse, Inventory!Present, Inventory!Blockers, Inventory!Blocks,
         Inventory!Timed, Inventory!Age, Inventory!KeepDeadlines, Inventory!deadlines,
         Inventory!confirms, Inventory!vars, InventoryProofs!Next,
         InventoryProofs!Claim, InventoryProofs!Find, InventoryProofs!Accept,
         InventoryProofs!Confirm, InventoryProofs!Expire, InventoryProofs!Release,
         InventoryProofs!Forget, InventoryProofs!Lapse, InventoryProofs!Present,
         InventoryProofs!Blockers, InventoryProofs!Blocks, InventoryProofs!Timed,
         InventoryProofs!Age, InventoryProofs!KeepDeadlines,
         InventoryProofs!deadlines, InventoryProofs!confirms, InventoryProofs!vars
<1>3. Spec => InventoryProofs!Spec
  BY <1>1, <1>2, ViewInvCorrect, PTL DEF Spec, InventoryProofs!Spec
<1> QED BY <1>3, InventoryProofs!InventoryExclusive, PTL

\* Two passengers who were told "confirmed and paid" and did not cancel do not share
\* the seat, but for a hold or a confirm made without a sound check.
THEOREM WinnersExclusive == Spec => []OneWinner
<1>1. SagaInv /\ InventoryProofs!Exclusive => OneWinner
  BY SagaInvSuffices DEF OneWinner, SuccessBacked, InventoryProofs!Exclusive,
     InventoryProofs!Blocks, Rivals
<1> QED BY <1>1, SagaInvCorrect, RivalsExclusive, PTL

----------------------------------------------------------------------------
(* A seat that was given up.  SeatNotKeptUnpaid needs deadlines that pass;  *)
(* that nothing brings an unpaid hold back to life does not.                *)

KeptUnpaid(i) == Blocks(i) /\ ~(booking[i] = "CONFIRMED" /\ payment[i] # "FAILED")

\* By the inventory's rules a hold is PENDING only once, and its age does not shrink.
LEMMA HoldsGrowOld ==
    ASSUME TypeOK, [Inventory!Next]_(Inventory!vars), NEW i \in Sagas,
           booking[i] # "ABSENT", booking'[i] = "PENDING"
    PROVE  booking[i] = "PENDING" /\ (i \in lapsed => i \in lapsed')
<1> DEFINE Goal == booking[i] = "PENDING" /\ (i \in lapsed => i \in lapsed')
<1> USE DEF TypeOK
<1>1. ASSUME NEW b \in Sagas, Inventory!Claim(b) PROVE Goal
  BY <1>1 DEF Inventory!Claim, Inventory!Present, Inventory!Age
<1>2. ASSUME NEW b \in Sagas, Inventory!Find(b) PROVE Goal
  BY <1>2 DEF Inventory!Find, Inventory!deadlines
<1>3. CASE Inventory!Forget \/ \E b \in Sagas : Inventory!Accept(b)
  BY <1>3 DEF Inventory!Forget, Inventory!Accept, Inventory!KeepDeadlines, Inventory!Timed
<1>4. ASSUME NEW b \in Sagas,
             Inventory!Confirm(b) \/ Inventory!Expire(b) \/ Inventory!Release(b)
      PROVE  Goal
  BY <1>4 DEF Inventory!Confirm, Inventory!Expire, Inventory!Release,
     Inventory!KeepDeadlines, Inventory!Timed
<1>5. CASE Inventory!Lapse
  BY <1>5 DEF Inventory!Lapse, Inventory!Age
<1>6. CASE UNCHANGED Inventory!vars
  BY <1>6 DEF Inventory!vars, Inventory!deadlines
<1> QED BY <1>1, <1>2, <1>3, <1>4, <1>5, <1>6 DEF Inventory!Next

\* A seat that a saga no longer keeps without a paid booking, it never keeps again in
\* this way: whatever call arrives late, a row that was released or whose hold ran out
\* blocks the seat only once it is confirmed and its payment was taken.
THEOREM SeatNotKeptAgain ==
    Spec => [][\A i \in Sagas :
                  booking[i] # "ABSENT" /\ ~KeptUnpaid(i) => ~KeptUnpaid(i)']_vars
<1>1. ASSUME ViewInv, ConfirmedIsPaid', [Next]_vars, NEW i \in Sagas,
             booking[i] # "ABSENT", ~KeptUnpaid(i)
      PROVE  ~KeptUnpaid(i)'
  <2>1. TypeOK
    BY <1>1 DEF ViewInv, RowsInv, SagaInv
  <2>2. [Inventory!Next]_(Inventory!vars)
    BY <1>1, InventoryStep
  <2>3. CASE booking'[i] = "PENDING"
    <3>1. booking[i] = "PENDING" /\ (i \in lapsed => i \in lapsed')
      BY <1>1, <2>1, <2>2, <2>3, HoldsGrowOld
    <3> QED BY <1>1, <2>3, <3>1 DEF KeptUnpaid, Blocks
  <2>4. CASE booking'[i] # "PENDING"
    BY <1>1, <2>4 DEF KeptUnpaid, Blocks, ConfirmedIsPaid
  <2> QED BY <2>3, <2>4
<1>2. ViewInv /\ ConfirmedIsPaid' /\ [Next]_vars =>
          [\A i \in Sagas : booking[i] # "ABSENT" /\ ~KeptUnpaid(i) => ~KeptUnpaid(i)']_vars
  BY <1>1
<1> QED BY <1>2, ViewInvCorrect, ConfirmedPaid, PTL DEF Spec

----------------------------------------------------------------------------
(* Sagas whose charge and confirm are answered.                            *)

\* No saga dies, and each hears of its charge whether it was taken and of its confirm
\* that it was done.
Reliable ==
    \A i \in Sagas :
        /\ pc[i] \in {"charge", "confirm"} => answer[i] # "ERROR"
        /\ pc[i] = "over" => outcome[i] # "NONE"

\* Where a saga can be whose payment was taken.
PaidFor(i) ==
    \/ pc[i] \in {"charge", "confirm", "publishConfirmed"}
    \/ pc[i] = "over" /\ NoneSent(i) /\ (booking[i] = "CONFIRMED" \/ CancelSent(i))

PaidConfirmed(i) ==
    /\ Sent(i, "charge") => pc[i] = "charge"
    /\ payment[i] = "SUCCEEDED" => PaidFor(i)

\* Steps that do not move saga i, and do not disturb a saga that is over.
LEMMA PaidKept ==
    ASSUME NEW i \in Sagas, PaidConfirmed(i), pc'[i] = pc[i],
           payment'[i] \in {payment[i], "REFUNDED"},
           CancelSent(i) => CancelSent(i)',
           \A r : Sent(i, r)' => Sent(i, r) \/ (r # "charge" /\ ~NoneSent(i)),
           booking'[i] = booking[i] \/ ~NoneSent(i) \/ CancelSent(i)'
    PROVE  PaidConfirmed(i)'
BY DEF PaidConfirmed, PaidFor, NoneSent, SagaCall, ConfirmUpdate

LEMMA CancelsStaySent ==
    TypeOK /\ [Next]_vars => \A i \in Sagas : CancelSent(i) => CancelSent(i)'
<1> SUFFICES ASSUME TypeOK, [Next]_vars, NEW x \in Cancels, pc[x] # "idle"
             PROVE  pc'[x] # "idle" /\ cancelOf'[x] = cancelOf[x]
  BY DEF CancelSent
<1>1. pc'[x] # "idle"
  <2>1. Moves(x) /\ pc[x] \in SagaCall \cup CancelCall \cup Publishing \cup {"idle", "over"}
    BY RequestsMove DEF Actors, TypeOK
  <2>2. Rank[pc[x]] >= Rank["idle"]
    BY <2>1 DEF SagaCall, CancelCall, Publishing, Rank
  <2> QED BY <2>1, <2>2 DEF Moves, SagaCall, CancelCall, Publishing, Rank
<1>2. UNCHANGED cancelOf
  BY DEF Next, ServiceStep, SagaStep, CancelStep, CreateHold, Charge, ConfirmReads,
     ConfirmRefused, ConfirmAccepts, ConfirmWrites, Release, ReleaseCancelled, Refund,
     CallFails, TimesOut, Crash, Start, HoldAnswered, ChargeAnswered, ConfirmAnswered,
     ReleaseAnswered, CompensateAnswered, PublishConfirmed, PublishFailed, Cancel,
     RefundAnswered, CancelAnswered, PublishCancelled, HoldsAge, Finished, cancelVars, vars
<1> QED BY <1>1, <1>2

\* The services' steps.
LEMMA PaidServiceStep ==
    ASSUME SagaInv, [Next]_vars, NEW a \in Actors, ServiceStep(a) \/ TimesOut(a),
           NEW i \in Sagas, PaidConfirmed(i)
    PROVE  PaidConfirmed(i)'
<1> USE OrchestratorAssumption DEF Actors, SagaCall, ConfirmUpdate
<1>1. TypeOK /\ (CancelSent(i) => CancelSent(i)')
  BY CancelsStaySent DEF SagaInv
<1>2. CASE a \in Sagas /\ Charge(a)
  <2>1. /\ pc' = pc /\ booking' = booking
        /\ Sent(a, "charge") /\ \A b, r : Sent(b, r)' => Sent(b, r)
        /\ a # i => payment'[i] = payment[i]
    BY <1>1, <1>2, SentByExecuted DEF Charge, TakenUp, TypeOK
  <2>2. CASE a = i
    BY <2>1, <2>2 DEF PaidConfirmed, PaidFor
  <2> QED BY <1>1, <2>1, <2>2, PaidKept
<1>3. CASE a \in Sagas /\ ConfirmReads(a)
  <2>1. /\ UNCHANGED <<pc, booking, payment>>
        /\ Sent(a, "confirm")
        /\ \A b, r : Sent(b, r)' => Sent(b, r) \/ (b = a /\ r = "found")
    BY <1>3 DEF ConfirmReads, Sent, serviceVars
  <2> QED BY <1>1, <2>1, PaidKept DEF NoneSent
<1>4. CASE a \in Sagas /\ ConfirmAccepts(a)
  <2>1. /\ UNCHANGED <<pc, booking, payment>>
        /\ Sent(a, "found")
        /\ \A b, r : Sent(b, r)' => Sent(b, r) \/ (b = a /\ r = "accepted")
    BY <1>4 DEF ConfirmAccepts, Sent
  <2> QED BY <1>1, <2>1, PaidKept DEF NoneSent
<1>5. CASE /\ a \in Sagas
           /\ CreateHold(a) \/ ConfirmRefused(a) \/ ConfirmWrites(a) \/ Release(a)
  <2>1. /\ UNCHANGED <<pc, payment>>
        /\ \E r \in SagaCall \cup ConfirmUpdate : Executed(a, r)
        /\ a # i => booking'[i] = booking[i]
    BY <1>1, <1>5 DEF CreateHold, ConfirmRefused, ConfirmWrites, Release, SetBooking,
       TypeOK, serviceVars
  <2>2. /\ \A b, r : Sent(b, r)' => Sent(b, r)
        /\ ~NoneSent(a)
    BY <2>1, SentByExecuted DEF TakenUp, NoneSent
  <2> QED BY <1>1, <2>1, <2>2, PaidKept
<1>6. CASE a \in Cancels /\ (ReleaseCancelled(a) \/ Refund(a))
  <2>1. /\ UNCHANGED pc
        /\ cancelOf[a] \in Sagas
        /\ payment'[i] \in {payment[i], "REFUNDED"}
        /\ booking'[i] = booking[i] \/ (cancelOf[a] = i /\ Executed(a, "cancel"))
        /\ \E r \in CancelCall : Executed(a, r)
    BY <1>1, <1>6 DEF ReleaseCancelled, Refund, SetBooking, CancelCall, TypeOK
  <2>2. /\ \A b, r : Sent(b, r)' => Sent(b, r)
        /\ \E r \in CancelCall : Sent(a, r)
    BY <2>1, SentByExecuted DEF TakenUp
  <2>3. pc[a] # "idle"
    BY <1>6, <2>2 DEF SagaInv, CancelInv
  <2> QED BY <1>1, <1>6, <2>1, <2>2, <2>3, PaidKept DEF CancelSent
<1>7. ASSUME NEW r \in SagaCall \cup CancelCall \cup ConfirmUpdate, CallFails(a, r)
      PROVE  PaidConfirmed(i)'
  <2>1. /\ UNCHANGED <<pc, booking, payment>>
        /\ \A b, s : Sent(b, s)' => Sent(b, s)
    BY <1>7, SentByExecuted DEF CallFails, TakenUp
  <2> QED BY <1>1, <2>1, PaidKept
<1>8. CASE TimesOut(a)
  <2>1. UNCHANGED <<pc, booking, payment>> /\ \A b, s : Sent(b, s)' => Sent(b, s)
    BY <1>8, SentUnchanged DEF TimesOut, serviceVars
  <2> QED BY <1>1, <2>1, PaidKept
<1> QED BY <1>2, <1>3, <1>4, <1>5, <1>6, <1>7, <1>8 DEF ServiceStep

\* The saga's own steps.
LEMMA PaidSagaStep ==
    ASSUME SagaInv, Reliable, [Next]_vars, NEW j \in Sagas, Start(j) \/ SagaStep(j),
           NEW i \in Sagas, PaidConfirmed(i)
    PROVE  PaidConfirmed(i)'
<1> USE OrchestratorAssumption DEF Actors, SagaCall, ConfirmUpdate
<1>1. /\ TypeOK /\ (CancelSent(i) => CancelSent(i)')
      /\ SentInv(i) /\ PaidInv(i) /\ SettledInv(i)
  BY CancelsStaySent DEF SagaInv
<1>2. UNCHANGED <<booking, payment>>
  BY DEF Start, SagaStep, HoldAnswered, ChargeAnswered, ConfirmAnswered, ReleaseAnswered,
     CompensateAnswered, PublishConfirmed, PublishFailed, serviceVars
<1>3. CASE i # j
  <2>1. pc'[i] = pc[i] /\ \A r : Sent(i, r)' => Sent(i, r)
    BY <1>1, <1>3 DEF Start, SagaStep, HoldAnswered, ChargeAnswered, ConfirmAnswered,
       ReleaseAnswered, CompensateAnswered, PublishConfirmed, PublishFailed, Call, Publish,
       Finish, Sent, TypeOK
  <2> QED BY <1>1, <1>2, <2>1, PaidKept
\* A call, a publication and an end, of saga i.
<1>4. ASSUME NEW r, Call(i, r), r = "charge" \/ ~Sent(i, "charge"),
             payment[i] = "SUCCEEDED" => r = "confirm"
      PROVE  PaidConfirmed(i)'
  <2>1. pc'[i] = r
    BY <1>1, <1>4 DEF Call, TypeOK
  <2>2. Sent(i, "charge")' => Sent(i, "charge") \/ r = "charge"
    BY <1>4, SentByCall
  <2> QED BY <1>2, <1>4, <2>1, <2>2 DEF PaidConfirmed, PaidFor
<1>5. ASSUME NEW p, Publish(i, p), ~Sent(i, "charge"),
             payment[i] = "SUCCEEDED" => p = "publishConfirmed"
      PROVE  PaidConfirmed(i)'
  BY <1>1, <1>2, <1>5, SentUnchanged DEF Publish, PaidConfirmed, PaidFor, TypeOK
<1>6. ASSUME NEW o, Finish(i, o), ~Sent(i, "charge"),
             payment[i] = "SUCCEEDED" => NoneSent(i) /\ (booking[i] = "CONFIRMED" \/ CancelSent(i))
      PROVE  PaidConfirmed(i)'
  BY <1>1, <1>2, <1>6, SentUnchanged DEF Finish, PaidConfirmed, PaidFor, NoneSent, TypeOK
<1>7. CASE i = j /\ Start(j)
  BY <1>1, <1>4, <1>7 DEF Start, SentInv, NoneSent, PaidInv
<1>8. CASE i = j /\ HoldAnswered(j)
  BY <1>1, <1>4, <1>6, <1>8 DEF HoldAnswered, Answered, PaidConfirmed, PaidInv
<1>9. CASE i = j /\ ChargeAnswered(j)
  <2>1. /\ pc[i] = "charge" /\ answer[i] \in {"SUCCEEDED", "FAILED"}
        /\ payment[i] = answer[i] /\ ~Sent(i, "charge")
    BY <1>1, <1>9 DEF ChargeAnswered, Answered, Reliable, PaidInv, SentInv
  <2> QED BY <1>4, <1>9, <2>1 DEF ChargeAnswered, Answered
<1>10. CASE i = j /\ ConfirmAnswered(j)
  BY <1>5, <1>10 DEF ConfirmAnswered, Answered, Reliable, PaidConfirmed
<1>11. CASE i = j /\ (ReleaseAnswered(j) \/ CompensateAnswered(j) \/ PublishFailed(j))
  <2>1. pc[i] \in {"release", "compensate", "publishFailed"}
    BY <1>11 DEF ReleaseAnswered, CompensateAnswered, PublishFailed, Answered
  <2>2. ~Sent(i, "charge") /\ payment[i] # "SUCCEEDED"
    BY <2>1 DEF PaidConfirmed, PaidFor
  <2> QED BY <1>4, <1>5, <1>6, <1>11, <2>2
          DEF ReleaseAnswered, CompensateAnswered, PublishFailed
<1>12. CASE i = j /\ PublishConfirmed(j)
  <2>1. pc[i] = "publishConfirmed" /\ \E o : Finish(i, o)
    BY <1>12 DEF PublishConfirmed
  <2>2. NoneSent(i) /\ (booking[i] = "CONFIRMED" \/ CancelSent(i))
    BY <1>1, <2>1 DEF SettledInv, GotConfirmed
  <2> QED BY <1>6, <2>1, <2>2 DEF NoneSent
<1> QED BY <1>3, <1>7, <1>8, <1>9, <1>10, <1>11, <1>12 DEF SagaStep

LEMMA PaidStep ==
    ASSUME SagaInv, Reliable, Reliable', [Next]_vars, NEW i \in Sagas, PaidConfirmed(i)
    PROVE  PaidConfirmed(i)'
<1> USE OrchestratorAssumption DEF Actors
<1>1. TypeOK /\ (CancelSent(i) => CancelSent(i)')
  BY CancelsStaySent DEF SagaInv
<1>2. ASSUME NEW a \in Actors, Crash(a) PROVE PaidConfirmed(i)'
  <2>1. UNCHANGED <<booking, payment, outcome>> /\ \A b, r : Sent(b, r)' => Sent(b, r)
    BY <1>2, SentUnchanged DEF Crash, serviceVars
  <2>2. a # i
    <3> SUFFICES ASSUME a = i PROVE FALSE
      OBVIOUS
    <3>1. pc[i] # "over" /\ pc'[i] = "over"
      BY <1>1, <1>2 DEF Crash, TypeOK
    <3>2. outcome[i] = "NONE"
      BY <3>1 DEF SagaInv, SentInv
    <3> QED BY <2>1, <3>1, <3>2 DEF Reliable
  <2> QED BY <1>1, <1>2, <2>1, <2>2, PaidKept DEF Crash, TypeOK
<1>3. ASSUME NEW x \in Cancels, Cancel(x) \/ CancelStep(x) PROVE PaidConfirmed(i)'
  <2>1. /\ UNCHANGED <<booking, payment>> /\ pc'[i] = pc[i]
        /\ \A r : Sent(i, r)' => Sent(i, r)
    BY <1>1, <1>3 DEF Cancel, CancelStep, RefundAnswered, CancelAnswered,
       PublishCancelled, Call, Publish, Finish, Sent, TypeOK, serviceVars
  <2> QED BY <1>1, <2>1, PaidKept
<1>4. CASE HoldsAge \/ Finished \/ UNCHANGED vars
  <2>1. UNCHANGED <<pc, booking, payment, pending>>
    BY <1>4 DEF HoldsAge, Finished, vars
  <2> QED BY <1>1, <2>1, SentUnchanged, PaidKept
<1> QED BY <1>2, <1>3, <1>4, PaidServiceStep, PaidSagaStep DEF Next

\* Finding 3 has no other cause than an error or a timeout of a charge or a confirm,
\* or the death of the process: where these do not happen, whoever paid is confirmed.
THEOREM ReliableSagasConfirmThePaid == Spec /\ []Reliable => []PaidMeansConfirmed
<1> DEFINE Inv == \A i \in Sagas : PaidConfirmed(i)
<1>1. Init => Inv
  BY DEF Init, PaidConfirmed, Sent
<1>2. SagaInv /\ Reliable /\ Reliable' /\ Inv /\ [Next]_vars => Inv'
  BY PaidStep
<1>3. Inv => PaidMeansConfirmed
  BY DEF PaidMeansConfirmed, PaidConfirmed, PaidFor, Quiet, Actors
<1> QED BY <1>1, <1>2, <1>3, SagaInvCorrect, PTL DEF Spec

\* And a second attempt (finding 4) is then charged for nothing only if the seat was
\* sold twice: of two payments kept when all is quiet, neither of them cancelled, one is
\* for a booking made without a sound check.
THEOREM ReliableRetriesChargeOnce ==
    Spec /\ []Reliable =>
        [](Quiet => \A i, j \in Sagas :
              /\ i # j
              /\ payment[i] = "SUCCEEDED" /\ payment[j] = "SUCCEEDED"
              /\ ~CancelSent(i) /\ ~CancelSent(j)
              => {i, j} \cap flawed # {})
<1> DEFINE Once == Quiet => \A i, j \in Sagas :
              /\ i # j
              /\ payment[i] = "SUCCEEDED" /\ payment[j] = "SUCCEEDED"
              /\ ~CancelSent(i) /\ ~CancelSent(j)
              => {i, j} \cap flawed # {}
<1>1. PaidMeansConfirmed /\ InventoryProofs!Exclusive => Once
  BY DEF PaidMeansConfirmed, InventoryProofs!Exclusive, InventoryProofs!Blocks, Rivals
<1> QED BY <1>1, ReliableSagasConfirmThePaid, RivalsExclusive, PTL
=============================================================================
