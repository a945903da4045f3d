------------------------ MODULE PaymentServiceProofs ------------------------
(***************************************************************************)
(* Proofs about PaymentService for any keys, charges and refunds.          *)
(***************************************************************************)
EXTENDS PaymentService, TLAPS

LEMMA TypeInit == Init => TypeOK
BY DEF Init, TypeOK, PaymentStatus, ChargeResult, ChargePc, RefundPc

LEMMA TypeStep == TypeOK /\ [Next]_vars => TypeOK'
<1> SUFFICES ASSUME TypeOK, [Next]_vars PROVE TypeOK'
  OBVIOUS
<1> USE DEF TypeOK, PaymentStatus, ChargeResult, ChargePc, RefundPc,
        chargeVars, refundVars, ChargeGoto, RefundGoto
<1>1. ASSUME NEW c \in Charges, Replay(c) PROVE TypeOK'
  BY <1>1 DEF Replay
<1>2. ASSUME NEW c \in Charges, FindNothing(c) PROVE TypeOK'
  BY <1>2 DEF FindNothing
<1>3. ASSUME NEW c \in Charges, SimulateCharge(c) PROVE TypeOK'
  BY <1>3 DEF SimulateCharge
<1>4. ASSUME NEW c \in Charges, CreatePayment(c) PROVE TypeOK'
  BY <1>4 DEF CreatePayment
<1>5. ASSUME NEW c \in Charges, ChargeFails(c) PROVE TypeOK'
  BY <1>5 DEF ChargeFails
<1>6. ASSUME NEW r \in Refunds, CheckRefundable(r) PROVE TypeOK'
  BY <1>6 DEF CheckRefundable
<1>7. ASSUME NEW r \in Refunds, RefuseRefund(r) PROVE TypeOK'
  BY <1>7 DEF RefuseRefund
<1>8. ASSUME NEW r \in Refunds, WriteRefunded(r) PROVE TypeOK'
  BY <1>8 DEF WriteRefunded
<1>9. ASSUME NEW r \in Refunds, RefundFails(r) PROVE TypeOK'
  BY <1>9 DEF RefundFails
<1>10. CASE Finished \/ UNCHANGED vars
  BY <1>10 DEF Finished, vars
<1> QED BY <1>1, <1>2, <1>3, <1>4, <1>5, <1>6, <1>7, <1>8, <1>9, <1>10 DEF Next

\* The variables keep their types, in every behaviour of the service.
THEOREM TypeCorrect == Spec => []TypeOK
BY TypeInit, TypeStep, PTL DEF Spec

----------------------------------------------------------------------------
(* Answers and rows.                                                       *)

\* A successful charge in flight is counted; a refund in flight found, and a
\* carried out refund left, a row whose charge succeeded.
PaymentInv ==
    /\ TypeOK
    /\ AnswersAgreeWithRow
    /\ RecordedPaymentWasCharged
    /\ \A c \in Charges : chargePc[c] = "charged" /\ outcome[c] = "SUCCEEDED"
                            => approved[keyOf[c]] > 0
    /\ \A c \in Charges : chargePc[c] # "over" => told[c] = "NONE"
    /\ \A r \in Refunds : refundPc[r] = "checked"
                            => row[payment[r]] \in {"SUCCEEDED", "REFUNDED"}

LEMMA PaymentInvInit == Init => PaymentInv
BY TypeInit DEF Init, PaymentInv, AnswersAgreeWithRow, RecordedPaymentWasCharged

\* Besides the invariant, each step leaves final rows alone.
LEMMA PaymentInvStep ==
    PaymentInv /\ [Next]_vars => PaymentInv'
<1> DEFINE Goal == PaymentInv'
<1> SUFFICES ASSUME PaymentInv, [Next]_vars PROVE Goal
  OBVIOUS
<1>0. TypeOK'
  BY TypeStep DEF PaymentInv
<1> USE <1>0 DEF TypeOK, PaymentInv, AnswersAgreeWithRow,
        RecordedPaymentWasCharged, PaymentStatus, ChargeResult,
        chargeVars, refundVars, ChargeGoto, RefundGoto
<1>1. ASSUME NEW c \in Charges, Replay(c) PROVE Goal
  BY <1>1 DEF Replay
<1>2. ASSUME NEW c \in Charges, FindNothing(c) PROVE Goal
  BY <1>2 DEF FindNothing
<1>3. ASSUME NEW c \in Charges, SimulateCharge(c) PROVE Goal
  BY <1>3 DEF SimulateCharge
<1>4. ASSUME NEW c \in Charges, CreatePayment(c) PROVE Goal
  BY <1>4 DEF CreatePayment
<1>5. ASSUME NEW c \in Charges, ChargeFails(c) PROVE Goal
  BY <1>5 DEF ChargeFails
<1>6. ASSUME NEW r \in Refunds, CheckRefundable(r) PROVE Goal
  BY <1>6 DEF CheckRefundable
<1>7. ASSUME NEW r \in Refunds, RefuseRefund(r) PROVE Goal
  BY <1>7 DEF RefuseRefund
<1>8. ASSUME NEW r \in Refunds, WriteRefunded(r) PROVE Goal
  BY <1>8 DEF WriteRefunded
<1>9. ASSUME NEW r \in Refunds, RefundFails(r) PROVE Goal
  BY <1>9 DEF RefundFails
<1>10. CASE Finished \/ UNCHANGED vars
  BY <1>10 DEF Finished, vars
<1> QED BY <1>1, <1>2, <1>3, <1>4, <1>5, <1>6, <1>7, <1>8, <1>9, <1>10 DEF Next

LEMMA PaymentInvCorrect == Spec => []PaymentInv
BY PaymentInvInit, PaymentInvStep, PTL DEF Spec

\* A caller who got an answer can rely on it.
THEOREM AnswersReliable == Spec => []AnswersAgreeWithRow
BY PaymentInvCorrect, PTL DEF PaymentInv

\* No payment is recorded or refunded for which the card was not charged.
THEOREM RecordsBacked == Spec => []RecordedPaymentWasCharged
BY PaymentInvCorrect, PTL DEF PaymentInv

----------------------------------------------------------------------------
(* The service implements PaymentLedger.                                   *)

LEMMA StepImplements == PaymentInv /\ [Next]_vars => [Ledger!Next]_(Ledger!vars)
<1> DEFINE Goal == [Ledger!Next]_(Ledger!vars)
<1> SUFFICES ASSUME PaymentInv, [Next]_vars PROVE Goal
  OBVIOUS
<1> USE DEF TypeOK, PaymentInv, PaymentStatus, ChargeResult, chargeVars, refundVars,
        ChargeGoto, RefundGoto, Ledger!vars
<1>1. ASSUME NEW c \in Charges, Replay(c) PROVE Goal
  <2>1. Ledger!Replay(c)
    BY <1>1 DEF Replay, Ledger!Replay
  <2> QED BY <2>1 DEF Ledger!Next
<1>2. ASSUME NEW c \in Charges, FindNothing(c) \/ SimulateCharge(c) \/ ChargeFails(c)
      PROVE  Goal
  BY <1>2 DEF FindNothing, SimulateCharge, ChargeFails
<1>3. ASSUME NEW c \in Charges, CreatePayment(c) PROVE Goal
  <2>1. Ledger!Charge(c)
    BY <1>3 DEF CreatePayment, Ledger!Charge
  <2> QED BY <2>1 DEF Ledger!Next
<1>4. ASSUME NEW r \in Refunds, CheckRefundable(r) \/ RefuseRefund(r) \/ RefundFails(r)
      PROVE  Goal
  BY <1>4 DEF CheckRefundable, RefuseRefund, RefundFails
<1>5. ASSUME NEW r \in Refunds, WriteRefunded(r) PROVE Goal
  <2>1. CASE row[payment[r]] = "SUCCEEDED"
    <3>1. Ledger!Refund(payment[r])
      BY <1>5, <2>1 DEF WriteRefunded, Ledger!Refund
    <3> QED BY <3>1 DEF Ledger!Next
  <2>2. CASE row[payment[r]] = "REFUNDED"
    BY <1>5, <2>2 DEF WriteRefunded
  <2> QED BY <1>5, <2>1, <2>2 DEF WriteRefunded
<1>6. CASE Finished \/ UNCHANGED vars
  BY <1>6 DEF Finished, vars
<1> QED BY <1>1, <1>2, <1>3, <1>4, <1>5, <1>6 DEF Next

\* The payment service implements the ledger: its callers may take each charge and
\* each refund for one atomic step.
THEOREM LedgerImplemented == Spec => ImplementsLedger
<1>1. Init => Ledger!Init
  BY DEF Init, Ledger!Init
<1> QED BY <1>1, PaymentInvCorrect, StepImplements, PTL
        DEF Spec, ImplementsLedger, Ledger!Spec

----------------------------------------------------------------------------
(* What stays once a payment is recorded.                                  *)

\* A payment that failed or was refunded.
Final(k) == row[k] \in {"FAILED", "REFUNDED"}

\* The key has its row, and no call that looked it up earlier has yet to charge.
Settled(k) ==
    /\ row[k] # "ABSENT"
    /\ \A c \in Charges : keyOf[c] = k => chargePc[c] # "found"

LEMMA KeySteps ==
    PaymentInv /\ [Next]_vars =>
        \A k \in Keys :
            /\ Final(k) => row'[k] = row[k]
            /\ Settled(k) => Settled(k)' /\ approved'[k] = approved[k]
<1> DEFINE Goal(k) == /\ Final(k) => row'[k] = row[k]
                      /\ Settled(k) => Settled(k)' /\ approved'[k] = approved[k]
<1> SUFFICES ASSUME PaymentInv, [Next]_vars, NEW k \in Keys PROVE Goal(k)
  OBVIOUS
<1> USE DEF Final, Settled, TypeOK, PaymentInv, PaymentStatus, ChargeResult, chargeVars,
        refundVars, ChargeGoto, RefundGoto
<1>1. ASSUME NEW c \in Charges, Replay(c) \/ ChargeFails(c) PROVE Goal(k)
  BY <1>1 DEF Replay, ChargeFails
<1>2. ASSUME NEW c \in Charges, FindNothing(c) PROVE Goal(k)
  BY <1>2 DEF FindNothing
<1>3. ASSUME NEW c \in Charges, SimulateCharge(c) PROVE Goal(k)
  BY <1>3 DEF SimulateCharge
<1>4. ASSUME NEW c \in Charges, CreatePayment(c) PROVE Goal(k)
  BY <1>4 DEF CreatePayment
<1>5. ASSUME NEW r \in Refunds, CheckRefundable(r) \/ RefuseRefund(r) \/ RefundFails(r)
      PROVE  Goal(k)
  BY <1>5 DEF CheckRefundable, RefuseRefund, RefundFails
<1>6. ASSUME NEW r \in Refunds, WriteRefunded(r) PROVE Goal(k)
  BY <1>6 DEF WriteRefunded
<1>7. CASE Finished \/ UNCHANGED vars
  BY <1>7 DEF Finished, vars
<1> QED BY <1>1, <1>2, <1>3, <1>4, <1>5, <1>6, <1>7 DEF Next

\* Failed and refunded are final, although refund writes without a condition
\* (payment.service.ts:124): whoever still has to write has checked a row that
\* nobody can have made FAILED since.
THEOREM FinalPaymentsStay ==
    Spec => [][\A k \in Keys : Final(k) => row'[k] = row[k]]_vars
<1>1. PaymentInv /\ [Next]_vars => [\A k \in Keys : Final(k) => row'[k] = row[k]]_vars
  BY KeySteps
<1> QED BY <1>1, PaymentInvCorrect, PTL DEF Spec

\* "A retried request never double-charges", as far as it goes: once the row of a
\* key is there and the calls that had found none have charged or ended, no call
\* under this key charges the card ever again, however many follow.  (A retry that
\* comes before the row does, also after a failed insert, charges again.)
THEOREM SettledKeyNeverCharged ==
    Spec => [][\A k \in Keys :
                  Settled(k) => Settled(k)' /\ approved'[k] = approved[k]]_vars
<1>1. PaymentInv /\ [Next]_vars =>
          [\A k \in Keys : Settled(k) => Settled(k)' /\ approved'[k] = approved[k]]_vars
  BY KeySteps
<1> QED BY <1>1, PaymentInvCorrect, PTL DEF Spec
=============================================================================
