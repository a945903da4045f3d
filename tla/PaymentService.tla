--------------------------- MODULE PaymentService ---------------------------
(***************************************************************************)
(* payment-service: charges made idempotent by a key, and refunds.         *)
(*                                                                         *)
(* charge looks the key up, answers from the row it finds, and otherwise   *)
(* runs the (simulated) card charge and inserts a row under the key, whose *)
(* column is unique.  refund reads the row, checks its status and writes   *)
(* REFUNDED unconditionally.  Each awaited database call is a step; the    *)
(* code that runs on its answer is the next.  The row of a key stands for  *)
(* the payment: no two rows share a key.                                   *)
(***************************************************************************)
EXTENDS Naturals

CONSTANTS
    Keys,       \* idempotency keys
    Charges,    \* charge calls, retries included
    Refunds     \* refund calls

VARIABLES
    row,        \* row[k]: status of the Payment row under key k
    keyOf,      \* keyOf[c]: the key charge call c carries
    chargePc,   \* chargePc[c]: where the charge call is
    outcome,    \* outcome[c]: what c's card charge came to
    told,       \* told[c]: the status c's caller was told
    refundPc,   \* refundPc[r]: where the refund call is
    payment,    \* payment[r]: the row it refunds
    approved,   \* history: approved[k], the card charges that succeeded for k
    refunds     \* history: refunds[k], the refunds of k that were carried out

chargeVars == <<keyOf, chargePc, outcome, told>>
refundVars == <<refundPc, payment>>
vars == <<row, keyOf, chargePc, outcome, told, refundPc, payment,
          approved, refunds>>

ChargeResult == {"SUCCEEDED", "FAILED"}

PaymentStatus == ChargeResult \cup {"REFUNDED"}

\* found: the answer "no such row" is on its way; charged: the insert is.
ChargePc == {"idle", "found", "charged", "over"}

RefundPc == {"idle", "checked", "over"}

TypeOK ==
    /\ row \in [Keys -> PaymentStatus \cup {"ABSENT"}]
    /\ keyOf \in [Charges -> Keys]
    /\ chargePc \in [Charges -> ChargePc]
    /\ outcome \in [Charges -> ChargeResult \cup {"NONE"}]
    /\ told \in [Charges -> PaymentStatus \cup {"NONE"}]
    /\ refundPc \in [Refunds -> RefundPc]
    /\ payment \in [Refunds -> Keys]
    /\ \A c \in Charges : chargePc[c] = "charged" => outcome[c] \in ChargeResult
    /\ approved \in [Keys -> Nat]
    /\ refunds \in [Keys -> Nat]

Init ==
    /\ row = [k \in Keys |-> "ABSENT"]
    /\ keyOf \in [Charges -> Keys]
    /\ chargePc = [c \in Charges |-> "idle"]
    /\ outcome = [c \in Charges |-> "NONE"]
    /\ told = [c \in Charges |-> "NONE"]
    /\ refundPc = [r \in Refunds |-> "idle"]
    /\ payment \in [Refunds -> Keys]
    /\ approved = [k \in Keys |-> 0]
    /\ refunds = [k \in Keys |-> 0]

----------------------------------------------------------------------------
(* charge *)

ChargeGoto(c, from, to) ==
    chargePc[c] = from /\ chargePc' = [chargePc EXCEPT ![c] = to]

\* Mutant: the lookup's answer is used without looking whether there is one.
ReplayUnchecked(c) ==
    /\ ChargeGoto(c, "idle", "over")
    /\ told' = [told EXCEPT ![c] = row[keyOf[c]]]
    /\ UNCHANGED <<row, keyOf, outcome, refundVars, approved, refunds>>

\* findByIdempotencyKey finds a row: its status is the answer.
Replay(c) ==
    /\ ChargeGoto(c, "idle", "over")
    /\ row[keyOf[c]] # "ABSENT"
    /\ told' = [told EXCEPT ![c] = row[keyOf[c]]]
    /\ UNCHANGED <<row, keyOf, outcome, refundVars, approved, refunds>>

\* findByIdempotencyKey finds nothing.
FindNothing(c) ==
    /\ ChargeGoto(c, "idle", "found")
    /\ row[keyOf[c]] = "ABSENT"
    /\ UNCHANGED <<row, keyOf, outcome, told, refundVars, approved, refunds>>

\* simulateChargeOutcome, then the insert is sent.
SimulateCharge(c) ==
    /\ ChargeGoto(c, "found", "charged")
    /\ \E o \in ChargeResult :
          /\ outcome' = [outcome EXCEPT ![c] = o]
          /\ approved' = IF o = "SUCCEEDED"
                         THEN [approved EXCEPT ![keyOf[c]] = @ + 1]
                         ELSE approved
    /\ UNCHANGED <<row, keyOf, told, refundVars, refunds>>

\* Mutant: an upsert instead of an insert under a unique index.
UpsertPayment(c) ==
    /\ ChargeGoto(c, "charged", "over")
    /\ row' = [row EXCEPT ![keyOf[c]] = outcome[c]]
    /\ told' = [told EXCEPT ![c] = outcome[c]]
    /\ UNCHANGED <<keyOf, outcome, refundVars, approved, refunds>>

\* Mutant: the row is inserted as SUCCEEDED whatever the charge came to.
CreateSucceeded(c) ==
    /\ ChargeGoto(c, "charged", "over")
    /\ row[keyOf[c]] = "ABSENT"
    /\ row' = [row EXCEPT ![keyOf[c]] = "SUCCEEDED"]
    /\ told' = [told EXCEPT ![c] = "SUCCEEDED"]
    /\ UNCHANGED <<keyOf, outcome, refundVars, approved, refunds>>

\* createPayment inserts the row.  Its answer reaches the caller, or is lost
\* and the caller gets an error.
CreatePayment(c) ==
    /\ ChargeGoto(c, "charged", "over")
    /\ row[keyOf[c]] = "ABSENT"
    /\ row' = [row EXCEPT ![keyOf[c]] = outcome[c]]
    /\ told' \in {told, [told EXCEPT ![c] = outcome[c]]}
    /\ UNCHANGED <<keyOf, outcome, refundVars, approved, refunds>>

\* The call ends in an error with no effect on the database: an awaited call
\* fails, the insert violates the unique index on idempotencyKey, or the
\* process dies.
ChargeFails(c) ==
    /\ \E p \in {"found", "charged"} : ChargeGoto(c, p, "over")
    /\ UNCHANGED <<row, keyOf, outcome, told, refundVars, approved, refunds>>

----------------------------------------------------------------------------
(* refund *)

RefundGoto(r, from, to) ==
    refundPc[r] = from /\ refundPc' = [refundPc EXCEPT ![r] = to]

\* Mutant: only a second refund is refused.
CheckNotRefunded(r) ==
    /\ RefundGoto(r, "idle", "checked")
    /\ row[payment[r]] \notin {"ABSENT", "REFUNDED"}
    /\ UNCHANGED <<row, chargeVars, payment, approved, refunds>>

\* findById finds a payment that succeeded and was not refunded.
CheckRefundable(r) ==
    /\ RefundGoto(r, "idle", "checked")
    /\ row[payment[r]] = "SUCCEEDED"
    /\ UNCHANGED <<row, chargeVars, payment, approved, refunds>>

\* NotFoundError, ConflictError (already refunded), ValidationError (never
\* succeeded).
RefuseRefund(r) ==
    /\ RefundGoto(r, "idle", "over")
    /\ row[payment[r]] # "SUCCEEDED"
    /\ UNCHANGED <<row, chargeVars, payment, approved, refunds>>

\* updateStatus(id, REFUNDED), whatever the row holds by now.
WriteRefunded(r) ==
    /\ RefundGoto(r, "checked", "over")
    /\ row' = [row EXCEPT ![payment[r]] = "REFUNDED"]
    /\ refunds' = [refunds EXCEPT ![payment[r]] = @ + 1]
    /\ UNCHANGED <<chargeVars, payment, approved>>

\* The update fails without effect, or the process dies ahead of it.
RefundFails(r) ==
    /\ RefundGoto(r, "checked", "over")
    /\ UNCHANGED <<row, chargeVars, payment, approved, refunds>>

----------------------------------------------------------------------------
Finished ==
    /\ \A c \in Charges : chargePc[c] = "over"
    /\ \A r \in Refunds : refundPc[r] = "over"
    /\ UNCHANGED vars

Next ==
    \/ \E c \in Charges : \/ Replay(c) \/ FindNothing(c) \/ SimulateCharge(c)
                          \/ CreatePayment(c) \/ ChargeFails(c)
    \/ \E r \in Refunds : \/ CheckRefundable(r) \/ RefuseRefund(r)
                          \/ WriteRefunded(r) \/ RefundFails(r)
    \/ Finished

Spec == Init /\ [][Next]_vars

----------------------------------------------------------------------------
(* Properties *)

\* Whatever the retries and races, a caller who got an answer can rely on it:
\* "SUCCEEDED" stays backed by a payment that succeeded (and may since have been
\* refunded), "FAILED" by one that failed for good.  In particular two callers
\* with the same key never hear opposite results.
AnswersAgreeWithRow ==
    \A c \in Charges :
        /\ told[c] = "SUCCEEDED" => row[keyOf[c]] \in {"SUCCEEDED", "REFUNDED"}
        /\ told[c] = "FAILED" => row[keyOf[c]] = "FAILED"
        /\ told[c] = "REFUNDED" => row[keyOf[c]] = "REFUNDED"

\* No payment is recorded as made, and none is refunded, unless the card was
\* charged for it, although refund re-reads nothing before it writes.
RecordedPaymentWasCharged ==
    \A k \in Keys :
        /\ row[k] \in {"SUCCEEDED", "REFUNDED"} => approved[k] > 0
        /\ refunds[k] > 0 => row[k] = "REFUNDED" /\ approved[k] > 0

Ledger == INSTANCE PaymentLedger

\* Seen from outside, lookup, charge and insert are one step: whatever races,
\* times out or is retried, a key gets one payment, nothing undoes a failed one
\* or a refund, only a succeeded one is refunded, and each caller hears the row
\* of its key at one moment of its call.
ImplementsLedger == Ledger!Spec
=============================================================================
