--------------------------- MODULE PaymentLedger ---------------------------
(***************************************************************************)
(* What the payment service promises: a charge is recorded at most once    *)
(* under its key, as if at one instant, and every answer is that of the    *)
(* key's row.  PaymentService implements this module although it looks the *)
(* key up, charges and inserts in separate steps; BookingOrchestrator's    *)
(* view of the service is an instance of it.                               *)
(***************************************************************************)
CONSTANTS Keys, Charges

VARIABLES
    row,        \* row[k]: status of the payment under key k
    keyOf,      \* keyOf[c]: the key charge c carries
    told        \* told[c]: what c's caller was told

vars == <<row, keyOf, told>>

Init ==
    /\ row = [k \in Keys |-> "ABSENT"]
    /\ keyOf \in [Charges -> Keys]
    /\ told = [c \in Charges |-> "NONE"]

\* The one charge under a key; its answer may be lost.
Charge(c) ==
    /\ told[c] = "NONE"
    /\ row[keyOf[c]] = "ABSENT"
    /\ \E st \in {"SUCCEEDED", "FAILED"} :
          /\ row' = [row EXCEPT ![keyOf[c]] = st]
          /\ told' \in {told, [told EXCEPT ![c] = st]}
    /\ UNCHANGED keyOf

\* A further charge under the key has no effect but its answer.
Replay(c) ==
    /\ told[c] = "NONE"
    /\ row[keyOf[c]] # "ABSENT"
    /\ told' = [told EXCEPT ![c] = row[keyOf[c]]]
    /\ UNCHANGED <<row, keyOf>>

Refund(k) ==
    /\ row[k] = "SUCCEEDED"
    /\ row' = [row EXCEPT ![k] = "REFUNDED"]
    /\ UNCHANGED <<keyOf, told>>

Next ==
    \/ \E c \in Charges : Charge(c) \/ Replay(c)
    \/ \E k \in Keys : Refund(k)

Spec == Init /\ [][Next]_vars
=============================================================================
