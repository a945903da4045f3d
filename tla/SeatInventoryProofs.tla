------------------------ MODULE SeatInventoryProofs ------------------------
(***************************************************************************)
(* What every service that implements SeatInventory guarantees its callers.*)
(***************************************************************************)
EXTENDS SeatInventory, TLAPS

InventoryInv ==
    /\ \A a, b \in Rows : <<a, b>> \in clash => a # b /\ <<b, a>> \in clash
    /\ status \in [Rows -> {"ABSENT", "PENDING", "CONFIRMED", "FAILED",
                            "CANCELLED", "EXPIRED"}]
    /\ \A b \in lapsed : Timed(b)
    /\ \A b \in seen \cup accepted : b \in Rows /\ Present(b)
    /\ Exclusive

LEMMA InventoryInvInit == Init => InventoryInv
BY DEF Init, InventoryInv, Exclusive, Blocks

LEMMA InventoryInvStep == InventoryInv /\ [Next]_vars => InventoryInv'
<1> SUFFICES ASSUME InventoryInv, [Next]_vars PROVE InventoryInv'
  OBVIOUS
<1> USE DEF InventoryInv, Exclusive, Blocks, Present, Timed, KeepDeadlines, deadlines,
        confirms
<1>1. ASSUME NEW x \in Rows, Claim(x) PROVE InventoryInv'
  <2>1. /\ status'[x] = "PENDING" /\ status[x] = "ABSENT"
        /\ \A b \in Rows \ {x} : status'[b] = status[b] /\ (b \in lapsed' <=> b \in lapsed)
        /\ lapsed' \subseteq lapsed \cup {x}
        /\ clash' = clash /\ seen' = seen /\ accepted' = accepted
        /\ flawed \subseteq flawed'
        /\ Blockers(x) \subseteq flawed' \/ x \in flawed'
    BY <1>1 DEF Claim, Age
  <2>2. ASSUME NEW a \in Rows, NEW b \in Rows, <<a, b>> \in clash,
               Blocks(a)', Blocks(b)'
        PROVE  {a, b} \cap flawed' # {}
    <3>1. CASE a # x /\ b # x
      BY <2>1, <2>2, <3>1
    <3>2. CASE a = x
      <4>1. b # x /\ b \in Blockers(x)
        BY <2>1, <2>2, <3>2 DEF Blockers
      <4> QED BY <2>1, <3>2, <4>1
    <3>3. CASE b = x
      <4>1. a # x /\ a \in Blockers(x)
        BY <2>1, <2>2, <3>3 DEF Blockers
      <4> QED BY <2>1, <3>3, <4>1
    <3> QED BY <3>1, <3>2, <3>3
  <2> QED BY <1>1, <2>1, <2>2 DEF Claim
<1>2. ASSUME NEW x \in Rows, Confirm(x) PROVE InventoryInv'
  BY <1>2 DEF Confirm
<1>3. ASSUME NEW x \in Rows, Find(x) \/ Accept(x) PROVE InventoryInv'
  BY <1>3 DEF Find, Accept
<1>4. ASSUME NEW x \in Rows, Expire(x) \/ Release(x) PROVE InventoryInv'
  BY <1>4 DEF Expire, Release
<1>5. CASE Forget
  BY <1>5 DEF Forget
<1>6. CASE Lapse
  BY <1>6 DEF Lapse, Age
<1>7. CASE UNCHANGED vars
  BY <1>7 DEF vars
<1> QED BY <1>1, <1>2, <1>3, <1>4, <1>5, <1>6, <1>7 DEF Next

\* Whoever implements the inventory never sells a leg twice unless a row inserted
\* or confirmed without a sound check is involved.
THEOREM InventoryExclusive == Spec => []Exclusive
<1>1. InventoryInv => Exclusive
  BY DEF InventoryInv
<1> QED BY <1>1, InventoryInvInit, InventoryInvStep, PTL DEF Spec
=============================================================================
