--------------------- MODULE SegmentAvailabilityProofs ---------------------
(***************************************************************************)
(* The overlap rule decides what it is meant to decide, for every segment; *)
(* and selling by it sells no leg twice, for any stops and bookings.       *)
(***************************************************************************)
EXTENDS MCSegmentAvailability, TLAPS

\* Comparing end points as hasSegmentConflict does is the same as looking for
\* a leg that both journeys ride, for all valid segments.
THEOREM OverlapIsSharedLeg ==
    ASSUME NEW s \in Nat \X Nat, NEW t \in Nat \X Nat,
           ValidSegment(s), ValidSegment(t)
    PROVE  Overlaps(s, t) <=> ShareLeg(s, t)
<1>1. /\ s[1] \in Nat /\ s[2] \in Nat /\ t[1] \in Nat /\ t[2] \in Nat
      /\ s[1] < s[2] /\ t[1] < t[2]
  BY DEF ValidSegment
<1>2. ASSUME Overlaps(s, t) PROVE ShareLeg(s, t)
  <2>1. CASE s[1] <= t[1]
    <3>1. t[1] \in Legs(s) /\ t[1] \in Legs(t)
      BY <1>1, <1>2, <2>1 DEF Overlaps, Legs
    <3> QED BY <3>1 DEF ShareLeg
  <2>2. CASE t[1] < s[1]
    <3>1. s[1] \in Legs(s) /\ s[1] \in Legs(t)
      BY <1>1, <1>2, <2>2 DEF Overlaps, Legs
    <3> QED BY <3>1 DEF ShareLeg
  <2> QED BY <1>1, <2>1, <2>2
<1>3. ASSUME ShareLeg(s, t) PROVE Overlaps(s, t)
  <2>1. PICK n : n \in Legs(s) /\ n \in Legs(t)
    BY <1>3 DEF ShareLeg
  <2> QED BY <1>1, <2>1 DEF Legs, Overlaps
<1> QED BY <1>2, <1>3

----------------------------------------------------------------------------
(* Selling one seat by the rule.                                           *)

\* Every row has a valid segment and a status of the schema.
RowsTyped ==
    /\ rows \subseteq [seg : Nat \X Nat, status : Status]
    /\ \A r \in rows : ValidSegment(r.seg)

RuleInv == RowsTyped /\ LegSoldOnce

LEMMA RuleInvInit == Init => RuleInv
BY DEF Init, RuleInv, RowsTyped, LegSoldOnce

LEMMA RowsTypedStep == RowsTyped /\ [Next]_rows => RowsTyped'
<1> SUFFICES ASSUME RowsTyped, [Next]_rows PROVE RowsTyped'
  OBVIOUS
<1>1. ASSUME NEW s \in Segment, Book(s) PROVE RowsTyped'
  <2>1. s \in Nat \X Nat
    BY StopsAssumption DEF Segment
  <2> QED BY <1>1, <2>1 DEF Book, RowsTyped, Status
<1>2. ASSUME NEW r \in rows, Confirm(r) PROVE RowsTyped'
  BY <1>2 DEF Confirm, RowsTyped, Status
<1>3. ASSUME NEW r \in rows, NEW st \in {"FAILED", "CANCELLED", "EXPIRED"}, GiveUp(r, st)
      PROVE  RowsTyped'
  BY <1>3 DEF GiveUp, RowsTyped, Status
<1>4. CASE UNCHANGED rows
  BY <1>4 DEF RowsTyped
<1> QED BY <1>1, <1>2, <1>3, <1>4 DEF Next

LEMMA LegSoldOnceStep == RuleInv /\ [Next]_rows => LegSoldOnce'
<1> SUFFICES ASSUME RuleInv, [Next]_rows,
                    NEW r \in rows', NEW q \in rows',
                    {r.status, q.status} \subseteq BlockingStatuses, r # q
             PROVE  ~ShareLeg(r.seg, q.seg)
  BY DEF LegSoldOnce
<1> USE DEF RuleInv, RowsTyped, LegSoldOnce
<1>1. ASSUME NEW s \in Segment, Book(s) PROVE ~ShareLeg(r.seg, q.seg)
  <2>1. s \in Nat \X Nat /\ ValidSegment(s)
    BY <1>1, StopsAssumption DEF Segment, Book
  <2>2. ASSUME NEW b \in rows, b.status \in BlockingStatuses
        PROVE  ~ShareLeg(b.seg, s) /\ ~ShareLeg(s, b.seg)
    <3>1. ~Overlaps(b.seg, s)
      BY <1>1, <2>2 DEF Book, HasSegmentConflict
    <3>2. ~ShareLeg(b.seg, s)
      BY <2>1, <3>1, OverlapIsSharedLeg
    <3> QED BY <3>2 DEF ShareLeg
  <2>3. CASE r \in rows /\ q \in rows
    BY <2>3
  <2>4. CASE r \in rows /\ q = [seg |-> s, status |-> "PENDING"]
    BY <2>2, <2>4
  <2>5. CASE q \in rows /\ r = [seg |-> s, status |-> "PENDING"]
    BY <2>2, <2>5
  <2> QED BY <1>1, <2>3, <2>4, <2>5 DEF Book
<1>2. ASSUME NEW p \in rows, Confirm(p) PROVE ~ShareLeg(r.seg, q.seg)
  <2> DEFINE new == [p EXCEPT !.status = "CONFIRMED"]
  <2>1. /\ rows' = (rows \ {p}) \cup {new}
        /\ p.status \in BlockingStatuses
        /\ new.seg = p.seg
    BY <1>2 DEF Confirm, BlockingStatuses
  <2> HIDE DEF new
  <2>2. CASE r = new /\ q \in rows \ {p}
    BY <2>1, <2>2
  <2>3. CASE q = new /\ r \in rows \ {p}
    BY <2>1, <2>3
  <2> QED BY <2>1, <2>2, <2>3
<1>3. ASSUME NEW p \in rows, NEW st \in {"FAILED", "CANCELLED", "EXPIRED"}, GiveUp(p, st)
      PROVE  ~ShareLeg(r.seg, q.seg)
  <2>1. [p EXCEPT !.status = st].status \notin BlockingStatuses
    BY DEF BlockingStatuses
  <2>2. r \in rows /\ q \in rows
    BY <1>3, <2>1 DEF GiveUp
  <2> QED BY <2>2
<1>4. CASE UNCHANGED rows
  BY <1>4
<1> QED BY <1>1, <1>2, <1>3, <1>4 DEF Next

LEMMA RuleInvCorrect == Spec => []RuleInv
<1>1. RuleInv /\ [Next]_rows => RuleInv'
  BY RowsTypedStep, LegSoldOnceStep DEF RuleInv
<1> QED BY <1>1, RuleInvInit, PTL DEF Spec

\* No leg of the seat is sold to two passengers, on a route of any length.
THEOREM RuleSellsLegsOnce == Spec => []LegSoldOnce
BY RuleInvCorrect, PTL DEF RuleInv

\* The rule refuses a request exactly when one of its legs is taken.
THEOREM RuleRefusesExactly == Spec => []ConflictIffSharedLeg
<1>1. RuleInv => ConflictIffSharedLeg
  <2> SUFFICES ASSUME RuleInv, NEW s \in Segment, ValidSegment(s)
               PROVE  HasSegmentConflict(rows, s) <=>
                        \E r \in rows : r.status \in {"PENDING", "CONFIRMED"}
                                        /\ ShareLeg(r.seg, s)
    BY DEF ConflictIffSharedLeg
  <2>1. s \in Nat \X Nat
    BY StopsAssumption DEF Segment
  <2>2. \A r \in rows : Overlaps(r.seg, s) <=> ShareLeg(r.seg, s)
    BY <2>1, OverlapIsSharedLeg DEF RuleInv, RowsTyped
  <2> QED BY <2>2 DEF HasSegmentConflict, BlockingStatuses
<1> QED BY <1>1, RuleInvCorrect, PTL
=============================================================================
