----------------------- MODULE MCSegmentAvailability -----------------------
(***************************************************************************)
(* The overlap rule on one seat, used one request at a time: a request is  *)
(* booked when the rule finds no conflict, a booking is confirmed or given *)
(* up.  No interleaving, no clock: this isolates the rule itself.          *)
(***************************************************************************)
EXTENDS SegmentAvailability, FiniteSets

CONSTANTS Stops,       \* the stops of the route
          MaxBookings  \* bound: rows of the seat

ASSUME StopsAssumption == Stops \subseteq Nat /\ MaxBookings \in Nat

VARIABLE rows          \* the seat's rows: records of segment and status

Segment == Stops \X Stops

Init == rows = {}

\* A row is identified by its content; a second identical row would be a
\* second, non-blocking one and changes nothing that the rule looks at.
Book(s) ==
    /\ Cardinality(rows) < MaxBookings
    /\ ValidSegment(s)
    /\ ~HasSegmentConflict(rows, s)
    /\ rows' = rows \cup {[seg |-> s, status |-> "PENDING"]}

Confirm(r) ==
    /\ r.status = "PENDING"
    /\ rows' = (rows \ {r}) \cup {[r EXCEPT !.status = "CONFIRMED"]}

GiveUp(r, st) ==
    /\ r.status \in BlockingStatuses
    /\ rows' = (rows \ {r}) \cup {[r EXCEPT !.status = st]}

Next ==
    \/ \E s \in Segment : Book(s)
    \/ \E r \in rows : Confirm(r)
    \/ \E r \in rows, st \in {"FAILED", "CANCELLED", "EXPIRED"} : GiveUp(r, st)

Spec == Init /\ [][Next]_rows

\* No leg of the seat is ever sold to two passengers: the rows that block the
\* seat ride on pairwise disjoint legs, whatever was booked and given up
\* before (hasSegmentConflict used by checkAvailability).
LegSoldOnce ==
    \A r, q \in rows :
        /\ {r.status, q.status} \subseteq BlockingStatuses
        /\ r # q
        => ~ShareLeg(r.seg, q.seg)

\* The rule refuses a request exactly when some blocking row occupies one of
\* its legs: it neither double-books nor turns away a passenger whose legs are
\* free (a journey that starts where another ends is bookable).
ConflictIffSharedLeg ==
    \A s \in Segment :
        ValidSegment(s) =>
            (HasSegmentConflict(rows, s) <=>
                \E r \in rows : r.status \in {"PENDING", "CONFIRMED"}
                                /\ ShareLeg(r.seg, s))
============================================================================
