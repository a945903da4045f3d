------------------------ MODULE SegmentAvailability ------------------------
(***************************************************************************)
(* The segment-overlap rule of booking-service/src/domain: a seat is sold  *)
(* per route segment <<fromSeq, toSeq>>, the passenger boarding at the     *)
(* first stop and leaving at the second.  Two bookings of one seat clash   *)
(* iff both still block it and their segments overlap.                     *)
(***************************************************************************)
EXTENDS Naturals

Status == {"PENDING", "CONFIRMED", "FAILED", "CANCELLED", "EXPIRED"}

\* Mutant: only confirmed bookings block.
ConfirmedOnly == {"CONFIRMED"}

\* The for loop skips every booking whose status is not one of these.
BlockingStatuses == {"CONFIRMED", "PENDING"}

\* checkAvailability rejects a request that does not go forward.
ValidSegment(s) == s[1] < s[2]

\* Mutant: a shared boundary stop counts as an overlap.
OverlapsAtBoundary(s, t) == s[1] <= t[2] /\ t[1] <= s[2]

\* Mutant: only a segment that contains the other's start overlaps it.
OverlapsAtStart(s, t) == s[1] <= t[1] /\ t[1] < s[2]

\* existing.fromSeq < requested.toSeq AND requested.fromSeq < existing.toSeq
Overlaps(s, t) == s[1] < t[2] /\ t[1] < s[2]

\* existing is a set of records with the fields seg and status.
HasSegmentConflict(existing, requested) ==
    \E b \in existing : /\ b.status \in BlockingStatuses
                        /\ Overlaps(b.seg, requested)

----------------------------------------------------------------------------
(* What the rule is meant to decide, stated without comparing end points:  *)
(* leg n is the ride from stop n to stop n + 1, and two passengers clash   *)
(* iff they occupy the seat on a common leg.                               *)

Legs(s) == {n \in s[1] .. s[2] : n < s[2]}

ShareLeg(s, t) == Legs(s) \cap Legs(t) # {}
============================================================================
