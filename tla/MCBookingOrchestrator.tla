----------------------- MODULE MCBookingOrchestrator -----------------------
(***************************************************************************)
(* Instances of BookingOrchestrator for TLC.                               *)
(***************************************************************************)
EXTENDS BookingOrchestrator, TLC

MCSymmetry == Permutations(Sagas) \cup Permutations(Cancels)

\* The sagas are alike.  With one cancellation it is therefore enough that it
\* names one of them; every other behaviour is one of these with the sagas'
\* names exchanged, and no property tells the names apart.  (SYMMETRY would not
\* be sound for the liveness properties.)
MCOneIsCancelled == \A x \in Cancels : cancelOf[x] = CHOOSE i \in Sagas : TRUE

MCInit == Init /\ MCOneIsCancelled

MCFairSpec == MCInit /\ [][Next]_vars /\ Fairness

=============================================================================
