-------------------------- MODULE MCBookingService --------------------------
(***************************************************************************)
(* Instances of BookingService for TLC.                                    *)
(***************************************************************************)
EXTENDS BookingService, TLC

\* Stops 1 to 3: a short ride, the whole route, the ride after the first stop,
\* and a request that does not go forward.
MCSegments == {<<1, 2>>, <<1, 3>>, <<2, 2>>}

\* Everybody wants the same ride.
MCOneRide == {<<1, 2>>}

MCSymmetry == Permutations(Calls) \cup Permutations(Confirms)

=============================================================================
