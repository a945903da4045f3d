---------------------------- MODULE MCCatalogue -----------------------------
(***************************************************************************)
(* Instances of Catalogue for TLC.                                         *)
(***************************************************************************)
EXTENDS Catalogue, TLC

CONSTANTS q1

Bus(seats, total) ==
    [kind |-> "bus", complete |-> TRUE, number |-> "KA01", seats |-> seats,
     totalSeats |-> total]

Route(stops) ==
    [kind |-> "route", complete |-> TRUE, name |-> "Coast", stops |-> stops]

Trip(departure) ==
    [kind |-> "trip", complete |-> TRUE, route |-> "Coast", bus |-> q1,
     departure |-> departure]

\* A good bus, one with a seat twice, one with a seat too few; a good route and
\* one with a single stop; trips at the last and the first instant of a day of
\* three instants, and one without a time; a booking that names another user.
MCBodies ==
    {Bus(<<"1A", "1B">>, 2), Bus(<<"1A", "1A">>, 2), Bus(<<"1A">>, 2),
     Route(<<"A", "B">>), Route(<<"A">>),
     Trip(2), Trip(3), [Trip(3) EXCEPT !.complete = FALSE],
     [kind |-> "booking", complete |-> TRUE, userId |-> "another"]}

OneSecond == [value |-> 1, unit |-> "s"]
TwoSeconds == [value |-> 2, unit |-> "s"]

MCSymmetry == Permutations(Registrations) \cup Permutations(Passwords)

=============================================================================
