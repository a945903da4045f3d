--------------------------- MODULE SeatInventory ---------------------------
(***************************************************************************)
(* What the booking service promises to whoever calls it, row by row and   *)
(* without its lock, its query and its clock: a row is claimed while no    *)
(* clashing row blocks the seat, a confirm takes effect on a row it found  *)
(* PENDING and accepted in time, however late it does, and every claim or  *)
(* confirm made without a sound check is on record in `flawed`.            *)
(* BookingService implements this module; BookingOrchestrator's view of    *)
(* the service is an instance of it.                                       *)
(***************************************************************************)
CONSTANT Rows

VARIABLES
    clash,      \* pairs of rows that want a common leg of one seat
    status,     \* status[b]: status of row b
    lapsed,     \* of the rows whose deadline still counts, those that reached it
    overdue,    \* those that are past it: a confirm does not accept them
    seen,       \* the rows a confirm in flight has found PENDING
    accepted,   \* the rows a confirm in flight has accepted
    flawed      \* history: rows inserted or confirmed without a sound check

deadlines == <<lapsed, overdue>>
confirms  == <<seen, accepted>>
vars == <<clash, status, deadlines, confirms, flawed>>

Present(b) == status[b] # "ABSENT"

Blocks(b) == status[b] = "CONFIRMED" \/ (status[b] = "PENDING" /\ b \notin lapsed)

Blockers(b) == {a \in Rows : <<a, b>> \in clash /\ Blocks(a)}

Init ==
    /\ clash \subseteq Rows \X Rows
    /\ \A pair \in clash : pair[1] # pair[2] /\ <<pair[2], pair[1]>> \in clash
    /\ status = [b \in Rows |-> "ABSENT"]
    /\ lapsed = {} /\ overdue = {}
    /\ seen = {} /\ accepted = {}
    /\ flawed = {}

\* The rows whose deadline somebody will still look at; others are forgotten.
Timed(b) == status[b] = "PENDING" \/ b \in seen

KeepDeadlines ==
    /\ lapsed' = {b \in lapsed : Timed(b)'}
    /\ overdue' = {b \in overdue : Timed(b)'}

\* Of the rows in R some more reach their deadline, and some of these pass it.
Age(R) ==
    \E due \in SUBSET (R \ lapsed) :
        /\ lapsed' = lapsed \cup due
        /\ \E late \in SUBSET ((R \cap lapsed') \ overdue) :
              overdue' = overdue \cup late

\* A row is inserted; its hold may be so short that it is over already.
Claim(b) ==
    /\ ~Present(b)
    /\ status' = [status EXCEPT ![b] = "PENDING"]
    /\ Age({b})
    /\ \/ Blockers(b) \subseteq flawed /\ flawed' = flawed
       \/ flawed' = flawed \cup {b}
    /\ UNCHANGED <<clash, confirms>>

\* A confirm finds the row PENDING.
Find(b) ==
    /\ status[b] = "PENDING"
    /\ seen' = seen \cup {b}
    /\ UNCHANGED <<clash, status, deadlines, accepted, flawed>>

\* It accepts the row, whatever became of it; another confirm may be at it too.
Accept(b) ==
    /\ b \in seen \ overdue
    /\ seen' \in {seen, seen \ {b}}
    /\ accepted' = accepted \cup {b}
    /\ UNCHANGED <<clash, status, flawed>>
    /\ KeepDeadlines

\* An accepted row is confirmed, whatever it is by now; one that no longer
\* blocks its seat is flawed from here on.
Confirm(b) ==
    /\ b \in accepted
    /\ status' = [status EXCEPT ![b] = "CONFIRMED"]
    /\ accepted' \in {accepted, accepted \ {b}}
    /\ flawed' = IF Blocks(b) THEN flawed ELSE flawed \cup {b}
    /\ UNCHANGED <<clash, seen>>
    /\ KeepDeadlines

\* A row found PENDING is past its deadline: it is expired, whatever it is by now.
Expire(b) ==
    /\ b \in seen \cap overdue
    /\ status' = [status EXCEPT ![b] = "EXPIRED"]
    /\ seen' \in {seen, seen \ {b}}
    /\ UNCHANGED <<clash, accepted, flawed>>
    /\ KeepDeadlines

\* A row is released, whatever it was.
Release(b) ==
    /\ Present(b)
    /\ \E st \in {"FAILED", "CANCELLED"} : status' = [status EXCEPT ![b] = st]
    /\ UNCHANGED <<clash, confirms, flawed>>
    /\ KeepDeadlines

\* Confirms fail.
Forget ==
    /\ seen' \subseteq seen
    /\ accepted' \subseteq accepted
    /\ UNCHANGED <<clash, status, flawed>>
    /\ KeepDeadlines

\* Deadlines pass.
Lapse ==
    /\ Age({b \in Rows : Timed(b)})
    /\ UNCHANGED <<clash, status, confirms, flawed>>

Next ==
    \/ Forget \/ Lapse
    \/ \E b \in Rows :
          \/ Claim(b) \/ Find(b) \/ Accept(b) \/ Confirm(b) \/ Expire(b)
          \/ Release(b)

Spec == Init /\ [][Next]_vars

----------------------------------------------------------------------------
\* No two rows that share a leg block the seat, unless one of them is flawed:
\* what the sagas may rely on.
Exclusive ==
    \A a, b \in Rows :
        <<a, b>> \in clash /\ Blocks(a) /\ Blocks(b) => {a, b} \cap flawed # {}
=============================================================================
