--------------------------- MODULE ServiceProcess ---------------------------
(***************************************************************************)
(* server.ts of every service: the life of its process.                    *)
(*                                                                         *)
(* A process connects its dependencies one after the other, listens, and   *)
(* serves.  On SIGINT or SIGTERM it stops listening, waits until no        *)
(* connection is open, disconnects in the same order and exits.  What the  *)
(* server waits for is connections, not handlers: the handler of a caller  *)
(* that gave up goes on without one.  A connection that is kept alive      *)
(* counts as one per request.  A kill is a Crash action of other modules.  *)
(***************************************************************************)
EXTENDS Naturals, Sequences

CONSTANTS
    Requests,       \* requests to this process
    Signals         \* the SIGINT and SIGTERM it is sent

VARIABLES
    deps,           \* what this service connects, in that order
    phase,          \* of the process
    next,           \* the place in deps of the next one to connect
    conn,           \* conn[d]: its connection to d
    closer,         \* closer[s]: how far the shutdown of signal s is
    place,          \* place[s]: the place in deps of what it disconnects next
    handler,        \* handler[h]: where the handler of request h is
    gone            \* the requests whose caller closed the connection

processVars == <<deps, phase, next, conn>>
requestVars == <<handler, gone>>
shutdownVars == <<closer, place>>
vars == <<processVars, shutdownVars, requestVars>>

----------------------------------------------------------------------------
(* startServer of each service *)

ApiGateway == <<>>

UserService == <<"prisma">>

RouteService == <<"prisma">>

TripService == <<"prisma">>

PaymentService == <<"prisma">>

BookingService == <<"prisma", "redis">>

BookingOrchestrator == <<"kafka">>

Services == {ApiGateway, UserService, RouteService, TripService, PaymentService,
             BookingService, BookingOrchestrator}

Dependencies == {"prisma", "redis", "kafka"}

\* deaf: the port was taken.  closing: server.close was called.
Phase == {"starting", "listening", "deaf", "closing", "exited"}

\* waiting: server.close has not called back.
Closer == {"none", "waiting", "disconnecting"}

\* failed: it found a dependency closed.  cut: the process ended under it.
Handler == {"new", "running", "done", "failed", "cut"}

TypeOK ==
    /\ deps \in Services
    /\ phase \in Phase
    /\ next \in 1 .. Len(deps) + 1
    /\ conn \in [Dependencies -> {"none", "open", "closed"}]
    /\ closer \in [Signals -> Closer]
    /\ place \in [Signals -> 1 .. Len(deps) + 1]
    /\ handler \in [Requests -> Handler]
    /\ gone \subseteq Requests

Init ==
    /\ deps \in Services
    /\ phase = "starting"
    /\ next = 1
    /\ conn = [d \in Dependencies |-> "none"]
    /\ closer = [s \in Signals |-> "none"]
    /\ place = [s \in Signals |-> 1]
    /\ handler = [h \in Requests |-> "new"]
    /\ gone = {}

\* The requests whose connection is open.
Served == {h \in Requests : handler[h] = "running" /\ h \notin gone}

\* Mutant: handlers are not where the process keeps its work.
ExitAborts ==
    /\ phase' = "exited"
    /\ handler' = [h \in Requests |->
                      IF handler[h] = "running" THEN "aborted" ELSE handler[h]]

\* process.exit, and the default of a signal.
Exit ==
    /\ phase' = "exited"
    /\ handler' = [h \in Requests |->
                      IF handler[h] = "running" THEN "cut" ELSE handler[h]]

----------------------------------------------------------------------------
(* Starting *)

Connect ==
    /\ phase = "starting" /\ next <= Len(deps)
    /\ conn' = [conn EXCEPT ![deps[next]] = "open"]
    /\ next' = next + 1
    /\ UNCHANGED <<deps, phase, shutdownVars, requestVars>>

\* Mutant: a service comes up without its database.
TolerateAnyFailure ==
    /\ phase = "starting" /\ next <= Len(deps)
    /\ next' = next + 1
    /\ UNCHANGED <<deps, phase, conn, shutdownVars, requestVars>>

\* Without Prisma the process exits; without Redis or Kafka it goes on.
ConnectFails ==
    /\ phase = "starting" /\ next <= Len(deps)
    /\ IF deps[next] = "prisma" THEN Exit /\ UNCHANGED next
                                ELSE next' = next + 1 /\ UNCHANGED <<phase, handler>>
    /\ UNCHANGED <<deps, conn, shutdownVars, gone>>

\* app.listen hands an error, too, to the callback that logs success.
Listen ==
    /\ phase = "starting" /\ next > Len(deps)
    /\ phase' \in {"listening", "deaf"}
    /\ UNCHANGED <<deps, next, conn, shutdownVars, requestVars>>

\* Nothing keeps a process alive that has no server and no connection in use.
RunsDry ==
    /\ phase = "deaf"
    /\ Exit
    /\ UNCHANGED <<deps, next, conn, shutdownVars, gone>>

\* ioredis reconnects by itself, the Kafka producer with the next publish of a
\* handler, be it after its disconnection.
Reconnect ==
    /\ phase \in {"listening", "closing"}
    /\ \E n \in 1 .. Len(deps) :
          /\ \/ deps[n] = "redis" /\ conn["redis"] = "none"
             \/ /\ deps[n] = "kafka" /\ conn["kafka"] # "open"
                /\ \E h \in Requests : handler[h] = "running"
          /\ conn' = [conn EXCEPT ![deps[n]] = "open"]
    /\ UNCHANGED <<deps, phase, next, shutdownVars, requestVars>>

----------------------------------------------------------------------------
(* Serving *)

Accept(h) ==
    /\ phase = "listening"
    /\ handler[h] = "new"
    /\ handler' = [handler EXCEPT ![h] = "running"]
    /\ UNCHANGED <<processVars, shutdownVars, gone>>

\* The caller's timeout (5 s in the orchestrator, 30 s in the gateway), or the
\* client is gone; nothing tells the handler.
CallerLeaves(h) ==
    /\ h \in Served
    /\ gone' = gone \cup {h}
    /\ UNCHANGED <<processVars, shutdownVars, handler>>

\* Once a connection is closed a handler that still needs it fails.
HandlerEnds(h) ==
    /\ handler[h] = "running" /\ phase # "exited"
    /\ \E end \in IF \E d \in Dependencies : conn[d] = "closed"
                  THEN {"done", "failed"} ELSE {"done"} :
          handler' = [handler EXCEPT ![h] = end]
    /\ UNCHANGED <<processVars, shutdownVars, gone>>

----------------------------------------------------------------------------
(* shutdown *)

\* Until the server listens the signal has its default effect; afterwards each
\* one calls server.close, with a callback of its own.
Signal(s) ==
    /\ closer[s] = "none"
    /\ \/ /\ phase = "starting"
          /\ Exit
          /\ UNCHANGED closer
       \/ /\ phase \in {"listening", "deaf", "closing"}
          /\ phase' = "closing"
          /\ closer' = [closer EXCEPT ![s] = "waiting"]
          /\ UNCHANGED handler
    /\ UNCHANGED <<deps, next, conn, place, gone>>

\* Mutant: shutdown does not leave the disconnecting to the callback.
CloseAtOnce(s) ==
    /\ phase = "closing" /\ closer[s] = "waiting"
    /\ closer' = [closer EXCEPT ![s] = "disconnecting"]
    /\ UNCHANGED <<processVars, place, requestVars>>

\* No connection is open: server.close calls back.
Drained(s) ==
    /\ phase = "closing" /\ closer[s] = "waiting"
    /\ Served = {}
    /\ closer' = [closer EXCEPT ![s] = "disconnecting"]
    /\ UNCHANGED <<processVars, place, requestVars>>

Disconnecting(s) ==
    /\ phase = "closing"
    /\ closer[s] = "disconnecting" /\ place[s] <= Len(deps)
    /\ place' = [place EXCEPT ![s] = @ + 1]

Disconnect(s) ==
    /\ Disconnecting(s)
    /\ LET d == deps[place[s]]
       IN conn' = IF conn[d] = "open" THEN [conn EXCEPT ![d] = "closed"] ELSE conn
    /\ UNCHANGED <<deps, phase, next, closer, requestVars>>

\* A failure is logged; Prisma's ends the process.
DisconnectFails(s) ==
    /\ Disconnecting(s)
    /\ IF deps[place[s]] = "prisma" THEN Exit ELSE UNCHANGED <<phase, handler>>
    /\ UNCHANGED <<deps, next, conn, closer, gone>>

\* Mutant: process.exit is forgotten.
Linger(s) ==
    /\ phase = "closing"
    /\ closer[s] = "disconnecting" /\ place[s] > Len(deps)
    /\ UNCHANGED vars

ExitProcess(s) ==
    /\ phase = "closing"
    /\ closer[s] = "disconnecting" /\ place[s] > Len(deps)
    /\ Exit
    /\ UNCHANGED <<deps, next, conn, shutdownVars, gone>>

ShutdownStep(s) == Drained(s) \/ Disconnect(s) \/ DisconnectFails(s) \/ ExitProcess(s)

Finished == phase = "exited" /\ UNCHANGED vars

Next ==
    \/ Connect \/ ConnectFails \/ Listen \/ RunsDry \/ Reconnect
    \/ \E h \in Requests : Accept(h) \/ CallerLeaves(h) \/ HandlerEnds(h)
    \/ \E s \in Signals : Signal(s) \/ ShutdownStep(s)
    \/ Finished

Spec == Init /\ [][Next]_vars

\* A caller is answered or gives up, and what shutdown awaits ends.
Fairness ==
    /\ \A h \in Requests : WF_vars(CallerLeaves(h))
    /\ \A s \in Signals : WF_vars(ShutdownStep(s))

FairSpec == Spec /\ Fairness

----------------------------------------------------------------------------
(* Properties *)

\* Whoever waits for an answer is served to the end, by handlers that have their
\* database and lose nothing they use: a shutdown, or two at once, interrupts only
\* handlers whose caller had left (server.ts:24-28).  Those it does interrupt: the
\* effects of a handler that answers nobody may stop half-way.
ServedToTheEnd ==
    \A h \in Requests :
        /\ handler[h] \in {"failed", "cut"} => h \in gone
        /\ h \in Served =>
              /\ \A d \in Dependencies : conn[d] # "closed"
              /\ deps # <<>> /\ deps[1] = "prisma" => conn["prisma"] = "open"

\* A signal ends the process, whatever it was doing: no handler that never ends,
\* no dependency that cannot be disconnected and no second signal keeps it.
ShutdownEnds == (\E s \in Signals : closer[s] # "none") ~> phase = "exited"
=============================================================================
