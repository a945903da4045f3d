------------------------ MODULE ServiceProcessProofs ------------------------
(***************************************************************************)
(* Proofs about ServiceProcess for any number of requests and signals.     *)
(***************************************************************************)
EXTENDS ServiceProcess, TLAPS

LEMMA DepsAreDependencies ==
    ASSUME deps \in Services
    PROVE  /\ Len(deps) \in Nat
           /\ \A n \in 1 .. Len(deps) : deps[n] \in Dependencies
           /\ \A n \in 2 .. Len(deps) : deps[n] # "prisma"
BY DEF Services, ApiGateway, UserService, RouteService, TripService, PaymentService,
   BookingService, BookingOrchestrator, Dependencies

LEMMA TypeInit == Init => TypeOK
BY DepsAreDependencies DEF Init, TypeOK, Phase, Closer, Handler

LEMMA ExitTypes ==
    ASSUME TypeOK, Exit
    PROVE  phase' \in Phase /\ handler' \in [Requests -> Handler]
BY DEF TypeOK, Exit, Phase, Handler

LEMMA TypeStep == TypeOK /\ [Next]_vars => TypeOK'
<1> SUFFICES ASSUME TypeOK, [Next]_vars PROVE TypeOK'
  OBVIOUS
<1> USE DEF TypeOK, processVars, requestVars, shutdownVars
<1>0. /\ Len(deps) \in Nat
      /\ \A n \in 1 .. Len(deps) : deps[n] \in Dependencies
  BY DepsAreDependencies
<1>1. CASE Connect \/ ConnectFails \/ Listen \/ RunsDry \/ Reconnect
  BY <1>0, <1>1, ExitTypes
     DEF Connect, ConnectFails, Listen, RunsDry, Reconnect, Phase
<1>2. ASSUME NEW h \in Requests, Accept(h) \/ CallerLeaves(h) \/ HandlerEnds(h)
      PROVE  TypeOK'
  BY <1>2 DEF Accept, CallerLeaves, HandlerEnds, Served, Handler
<1>3. ASSUME NEW s \in Signals, Signal(s) \/ ShutdownStep(s) PROVE TypeOK'
  <2>1. CASE Signal(s) \/ Drained(s) \/ ExitProcess(s)
    BY <2>1, ExitTypes DEF Signal, Drained, ExitProcess, Phase, Closer
  <2>2. CASE Disconnect(s) \/ DisconnectFails(s)
    <3>1. place' \in [Signals -> 1 .. Len(deps) + 1]
      BY <1>0, <2>2 DEF Disconnect, DisconnectFails, Disconnecting
    <3>2. /\ conn' \in [Dependencies -> {"none", "open", "closed"}]
          /\ phase' \in Phase /\ handler' \in [Requests -> Handler]
      BY <1>0, <2>2, ExitTypes DEF Disconnect, DisconnectFails, Disconnecting
    <3> QED BY <2>2, <3>1, <3>2 DEF Disconnect, DisconnectFails, Disconnecting
  <2> QED BY <1>3, <2>1, <2>2 DEF ShutdownStep
<1>4. CASE Finished \/ UNCHANGED vars
  BY <1>4 DEF Finished, vars
<1> QED BY <1>1, <1>2, <1>3, <1>4 DEF Next

\* The process keeps to its phases, in every behaviour.
THEOREM TypeCorrect == Spec => []TypeOK
BY TypeInit, TypeStep, PTL DEF Spec

----------------------------------------------------------------------------
(* The invariant: nothing is disconnected, and nobody exits, before the     *)
(* server has seen its last connection; and none opens after that.         *)

\* A process that starts serves nobody; one that got past its first dependency
\* has it, if that is the database.
StartingInv ==
    /\ phase = "starting" => \A h \in Requests : handler[h] = "new"
    /\ phase # "exited" /\ (phase = "starting" => next > 1)
       /\ deps # <<>> /\ deps[1] = "prisma" => conn["prisma"] # "none"

\* Some shutdown was called back, if anything is disconnected.
ShutdownInv ==
    /\ (\E s \in Signals : closer[s] # "none") => phase \in {"closing", "exited"}
    /\ (\E s \in Signals : closer[s] = "disconnecting") => Served = {}
    /\ (\E d \in Dependencies : conn[d] = "closed") =>
          \E s \in Signals : closer[s] = "disconnecting"
    /\ phase = "deaf" => \A h \in Requests : handler[h] = "new"
    /\ phase = "exited" => Served = {}

ProcessInv == TypeOK /\ StartingInv /\ ShutdownInv /\ ServedToTheEnd

LEMMA ProcessInvInit == Init => ProcessInv
BY TypeInit DEF Init, ProcessInv, StartingInv, ShutdownInv, ServedToTheEnd, Served,
   Dependencies

\* Exiting interrupts nobody who waits, if nobody does.
LEMMA ExitHarmless ==
    ASSUME ProcessInv, TypeOK', Served = {}, Exit,
           UNCHANGED <<deps, next, conn, closer, gone>>
    PROVE  ProcessInv'
BY DEF ProcessInv, TypeOK, StartingInv, ShutdownInv, ServedToTheEnd, Served, Exit

LEMMA ProcessInvStep == ProcessInv /\ [Next]_vars => ProcessInv'
<1> SUFFICES ASSUME ProcessInv, [Next]_vars PROVE ProcessInv'
  OBVIOUS
<1> USE DEF processVars, requestVars, shutdownVars
<1>1. TypeOK /\ TypeOK'
  BY TypeStep DEF ProcessInv
<1>2. /\ Len(deps) \in Nat
      /\ \A n \in 1 .. Len(deps) : deps[n] \in Dependencies
      /\ \A n \in 2 .. Len(deps) : deps[n] # "prisma"
  BY <1>1, DepsAreDependencies DEF TypeOK
<1>3. CASE Connect
  <2>1. phase = "starting" /\ next \in 1 .. Len(deps) /\ next' = next + 1
    BY <1>1, <1>3 DEF Connect, TypeOK
  <2>2. /\ \A d \in Dependencies : conn'[d] # "closed" \/ conn'[d] = conn[d]
        /\ conn'["prisma"] # "none" \/ conn'["prisma"] = conn["prisma"]
        /\ next = 1 /\ deps[1] = "prisma" => conn'["prisma"] # "none"
    BY <1>1, <1>2, <1>3, <2>1 DEF Connect, TypeOK, Dependencies
  <2> QED BY <1>1, <1>3, <2>1, <2>2
          DEF Connect, ProcessInv, TypeOK, StartingInv, ShutdownInv, ServedToTheEnd, Served
<1>4. CASE ConnectFails
  <2>1. phase = "starting" /\ next \in 1 .. Len(deps) /\ Served = {}
    BY <1>1, <1>4 DEF ConnectFails, TypeOK, ProcessInv, StartingInv, Served
  <2>2. CASE deps[next] = "prisma"
    BY <1>1, <1>4, <2>1, <2>2, ExitHarmless DEF ConnectFails
  <2>3. CASE deps[next] # "prisma"
    <3>1. deps[1] = "prisma" => next # 1
      BY <2>3
    <3> QED BY <1>1, <1>4, <2>1, <2>3, <3>1
            DEF ConnectFails, ProcessInv, TypeOK, StartingInv, ShutdownInv,
                ServedToTheEnd, Served
  <2> QED BY <2>2, <2>3
<1>5. CASE Listen
  <2>1. deps # <<>> => next > 1
    BY <1>1, <1>2, <1>5 DEF Listen, TypeOK, Services, ApiGateway, UserService,
       RouteService, TripService, PaymentService, BookingService, BookingOrchestrator
  <2> QED BY <1>1, <1>5, <2>1
          DEF Listen, ProcessInv, StartingInv, ShutdownInv, ServedToTheEnd, Served
<1>6. CASE RunsDry
  <2>1. Served = {}
    BY <1>6 DEF RunsDry, ProcessInv, ShutdownInv, Served
  <2> QED BY <1>1, <1>6, <2>1, ExitHarmless DEF RunsDry
<1>7. CASE Reconnect
  <2>1. /\ conn'["prisma"] = conn["prisma"]
        /\ \A d \in Dependencies : conn'[d] # "closed" \/ conn'[d] = conn[d]
    BY <1>1, <1>7 DEF Reconnect, TypeOK, Dependencies
  <2> QED BY <1>1, <1>7, <2>1
          DEF Reconnect, ProcessInv, StartingInv, ShutdownInv, ServedToTheEnd, Served
<1>8. ASSUME NEW h \in Requests, Accept(h) PROVE ProcessInv'
  <2>1. \A d \in Dependencies : conn[d] # "closed"
    BY <1>8 DEF Accept, ProcessInv, ShutdownInv
  <2>2. deps # <<>> /\ deps[1] = "prisma" => conn["prisma"] = "open"
    BY <1>1, <1>8, <2>1 DEF Accept, ProcessInv, StartingInv, TypeOK, Dependencies
  <2> QED BY <1>1, <1>8, <2>1, <2>2
          DEF Accept, ProcessInv, TypeOK, StartingInv, ShutdownInv, ServedToTheEnd, Served
<1>9. ASSUME NEW h \in Requests, CallerLeaves(h) PROVE ProcessInv'
  BY <1>1, <1>9
     DEF CallerLeaves, ProcessInv, StartingInv, ShutdownInv, ServedToTheEnd, Served
<1>10. ASSUME NEW h \in Requests, HandlerEnds(h) PROVE ProcessInv'
  <2>1. handler'[h] = "failed" => h \notin Served
    BY <1>1, <1>10 DEF HandlerEnds, ProcessInv, ServedToTheEnd, TypeOK
  <2>2. /\ \A g \in Requests \ {h} : handler'[g] = handler[g]
        /\ handler[h] = "running" /\ handler'[h] \in {"done", "failed"}
        /\ UNCHANGED <<deps, phase, next, conn, closer, gone>>
    BY <1>1, <1>10 DEF HandlerEnds, TypeOK
  <2> QED BY <1>1, <2>1, <2>2
          DEF ProcessInv, StartingInv, ShutdownInv, ServedToTheEnd, Served
<1>11. ASSUME NEW s \in Signals, Signal(s) PROVE ProcessInv'
  <2>1. CASE phase = "starting"
    <3>1. Served = {}
      BY <2>1 DEF ProcessInv, StartingInv, Served
    <3> QED BY <1>1, <1>11, <2>1, <3>1, ExitHarmless DEF Signal
  <2>2. CASE phase # "starting"
    <3>1. /\ closer[s] = "none" /\ closer' = [closer EXCEPT ![s] = "waiting"]
          /\ phase' = "closing" /\ phase # "exited"
          /\ UNCHANGED <<deps, next, conn, handler, gone>>
      BY <1>11, <2>2 DEF Signal
    <3>2. \A t \in Signals : closer'[t] = "disconnecting" <=> closer[t] = "disconnecting"
      BY <1>1, <3>1 DEF TypeOK
    <3> QED BY <1>1, <2>2, <3>1, <3>2
            DEF ProcessInv, StartingInv, ShutdownInv, ServedToTheEnd, Served
  <2> QED BY <2>1, <2>2
<1>12. ASSUME NEW s \in Signals, Drained(s) PROVE ProcessInv'
  <2>1. /\ Served = {} /\ phase = "closing"
        /\ \A t \in Signals : closer'[t] = closer[t] \/ t = s
        /\ closer'[s] = "disconnecting"
        /\ UNCHANGED <<deps, phase, next, conn, handler, gone>>
    BY <1>1, <1>12 DEF Drained, TypeOK
  <2> QED BY <1>1, <2>1
          DEF ProcessInv, StartingInv, ShutdownInv, ServedToTheEnd, Served
<1>13. ASSUME NEW s \in Signals, Disconnect(s) \/ DisconnectFails(s)
       PROVE  ProcessInv'
  <2>1. closer[s] = "disconnecting" /\ Served = {} /\ phase = "closing"
    BY <1>13 DEF Disconnect, DisconnectFails, Disconnecting, ProcessInv, ShutdownInv
  <2>2. CASE DisconnectFails(s) /\ deps[place[s]] = "prisma"
    BY <1>1, <2>1, <2>2, ExitHarmless DEF DisconnectFails, Disconnecting
  <2>3. CASE ~(DisconnectFails(s) /\ deps[place[s]] = "prisma")
    <3>1. UNCHANGED <<deps, phase, next, closer, handler, gone>>
      BY <1>13, <2>3 DEF Disconnect, DisconnectFails, Disconnecting
    <3>2. conn'["prisma"] \in {conn["prisma"], "closed"}
      BY <1>1, <1>13, <2>3 DEF Disconnect, DisconnectFails, TypeOK, Dependencies
    <3> QED BY <1>1, <2>1, <3>1, <3>2
            DEF ProcessInv, StartingInv, ShutdownInv, ServedToTheEnd, Served
  <2> QED BY <2>2, <2>3
<1>14. ASSUME NEW s \in Signals, ExitProcess(s) PROVE ProcessInv'
  <2>1. Served = {}
    BY <1>14 DEF ExitProcess, ProcessInv, ShutdownInv
  <2> QED BY <1>1, <1>14, <2>1, ExitHarmless DEF ExitProcess
<1>15. CASE Finished \/ UNCHANGED vars
  BY <1>1, <1>15 DEF Finished, vars, ProcessInv, StartingInv, ShutdownInv,
     ServedToTheEnd, Served
<1> QED BY <1>3, <1>4, <1>5, <1>6, <1>7, <1>8, <1>9, <1>10, <1>11, <1>12, <1>13,
       <1>14, <1>15 DEF Next, ShutdownStep

\* However many signals arrive and whenever, a caller that waits is served to the
\* end by a handler with its database.
THEOREM ServedSafe == Spec => []ServedToTheEnd
<1>1. ProcessInv => ServedToTheEnd
  BY DEF ProcessInv
<1> QED BY <1>1, ProcessInvInit, ProcessInvStep, PTL DEF Spec

----------------------------------------------------------------------------
(* Progress.  That a signal ends the process needs fairness (ShutdownEnds); *)
(* that nothing is ever added to what it waits for does not.               *)

\* Nobody new is served, and no shutdown takes back a step.
Shuts(s) ==
    closer[s] # "none" =>
        /\ phase \in {"closing", "exited"} /\ phase' \in {phase, "exited"}
        /\ Served' \subseteq Served
        /\ closer'[s] \in {closer[s], "disconnecting"}
        /\ place'[s] \in {place[s], place[s] + 1}

LEMMA ShutdownMoves == ProcessInv /\ [Next]_vars => \A s \in Signals : Shuts(s)
<1> SUFFICES ASSUME ProcessInv, [Next]_vars, NEW s \in Signals, closer[s] # "none"
             PROVE  Shuts(s)
  BY DEF Shuts
<1> USE DEF Shuts, ProcessInv, ShutdownInv, TypeOK, processVars, requestVars, shutdownVars
<1>1. phase \in {"closing", "exited"} /\ place[s] \in Nat
  OBVIOUS
<1>2. CASE Connect \/ ConnectFails \/ Listen \/ RunsDry
  BY <1>1, <1>2 DEF Connect, ConnectFails, Listen, RunsDry
<1>3. CASE Reconnect
  BY <1>1, <1>3 DEF Reconnect, Served
<1>4. ASSUME NEW h \in Requests, Accept(h) \/ CallerLeaves(h) \/ HandlerEnds(h)
      PROVE  Shuts(s)
  BY <1>1, <1>4 DEF Accept, CallerLeaves, HandlerEnds, Served
<1>5. ASSUME NEW t \in Signals, Signal(t) PROVE Shuts(s)
  BY <1>1, <1>5 DEF Signal, Served
<1>6. ASSUME NEW t \in Signals, ShutdownStep(t) PROVE Shuts(s)
  <2>1. CASE Drained(t)
    BY <1>1, <2>1 DEF Drained, Served
  <2>2. CASE Disconnect(t)
    BY <1>1, <2>2 DEF Disconnect, Disconnecting, Served
  <2>3. CASE DisconnectFails(t)
    BY <1>1, <2>3 DEF DisconnectFails, Disconnecting, Exit, Served
  <2>4. CASE ExitProcess(t)
    BY <1>1, <2>4 DEF ExitProcess, Exit, Served
  <2> QED BY <1>6, <2>1, <2>2, <2>3, <2>4 DEF ShutdownStep
<1>7. CASE Finished \/ UNCHANGED vars
  BY <1>1, <1>7 DEF Finished, vars, Served
<1> QED BY <1>2, <1>3, <1>4, <1>5, <1>6, <1>7 DEF Next

\* From a signal on, the connections that server.close waits for only become fewer,
\* and each of its callbacks only goes forward: a second signal, a reconnection of
\* Redis or Kafka or a late handler sets none of them back.
THEOREM ShutdownGoesForward == Spec => [][\A s \in Signals : Shuts(s)]_vars
<1>1. ProcessInv /\ [Next]_vars => [\A s \in Signals : Shuts(s)]_vars
  BY ShutdownMoves
<1> QED BY <1>1, ProcessInvInit, ProcessInvStep, PTL DEF Spec
=============================================================================
