------------------------------ MODULE SeatLock ------------------------------
(***************************************************************************)
(* The per-seat Redis lock of booking-service/src/services/lock.service.ts *)
(* and the clock its TTL is measured on.  acquireLock is SET key uuid PX   *)
(* ttl NX; releaseLock is a script that deletes the key only while it      *)
(* still holds the caller's uuid.  A call's uuid is fresh, so the call     *)
(* itself stands for it.  Redis drops a key by itself when its TTL is      *)
(* over: there is no expiry action, a lapsed entry just no longer counts.  *)
(* One clock serves Redis, the service and the database's rows.            *)
(***************************************************************************)
EXTENDS Naturals

CONSTANTS
    Seats,      \* the (trip, seat) pairs, each with its own lock key
    Calls,      \* createHold calls, each with its own lock value
    NoCall,     \* the key is absent
    LockTTL,    \* env.LOCK_TTL_MS in clock units
    MaxTime     \* bound: the clock stops here

ASSUME SeatLockAssumption ==
    /\ NoCall \notin Calls
    /\ LockTTL \in Nat
    /\ MaxTime \in Nat

VARIABLES
    now,        \* the clock
    lock,       \* lock[s]: the call whose value was last set under s's key
    lockUntil   \* lockUntil[c]: when the value set by c expires

lockVars == <<lock, lockUntil>>

LockTypeOK ==
    /\ now \in Nat
    /\ lock \in [Seats -> Calls \cup {NoCall}]
    /\ lockUntil \in [Calls -> Nat]

LockInit ==
    /\ now = 0
    /\ lock = [s \in Seats |-> NoCall]
    /\ lockUntil = [c \in Calls |-> 0]

Holds(c, s) == lock[s] = c /\ now < lockUntil[c]

Free(s) == \A c \in Calls : ~Holds(c, s)

\* Mutant: SET without NX.
SetAlways(c, s) ==
    /\ lock' = [lock EXCEPT ![s] = c]
    /\ lockUntil' = [lockUntil EXCEPT ![c] = now + LockTTL]

\* Mutant: SET without PX.
SetNoExpiry(c, s) ==
    /\ Free(s)
    /\ lock' = [lock EXCEPT ![s] = c]
    /\ lockUntil' = [lockUntil EXCEPT ![c] = MaxTime + 1]

\* Redis executes acquireLock's SET ... NX and the key was absent.
SetNX(c, s) ==
    /\ Free(s)
    /\ lock' = [lock EXCEPT ![s] = c]
    /\ lockUntil' = [lockUntil EXCEPT ![c] = now + LockTTL]

\* Mutant: a plain DEL that does not compare the value.
DeleteAny(c, s) ==
    /\ lock' = [lock EXCEPT ![s] = NoCall]
    /\ lockUntil' = [lockUntil EXCEPT ![c] = 0]

\* Redis executes RELEASE_LOCK_LUA.
CheckAndDelete(c, s) ==
    \/ /\ Holds(c, s)
       /\ lock' = [lock EXCEPT ![s] = NoCall]
       /\ lockUntil' = [lockUntil EXCEPT ![c] = 0]
    \/ /\ ~Holds(c, s)
       /\ UNCHANGED lockVars

\* Time passes while calls are in flight.
Tick == now < MaxTime /\ now' = now + 1
=============================================================================
