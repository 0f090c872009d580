----------------------- MODULE SubscriptionAdmission -----------------------
(***************************************************************************)
(* internal/db/subscription_admission.go with the limiter of               *)
(* internal/events/subscribe.go: an agent key may hold two subscription    *)
(* streams over all replicas.  Each replica has one dedicated session that *)
(* holds one PostgreSQL advisory lock per lease; the session opens with    *)
(* the first lease, closes with the last, and takes every lease with it    *)
(* when it is lost.  Every operation runs under the replica's mutex, which *)
(* AdmitSubscription keeps through its queries.                            *)
(*                                                                         *)
(* PostgreSQL is external: it may end a session at any time, and ends a    *)
(* session the client closed some time later.                              *)
(***************************************************************************)
EXTENDS Integers, FiniteSets

CONSTANTS
  Replicas, Keys, Streams,
  Home,       \* the replica a stream is connected to
  KeyOf,      \* the agent key of a stream
  Sessions,   \* server sessions that exist at one time
  None,
  MaxStreams  \* streams of one replica (64)

ASSUME HomeOk == Home \in [Streams -> Replicas] /\ KeyOf \in [Streams -> Keys]
ASSUME NoneIsNone == None \notin Sessions \cup Streams
ASSUME SomeStreams == MaxStreams \in Nat \ {0}

Slots == 0..1
Names == Keys \X Slots

VARIABLES
  at,         \* where each stream's handler is
  slot,       \* the slot AdmitSubscription is trying
  name,       \* key of the stream's lease: the lock it stands for
  ended,      \* the lease's context has ended
  mu,         \* the stream that holds the replica's mutex, or None
  conn,       \* the replica's admission session, or None
  old,        \* the session has reached ListenerMaxLifetime
  leases,     \* registered leases
  down,       \* listenerShutdown
  drained,    \* CloseNotificationConnections has returned
  alive,      \* sessions the server still has
  lock        \* the server's advisory locks

stream == <<at, slot, name, ended>>
replica == <<mu, conn, old, leases, down, drained>>
server == <<alive, lock>>
vars == <<stream, replica, server>>

Init ==
  /\ at = [s \in Streams |-> "out"]
  /\ slot = [s \in Streams |-> 0]
  /\ name = [s \in Streams |-> None]
  /\ ended = [s \in Streams |-> FALSE]
  /\ mu = [r \in Replicas |-> None]
  /\ conn = [r \in Replicas |-> None]
  /\ old = [r \in Replicas |-> FALSE]
  /\ leases = [r \in Replicas |-> {}]
  /\ down = [r \in Replicas |-> FALSE]
  /\ drained = [r \in Replicas |-> FALSE]
  /\ alive = {}
  /\ lock = [n \in Names |-> None]

Goto(s, label) == at' = [at EXCEPT ![s] = label]

-----------------------------------------------------------------------------
(* events.subscriptionLimits.                                               *)

InHandler(r) == {s \in Streams : Home[s] = r /\ at[s] # "out"}

\* acquire: at most MaxStreams streams and two per key on this replica.
Enter(s) ==
  /\ at[s] = "out"
  /\ Cardinality(InHandler(Home[s])) < MaxStreams
  /\ Cardinality({t \in InHandler(Home[s]) : KeyOf[t] = KeyOf[s]}) < 2
  /\ Goto(s, "in")
  /\ UNCHANGED <<slot, name, ended, replica, server>>

\* release, the last deferred call of the handler.
Leave(s) ==
  /\ at[s] = "leaving"
  /\ Goto(s, "out")
  /\ name' = [name EXCEPT ![s] = None]
  /\ ended' = [ended EXCEPT ![s] = FALSE]
  /\ UNCHANGED <<slot, replica, server>>

-----------------------------------------------------------------------------
(* closeLocked, given the leases still registered.  The server ends the     *)
(* session in a step of its own.                                            *)

\* Mutant of CloseLocked: leases are forgotten, not cancelled.
CloseLockedQuietly(r, left) ==
  /\ ended' = ended
  /\ leases' = [leases EXCEPT ![r] = {}]
  /\ conn' = [conn EXCEPT ![r] = None]
  /\ old' = [old EXCEPT ![r] = FALSE]

CloseLocked(r, left) ==
  /\ ended' = [s \in Streams |-> ended[s] \/ s \in left]
  /\ leases' = [leases EXCEPT ![r] = {}]
  /\ conn' = [conn EXCEPT ![r] = None]
  /\ old' = [old EXCEPT ![r] = FALSE]

SessionKept == UNCHANGED <<ended, leases, conn, old>>

\* The server drops everything a session holds.
ServerEnds(x) ==
  /\ x \in alive
  /\ alive' = alive \ {x}
  /\ lock' = [n \in Names |-> IF lock[n] = x THEN None ELSE lock[n]]
  /\ UNCHANGED <<stream, replica>>

SessionAges(r) ==
  /\ conn[r] # None /\ ~old[r]
  /\ old' = [old EXCEPT ![r] = TRUE]
  /\ UNCHANGED <<stream, mu, conn, leases, down, drained, server>>

-----------------------------------------------------------------------------
(* AdmitSubscription.                                                       *)

AdmitRefused(s) ==
  /\ at[s] = "in" /\ mu[Home[s]] = None /\ down[Home[s]]
  /\ Goto(s, "leaving")
  /\ UNCHANGED <<slot, name, ended, replica, server>>

\* The mutex is taken; a session past its lifetime goes with its leases.
AdmitLock(s) ==
  LET r == Home[s]
  IN  /\ at[s] = "in" /\ mu[r] = None /\ ~down[r]
      /\ mu' = [mu EXCEPT ![r] = s]
      /\ IF conn[r] # None /\ old[r] THEN CloseLocked(r, leases[r]) ELSE SessionKept
      /\ Goto(s, "connect")
      /\ slot' = [slot EXCEPT ![s] = 0]
      /\ UNCHANGED <<name, down, drained, server>>

\* Leaving AdmitSubscription unlocks the mutex.
Unlock(s) == mu' = [mu EXCEPT ![Home[s]] = None]

\* The session exists, or a new one is opened.
AdmitConnect(s, x) ==
  LET r == Home[s]
  IN  /\ at[s] = "connect"
      /\ IF conn[r] # None
           THEN x = conn[r] /\ UNCHANGED <<conn, old, alive>>
           ELSE /\ x \notin alive \cup {conn[q] : q \in Replicas}
                /\ conn' = [conn EXCEPT ![r] = x]
                /\ old' = [old EXCEPT ![r] = FALSE]
                /\ alive' = alive \cup {x}
      /\ IF Cardinality(leases[r]) < MaxStreams
           THEN Goto(s, "try") /\ UNCHANGED mu
           ELSE Goto(s, "leaving") /\ Unlock(s)
      /\ UNCHANGED <<slot, name, ended, leases, down, drained, lock>>

AdmitConnectFails(s) ==
  /\ at[s] = "connect" /\ conn[Home[s]] = None
  /\ Goto(s, "leaving") /\ Unlock(s)
  /\ UNCHANGED <<slot, name, ended, conn, old, leases, down, drained, server>>

Wanted(s) == <<KeyOf[s], slot[s]>>

\* Advisory locks are reentrant on one session: reject locally held names.
HeldHere(s) == \E t \in leases[Home[s]] : name[t] = Wanted(s)

\* The slot is held here, or the server reports that another session has it.
TrySkip(s) ==
  /\ at[s] = "try" /\ slot[s] \in Slots
  /\ \/ HeldHere(s)
     \/ conn[Home[s]] \in alive /\ lock[Wanted(s)] \notin {None, conn[Home[s]]}
  /\ slot' = [slot EXCEPT ![s] = @ + 1]
  /\ UNCHANGED <<at, name, ended, replica, server>>

\* Mutant of TryLocks: a session's own lock is granted again.
TryLocksReentrant(s) ==
  LET r == Home[s]
  IN  /\ at[s] = "try" /\ slot[s] \in Slots
      /\ conn[r] \in alive /\ lock[Wanted(s)] \in {None, conn[r]}
      /\ lock' = [lock EXCEPT ![Wanted(s)] = conn[r]]
      /\ name' = [name EXCEPT ![s] = Wanted(s)]
      /\ leases' = [leases EXCEPT ![r] = @ \cup {s}]
      /\ Goto(s, "live") /\ Unlock(s)
      /\ UNCHANGED <<slot, ended, conn, old, down, drained, alive>>

TryLocks(s) ==
  LET r == Home[s]
  IN  /\ at[s] = "try" /\ slot[s] \in Slots /\ ~HeldHere(s)
      /\ conn[r] \in alive /\ lock[Wanted(s)] \in {None, conn[r]}
      /\ lock' = [lock EXCEPT ![Wanted(s)] = conn[r]]
      /\ name' = [name EXCEPT ![s] = Wanted(s)]
      /\ leases' = [leases EXCEPT ![r] = @ \cup {s}]
      /\ Goto(s, "live") /\ Unlock(s)
      /\ UNCHANGED <<slot, ended, conn, old, down, drained, alive>>

\* The query fails: the session is gone, timed out, or the caller's context
\* ended, and a lock may have been taken without an answer.
TryFails(s) ==
  LET r == Home[s]
  IN  /\ at[s] = "try" /\ slot[s] \in Slots /\ ~HeldHere(s)
      /\ \/ UNCHANGED lock
         \/ /\ conn[r] \in alive /\ lock[Wanted(s)] = None
            /\ lock' = [lock EXCEPT ![Wanted(s)] = conn[r]]
      /\ CloseLocked(r, leases[r])
      /\ Goto(s, "leaving") /\ Unlock(s)
      /\ UNCHANGED <<slot, name, down, drained, alive>>

\* ErrSubscriptionLimit; a session without a lease is closed.
TryExhausted(s) ==
  LET r == Home[s]
  IN  /\ at[s] = "try" /\ slot[s] \notin Slots
      /\ IF leases[r] = {} THEN CloseLocked(r, {}) ELSE SessionKept
      /\ Goto(s, "leaving") /\ Unlock(s)
      /\ UNCHANGED <<slot, name, down, drained, server>>

-----------------------------------------------------------------------------
(* The lease.                                                               *)

\* The request's own context ends.
RequestEnds(s) ==
  /\ at[s] = "live" /\ ~ended[s]
  /\ ended' = [ended EXCEPT ![s] = TRUE]
  /\ UNCHANGED <<at, slot, name, replica, server>>

\* Check at the heartbeat: the lifetime or a failing ping ends every lease.
\* A ping of a live session may fail too.
CheckFails(s) ==
  LET r == Home[s]
  IN  /\ at[s] = "live" /\ mu[r] = None /\ ~ended[s]
      /\ CloseLocked(r, leases[r])
      /\ UNCHANGED <<at, slot, name, mu, down, drained, server>>

\* Close cancels the lease.  A lease closeLocked dropped is done; the other
\* is unregistered, and its lock is released when the query succeeds.
CloseDropped(s) ==
  /\ at[s] = "live" /\ mu[Home[s]] = None /\ s \notin leases[Home[s]]
  /\ ended' = [ended EXCEPT ![s] = TRUE]
  /\ Goto(s, "leaving")
  /\ UNCHANGED <<slot, name, replica, server>>

CloseUnlocks(s) ==
  LET r == Home[s]
  IN  /\ at[s] = "live" /\ mu[r] = None /\ s \in leases[r]
      /\ conn[r] \in alive
      /\ lock' = [lock EXCEPT ![name[s]] = None]
      /\ IF leases[r] = {s}
           THEN CloseLocked(r, {s})
           ELSE /\ ended' = [ended EXCEPT ![s] = TRUE]
                /\ leases' = [leases EXCEPT ![r] = @ \ {s}]
                /\ UNCHANGED <<conn, old>>
      /\ Goto(s, "leaving")
      /\ UNCHANGED <<slot, name, mu, down, drained, alive>>

CloseFails(s) ==
  LET r == Home[s]
  IN  /\ at[s] = "live" /\ mu[r] = None /\ s \in leases[r]
      /\ CloseLocked(r, leases[r])
      /\ Goto(s, "leaving")
      /\ UNCHANGED <<slot, name, mu, down, drained, server>>

-----------------------------------------------------------------------------
(* CloseNotificationConnections.                                            *)

ShutdownBegins(r) ==
  /\ ~down[r]
  /\ down' = [down EXCEPT ![r] = TRUE]
  /\ UNCHANGED <<stream, mu, conn, old, leases, drained, server>>

\* Mutant of ShutdownCloses: the mutex is not taken.
ShutdownClosesUnlocked(r) ==
  /\ down[r] /\ ~drained[r]
  /\ CloseLocked(r, leases[r])
  /\ drained' = [drained EXCEPT ![r] = TRUE]
  /\ UNCHANGED <<at, slot, name, mu, down, server>>

ShutdownCloses(r) ==
  /\ down[r] /\ ~drained[r] /\ mu[r] = None
  /\ CloseLocked(r, leases[r])
  /\ drained' = [drained EXCEPT ![r] = TRUE]
  /\ UNCHANGED <<at, slot, name, mu, down, server>>

-----------------------------------------------------------------------------
Admit(s) ==
  \/ AdmitRefused(s) \/ AdmitLock(s) \/ AdmitConnectFails(s)
  \/ \E x \in Sessions : AdmitConnect(s, x)
  \/ TrySkip(s) \/ TryLocks(s) \/ TryFails(s) \/ TryExhausted(s)

Close(s) == CloseDropped(s) \/ CloseUnlocks(s) \/ CloseFails(s)

Next ==
  \/ \E s \in Streams :
       Enter(s) \/ Leave(s) \/ Admit(s) \/ RequestEnds(s) \/ CheckFails(s) \/ Close(s)
  \/ \E r \in Replicas : SessionAges(r) \/ ShutdownBegins(r) \/ ShutdownCloses(r)
  \/ \E x \in Sessions : ServerEnds(x)

Spec == Init /\ [][Next]_vars

\* The server has ended the session behind the stream's replica.
LostSession(s) == conn[Home[s]] \notin alive

-----------------------------------------------------------------------------
\* Streams that still send: their lease was not cancelled.
Active == {s \in Streams : at[s] = "live" /\ ~ended[s]}

\* "a single serialized session holds the two advisory slots per key across
\* replicas" (subscription_admission.go:16): while its session lives, an
\* active stream holds its own lock, so a key has at most two such streams
\* over all replicas, through reentrant locks, reopened sessions and failed
\* unlocks.
TwoPerKey ==
  /\ \A s \in Active : ~LostSession(s) => lock[name[s]] = conn[Home[s]]
  /\ \A k \in Keys :
       Cardinality({s \in Active : KeyOf[s] = k /\ ~LostSession(s)}) <= 2

\* "On connection loss every lease is canceled" (subscription_admission.go:18):
\* a stream whose lease the replica no longer holds is never active, even when
\* the replica has a new session with new leases.
DroppedAreEnded == \A s \in Active : s \in leases[Home[s]]

\* "The session closes with its final lease" (subscription_admission.go:19),
\* and a replica that shut down has none: no session is left behind.
SessionHasLease ==
  \A r \in Replicas :
    /\ mu[r] = None /\ conn[r] # None => leases[r] # {}
    /\ drained[r] => conn[r] = None
=============================================================================
