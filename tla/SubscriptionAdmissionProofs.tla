--------------------- MODULE SubscriptionAdmissionProofs ---------------------
(***************************************************************************)
(* The admission of subscription streams for any replicas, keys, streams   *)
(* and server sessions: a lease that is not cancelled is registered, its   *)
(* replica has a session, and while the server keeps that session it holds *)
(* the lease's own lock.                                                   *)
(***************************************************************************)
EXTENDS SubscriptionAdmission, FiniteSetTheorems, TLAPS

Labels == {"out", "in", "connect", "try", "live", "leaving"}

(* The shape of the state the proof needs. *)
Shape ==
  /\ at \in [Streams -> Labels]
  /\ slot \in [Streams -> 0..2]
  /\ name \in [Streams -> Names \cup {None}]
  /\ ended \in [Streams -> BOOLEAN]
  /\ mu \in [Replicas -> Streams \cup {None}]
  /\ conn \in [Replicas -> Sessions \cup {None}]
  /\ old \in [Replicas -> BOOLEAN]
  /\ leases \in [Replicas -> SUBSET Streams]
  /\ down \in [Replicas -> BOOLEAN]
  /\ drained \in [Replicas -> BOOLEAN]
  /\ alive \subseteq Sessions
  /\ lock \in [Names -> Sessions \cup {None}]

(* The handler that is inside AdmitSubscription is the one with the mutex. *)
Mutex ==
  /\ \A s \in Streams : at[s] \in {"connect", "try"} <=> mu[Home[s]] = s
  /\ \A r \in Replicas : mu[r] # None => Home[mu[r]] = r

(* A registered lease belongs to a live stream of the replica, stands for   *)
(* a lock of the stream's key, and no other lease of the replica does.      *)
Registered ==
  \A r \in Replicas : \A s \in leases[r] :
    /\ Home[s] = r /\ at[s] = "live"
    /\ name[s] \in {KeyOf[s]} \X Slots
    /\ \A t \in leases[r] : name[t] = name[s] => t = s

(* A lease, or a handler that asks for a lock, has the replica's session.   *)
HasSession ==
  /\ \A r \in Replicas : leases[r] # {} => conn[r] # None
  /\ \A s \in Streams : at[s] = "try" => conn[Home[s]] # None

(* Replicas do not share sessions. *)
OwnSession ==
  \A r, q \in Replicas : conn[r] = conn[q] /\ conn[r] # None => r = q

(* While the server has the session it holds the lease's lock. *)
Locked ==
  \A r \in Replicas : \A s \in leases[r] :
    conn[r] \in alive => lock[name[s]] = conn[r]

(* A replica that has shut down is never entered again. *)
Drained == \A r \in Replicas : drained[r] => down[r] /\ mu[r] = None /\ conn[r] = None

(* The session outlives its last lease only under the mutex. *)
Needed == \A r \in Replicas : mu[r] = None /\ conn[r] # None => leases[r] # {}

IInv ==
  /\ Shape /\ Mutex /\ Registered /\ HasSession /\ OwnSession /\ Locked
  /\ Drained /\ Needed /\ DroppedAreEnded

(* The initial state satisfies the invariant. *)
LEMMA InitOk == Init => IInv
  BY HomeOk, NoneIsNone DEF Init, IInv, Shape, Mutex, Registered, HasSession, OwnSession,
     Locked, Drained, Needed, DroppedAreEnded, Active, Labels

(* closeLocked cancels what it is given and keeps what was cancelled. *)
LEMMA Closing ==
  ASSUME Shape, NEW r \in Replicas, NEW left, CloseLocked(r, left)
  PROVE  /\ ended' \in [Streams -> BOOLEAN]
         /\ \A t \in Streams : ended'[t] <=> ended[t] \/ t \in left
  BY Zenon DEF Shape, CloseLocked

(* Every step keeps the invariant. *)
LEMMA StepOk == IInv /\ [Next]_vars => IInv'
<1> SUFFICES ASSUME IInv, [Next]_vars PROVE IInv'
  OBVIOUS
<1> USE HomeOk, NoneIsNone DEF IInv, Shape, Labels, Goto, Slots
<1>1. ASSUME NEW s \in Streams, Enter(s) PROVE IInv'
  BY <1>1 DEF Mutex, Registered, HasSession, OwnSession, Locked, Drained, Needed,
     DroppedAreEnded, Active, Enter, replica, server
<1>2. ASSUME NEW s \in Streams, Leave(s) PROVE IInv'
  <2>1. Shape' /\ Mutex' /\ Drained' /\ Needed' /\ DroppedAreEnded'
    BY <1>2 DEF Leave, replica, server, Mutex, Drained, Needed, DroppedAreEnded, Active
  <2>2. Registered' /\ HasSession' /\ OwnSession' /\ Locked'
    BY <1>2 DEF Leave, replica, server, Registered, HasSession, OwnSession, Locked
  <2> QED BY <2>1, <2>2
<1>3. ASSUME NEW s \in Streams, AdmitRefused(s) PROVE IInv'
  BY <1>3 DEF Mutex, Registered, HasSession, OwnSession, Locked, Drained, Needed,
     DroppedAreEnded, Active, AdmitRefused, replica, server
<1>4. ASSUME NEW s \in Streams, AdmitLock(s) PROVE IInv'
  <2>1. PICK r \in Replicas : r = Home[s]
    OBVIOUS
  <2>2. /\ at[s] = "in" /\ mu[r] = None /\ ~down[r]
        /\ mu' = [mu EXCEPT ![r] = s] /\ at' = [at EXCEPT ![s] = "connect"]
        /\ slot' = [slot EXCEPT ![s] = 0]
        /\ UNCHANGED <<name, down, drained, alive, lock>>
    BY <1>4, <2>1 DEF AdmitLock, server
  <2>3. CASE CloseLocked(r, leases[r])
    <3>1. Shape' /\ Mutex' /\ Drained'
      BY <2>1, <2>2, <2>3 DEF CloseLocked, Mutex, Drained
    <3>2. Registered' /\ Locked'
      BY <2>1, <2>2, <2>3 DEF CloseLocked, Registered, Locked
    <3>3. HasSession' /\ OwnSession'
      BY <2>1, <2>2, <2>3 DEF CloseLocked, HasSession, OwnSession, Mutex
    <3>4. Needed' /\ DroppedAreEnded'
      BY <2>1, <2>2, <2>3 DEF CloseLocked, Needed, DroppedAreEnded, Active
    <3> QED BY <3>1, <3>2, <3>3, <3>4
  <2>4. CASE SessionKept
    BY <2>1, <2>2, <2>4 DEF SessionKept, Mutex, Registered, HasSession, OwnSession, Locked,
       Drained, Needed, DroppedAreEnded, Active
  <2> QED BY <1>4, <2>1, <2>3, <2>4 DEF AdmitLock
<1>5. ASSUME NEW s \in Streams, NEW x \in Sessions, AdmitConnect(s, x) PROVE IInv'
  <2>1. PICK r \in Replicas : r = Home[s]
    OBVIOUS
  <2>2. /\ at[s] = "connect" /\ mu[r] = s
        /\ UNCHANGED <<slot, name, ended, leases, down, drained, lock>>
    BY <1>5, <2>1 DEF AdmitConnect, Mutex
  <2>3. \/ /\ conn[r] # None /\ x = conn[r] /\ UNCHANGED <<conn, old, alive>>
        \/ /\ conn[r] = None /\ x \notin alive \cup {conn[q] : q \in Replicas}
           /\ conn' = [conn EXCEPT ![r] = x] /\ old' = [old EXCEPT ![r] = FALSE]
           /\ alive' = alive \cup {x}
    BY <1>5, <2>1 DEF AdmitConnect
  <2>4. \/ /\ at' = [at EXCEPT ![s] = "try"] /\ UNCHANGED mu
        \/ /\ at' = [at EXCEPT ![s] = "leaving"] /\ mu' = [mu EXCEPT ![r] = None]
           /\ leases[r] # {}
    <3>1. Cardinality({}) < MaxStreams
      BY FS_EmptySet, SomeStreams
    <3> QED BY <1>5, <2>1, <3>1 DEF AdmitConnect, Unlock
  <2>5. Shape'
    <3>1. /\ conn' \in [Replicas -> Sessions \cup {None}]
          /\ old' \in [Replicas -> BOOLEAN] /\ alive' \subseteq Sessions
      <4>1. CASE UNCHANGED <<conn, old, alive>>
        BY <4>1
      <4>2. CASE /\ conn' = [conn EXCEPT ![r] = x] /\ old' = [old EXCEPT ![r] = FALSE]
                 /\ alive' = alive \cup {x}
        BY <4>2
      <4> QED BY <2>3, <4>1, <4>2
    <3>2. at' \in [Streams -> Labels] /\ mu' \in [Replicas -> Streams \cup {None}]
      BY <2>1, <2>4
    <3> QED BY <2>2, <3>1, <3>2
  <2>6. Mutex' /\ Drained'
    BY <2>1, <2>2, <2>3, <2>4 DEF Mutex, Drained
  <2>7. Registered' /\ HasSession' /\ OwnSession'
    <3>1. Registered'
      BY <2>1, <2>2, <2>4 DEF Mutex, Registered
    <3>2. conn'[r] # None /\ \A q \in Replicas \ {r} : conn'[q] = conn[q]
      BY <2>3
    <3>3. \A t \in Streams \ {s} : at'[t] = at[t]
      BY <2>4
    <3>4. HasSession'
      BY <2>1, <2>2, <3>2, <3>3 DEF HasSession
    <3>5. \A q \in Replicas \ {r} : conn'[q] # conn'[r]
      BY <2>3 DEF OwnSession
    <3>6. OwnSession'
      BY <3>2, <3>5 DEF OwnSession
    <3> QED BY <3>1, <3>4, <3>6
  <2>8. Locked'
    BY <2>1, <2>2, <2>3, <2>4 DEF Registered, HasSession, Locked
  <2>9. Needed' /\ DroppedAreEnded'
    BY <2>1, <2>2, <2>3, <2>4 DEF Needed, DroppedAreEnded, Active
  <2> QED BY <2>5, <2>6, <2>7, <2>8, <2>9
<1>6. ASSUME NEW s \in Streams, AdmitConnectFails(s) PROVE IInv'
  BY <1>6 DEF Mutex, Registered, HasSession, OwnSession, Locked, Drained, Needed,
     DroppedAreEnded, Active, AdmitConnectFails, Unlock, server
<1>7. ASSUME NEW s \in Streams, TrySkip(s) PROVE IInv'
  BY <1>7 DEF Mutex, Registered, HasSession, OwnSession, Locked, Drained, Needed,
     DroppedAreEnded, Active, TrySkip, replica, server
<1>8. ASSUME NEW s \in Streams, TryLocks(s) PROVE IInv'
  <2>1. PICK r \in Replicas : r = Home[s]
    OBVIOUS
  <2>2. PICK w \in Names : w = Wanted(s) /\ w \in {KeyOf[s]} \X Slots
    BY <1>8 DEF TryLocks, Wanted, Names
  <2>3. /\ at[s] = "try" /\ conn[r] \in alive /\ lock[w] \in {None, conn[r]}
        /\ \A t \in leases[r] : name[t] # w
        /\ lock' = [lock EXCEPT ![w] = conn[r]] /\ name' = [name EXCEPT ![s] = w]
        /\ leases' = [leases EXCEPT ![r] = @ \cup {s}]
        /\ at' = [at EXCEPT ![s] = "live"] /\ mu' = [mu EXCEPT ![r] = None]
        /\ UNCHANGED <<slot, ended, conn, old, down, drained, alive>>
    BY <1>8, <2>1, <2>2 DEF TryLocks, HeldHere, Unlock
  <2>4. Shape' /\ Mutex' /\ Drained'
    BY <2>1, <2>3 DEF Mutex, Drained
  <2>5. Registered'
    BY <2>1, <2>2, <2>3 DEF Registered
  <2>6. HasSession' /\ OwnSession' /\ Needed'
    BY <2>1, <2>3 DEF Mutex, HasSession, OwnSession, Needed
  <2>7. Locked'
    <3> SUFFICES ASSUME NEW q \in Replicas, NEW t \in leases'[q], conn'[q] \in alive'
                 PROVE  lock'[name'[t]] = conn'[q]
      BY DEF Locked
    <3>1. CASE t = s
      BY <2>1, <2>3, <2>5, <3>1 DEF Registered
    <3>2. CASE t # s
      <4>1. t \in leases[q] /\ name'[t] = name[t] /\ name[t] \in Names
        BY <2>3, <3>2 DEF Registered, Names
      <4>2. lock[name[t]] = conn[q] /\ conn[q] # None
        BY <2>3, <4>1 DEF Locked
      <4>3. name[t] # w
        BY <2>1, <2>3, <4>1, <4>2 DEF OwnSession
      <4> QED BY <2>3, <4>1, <4>2, <4>3
    <3> QED BY <3>1, <3>2
  <2>8. DroppedAreEnded'
    BY <2>1, <2>3 DEF DroppedAreEnded, Active
  <2> QED BY <2>4, <2>5, <2>6, <2>7, <2>8
<1>9. ASSUME NEW s \in Streams, TryFails(s) PROVE IInv'
  <2>1. PICK r \in Replicas : r = Home[s]
    OBVIOUS
  <2>2. PICK w \in Names : w = Wanted(s)
    BY <1>9 DEF TryFails, Wanted, Names
  <2>3. /\ at[s] = "try" /\ CloseLocked(r, leases[r])
        /\ \/ UNCHANGED lock
           \/ conn[r] \in alive /\ lock[w] = None /\ lock' = [lock EXCEPT ![w] = conn[r]]
        /\ at' = [at EXCEPT ![s] = "leaving"] /\ mu' = [mu EXCEPT ![r] = None]
        /\ UNCHANGED <<slot, name, down, drained, alive>>
    BY <1>9, <2>1, <2>2 DEF TryFails, Unlock
  <2>4. Shape' /\ Mutex' /\ Drained'
    BY <2>1, <2>3 DEF CloseLocked, Mutex, Drained
  <2>5. Registered' /\ HasSession' /\ OwnSession'
    BY <2>1, <2>3 DEF CloseLocked, Registered, HasSession, OwnSession, Mutex
  <2>6. Locked'
    <3> SUFFICES ASSUME NEW q \in Replicas, NEW t \in leases'[q], conn'[q] \in alive'
                 PROVE  lock'[name'[t]] = conn'[q]
      BY DEF Locked
    <3>1. q # r /\ t \in leases[q] /\ conn'[q] = conn[q] /\ name[t] \in Names
      BY <2>3 DEF CloseLocked, Registered, Names
    <3>2. lock[name[t]] = conn[q] /\ conn[q] # None
      BY <2>3, <3>1 DEF Locked
    <3> QED BY <2>3, <3>1, <3>2
  <2>7. Needed' /\ DroppedAreEnded'
    BY <2>1, <2>3 DEF CloseLocked, Needed, DroppedAreEnded, Active
  <2> QED BY <2>4, <2>5, <2>6, <2>7
<1>10. ASSUME NEW s \in Streams, TryExhausted(s) PROVE IInv'
  <2>1. PICK r \in Replicas : r = Home[s]
    OBVIOUS
  <2>2. /\ at[s] = "try"
        /\ at' = [at EXCEPT ![s] = "leaving"] /\ mu' = [mu EXCEPT ![r] = None]
        /\ UNCHANGED <<slot, name, down, drained, alive, lock>>
    BY <1>10, <2>1 DEF TryExhausted, Unlock, server
  <2>3. CASE leases[r] = {} /\ CloseLocked(r, {})
    <3>1. Shape' /\ Mutex' /\ Drained'
      BY <2>1, <2>2, <2>3 DEF CloseLocked, Mutex, Drained
    <3>2. Registered' /\ HasSession' /\ OwnSession' /\ Locked'
      BY <2>1, <2>2, <2>3 DEF CloseLocked, Registered, HasSession, OwnSession, Locked, Mutex
    <3>3. Needed' /\ DroppedAreEnded'
      BY <2>1, <2>2, <2>3 DEF CloseLocked, Needed, DroppedAreEnded, Active
    <3> QED BY <3>1, <3>2, <3>3
  <2>4. CASE leases[r] # {} /\ SessionKept
    BY <2>1, <2>2, <2>4 DEF SessionKept, Mutex, Registered, HasSession, OwnSession, Locked,
       Drained, Needed, DroppedAreEnded, Active
  <2> QED BY <1>10, <2>1, <2>3, <2>4 DEF TryExhausted
<1>11. ASSUME NEW s \in Streams, RequestEnds(s) PROVE IInv'
  BY <1>11 DEF Mutex, Registered, HasSession, OwnSession, Locked, Drained, Needed,
     DroppedAreEnded, Active, RequestEnds, replica, server
<1>12. ASSUME NEW s \in Streams, CheckFails(s) PROVE IInv'
  <2>1. PICK r \in Replicas : r = Home[s] /\ CloseLocked(r, leases[r])
    BY <1>12 DEF CheckFails
  <2>2. Shape' /\ Mutex' /\ Drained'
    BY <1>12, <2>1 DEF CheckFails, CloseLocked, server, Mutex, Drained
  <2>3. Registered' /\ HasSession' /\ OwnSession' /\ Locked'
    BY <1>12, <2>1 DEF CheckFails, CloseLocked, server, Registered, HasSession, OwnSession,
       Locked, Mutex
  <2>4. Needed'
    BY <1>12, <2>1 DEF CheckFails, CloseLocked, server, Needed
  <2>5. DroppedAreEnded'
    <3>1. at' = at /\ leases' = [leases EXCEPT ![r] = {}]
      BY <1>12, <2>1 DEF CheckFails, CloseLocked
    <3>2. \A t \in Streams : ended'[t] <=> ended[t] \/ t \in leases[r]
      BY <2>1, Closing
    <3> QED BY <3>1, <3>2 DEF DroppedAreEnded, Active
  <2> QED BY <2>2, <2>3, <2>4, <2>5
<1>13. ASSUME NEW s \in Streams, CloseDropped(s) PROVE IInv'
  BY <1>13 DEF Mutex, Registered, HasSession, OwnSession, Locked, Drained, Needed,
     DroppedAreEnded, Active, CloseDropped, replica, server
<1>14. ASSUME NEW s \in Streams, CloseUnlocks(s) PROVE IInv'
  <2>1. PICK r \in Replicas : r = Home[s]
    OBVIOUS
  <2>2. PICK w \in Names : w = name[s]
    BY <1>14 DEF CloseUnlocks, Registered, Names
  <2>3. /\ at[s] = "live" /\ mu[r] = None /\ s \in leases[r] /\ conn[r] \in alive
        /\ lock' = [lock EXCEPT ![w] = None]
        /\ at' = [at EXCEPT ![s] = "leaving"]
        /\ UNCHANGED <<slot, name, mu, down, drained, alive>>
    BY <1>14, <2>1, <2>2 DEF CloseUnlocks
  <2>4. \A q \in Replicas :
          /\ conn'[q] \in {conn[q], None} /\ (conn'[q] # conn[q] => q = r /\ leases[r] = {s})
          /\ leases'[q] = leases[q] \ {s} /\ (q # r => leases'[q] = leases[q])
          /\ leases[r] = {s} => conn'[r] = None
    <3>1. \A q \in Replicas : q # r => s \notin leases[q]
      BY <2>1 DEF Registered
    <3> QED BY <1>14, <2>1, <3>1 DEF CloseUnlocks, CloseLocked
  <2>5. ended'[s] /\ \A t \in Streams : ended'[t] \in BOOLEAN /\ (t # s => ended'[t] = ended[t])
    <3>1. CASE CloseLocked(r, {s})
      BY <3>1, Closing
    <3>2. CASE ended' = [ended EXCEPT ![s] = TRUE]
      BY <3>2
    <3> QED BY <1>14, <2>1, <3>1, <3>2 DEF CloseUnlocks
  <2>6. Shape'
    <3>1. CASE CloseLocked(r, {s})
      BY <2>3, <3>1, Closing DEF CloseLocked
    <3>2. CASE /\ ended' = [ended EXCEPT ![s] = TRUE]
               /\ leases' = [leases EXCEPT ![r] = @ \ {s}] /\ UNCHANGED <<conn, old>>
      BY <2>3, <3>2
    <3> QED BY <1>14, <2>1, <3>1, <3>2 DEF CloseUnlocks
  <2>7. Mutex' /\ Drained'
    BY <2>3, <2>4 DEF Mutex, Drained
  <2>8. Registered' /\ OwnSession'
    BY <2>3, <2>4 DEF Registered, OwnSession
  <2>9. HasSession' /\ Needed'
    <3>1. \A q \in Replicas : leases'[q] # {} => conn'[q] # None
      BY <2>3, <2>4 DEF HasSession
    <3>2. \A t \in Streams : at'[t] = "try" => conn'[Home[t]] # None
      BY <2>1, <2>3, <2>4 DEF HasSession, Mutex
    <3>3. Needed'
      BY <2>3, <2>4 DEF Needed
    <3> QED BY <3>1, <3>2, <3>3 DEF HasSession
  <2>10. Locked'
    <3> SUFFICES ASSUME NEW q \in Replicas, NEW t \in leases'[q], conn'[q] \in alive'
                 PROVE  lock'[name'[t]] = conn'[q]
      BY DEF Locked
    <3>1. t # s /\ t \in leases[q] /\ conn'[q] = conn[q] /\ name[t] \in Names
      BY <2>3, <2>4 DEF Registered, Names
    <3>2. lock[name[t]] = conn[q] /\ lock[w] = conn[r]
      BY <2>2, <2>3, <3>1 DEF Locked
    <3>3. name[t] # w
      BY <2>2, <2>3, <3>1, <3>2 DEF OwnSession, Registered
    <3> QED BY <2>3, <3>1, <3>2, <3>3
  <2>11. DroppedAreEnded'
    BY <2>3, <2>4, <2>5 DEF DroppedAreEnded, Active
  <2> QED BY <2>6, <2>7, <2>8, <2>9, <2>10, <2>11
<1>15. ASSUME NEW s \in Streams, CloseFails(s) PROVE IInv'
  <2>1. PICK r \in Replicas : r = Home[s] /\ CloseLocked(r, leases[r])
    BY <1>15 DEF CloseFails
  <2>2. Shape' /\ Mutex' /\ Drained'
    BY <1>15, <2>1 DEF CloseFails, CloseLocked, server, Mutex, Drained
  <2>3. Registered' /\ HasSession' /\ OwnSession' /\ Locked'
    BY <1>15, <2>1 DEF CloseFails, CloseLocked, server, Registered, HasSession, OwnSession,
       Locked, Mutex
  <2>4. Needed'
    BY <1>15, <2>1 DEF CloseFails, CloseLocked, server, Needed
  <2>5. DroppedAreEnded'
    <3>1. at' = [at EXCEPT ![s] = "leaving"] /\ leases' = [leases EXCEPT ![r] = {}]
      BY <1>15, <2>1 DEF CloseFails, CloseLocked
    <3>2. \A t \in Streams : ended'[t] <=> ended[t] \/ t \in leases[r]
      BY <2>1, Closing
    <3> QED BY <2>1, <3>1, <3>2 DEF DroppedAreEnded, Active
  <2> QED BY <2>2, <2>3, <2>4, <2>5
<1>16. ASSUME NEW r \in Replicas, SessionAges(r) PROVE IInv'
  BY <1>16 DEF Mutex, Registered, HasSession, OwnSession, Locked, Drained, Needed,
     DroppedAreEnded, Active, SessionAges, stream, server
<1>17. ASSUME NEW r \in Replicas, ShutdownBegins(r) PROVE IInv'
  BY <1>17 DEF Mutex, Registered, HasSession, OwnSession, Locked, Drained, Needed,
     DroppedAreEnded, Active, ShutdownBegins, stream, server
<1>18. ASSUME NEW r \in Replicas, ShutdownCloses(r) PROVE IInv'
  <2>1. Shape' /\ Mutex' /\ Drained'
    BY <1>18 DEF ShutdownCloses, CloseLocked, server, Mutex, Drained
  <2>2. Registered' /\ HasSession' /\ OwnSession' /\ Locked'
    BY <1>18 DEF ShutdownCloses, CloseLocked, server, Registered, HasSession, OwnSession,
       Locked, Mutex
  <2>3. Needed' /\ DroppedAreEnded'
    BY <1>18 DEF ShutdownCloses, CloseLocked, server, Needed, DroppedAreEnded, Active
  <2> QED BY <2>1, <2>2, <2>3
<1>19. ASSUME NEW x \in Sessions, ServerEnds(x) PROVE IInv'
  <2>1. Shape' /\ Mutex' /\ Registered' /\ HasSession' /\ OwnSession'
    BY <1>19 DEF ServerEnds, stream, replica, Mutex, Registered, HasSession, OwnSession
  <2>2. Locked'
    BY <1>19 DEF ServerEnds, stream, replica, Registered, Locked, Names
  <2>3. Drained' /\ Needed' /\ DroppedAreEnded'
    BY <1>19 DEF ServerEnds, stream, replica, Drained, Needed, DroppedAreEnded, Active
  <2> QED BY <2>1, <2>2, <2>3
<1>20. CASE UNCHANGED vars
  BY <1>20 DEF Mutex, Registered, HasSession, OwnSession, Locked, Drained, Needed,
     DroppedAreEnded, Active, vars, stream, replica, server
<1> QED
  BY <1>1, <1>2, <1>3, <1>4, <1>5, <1>6, <1>7, <1>8, <1>9, <1>10, <1>11, <1>12, <1>13,
     <1>14, <1>15, <1>16, <1>17, <1>18, <1>19, <1>20 DEF Next, Admit, Close

(* "a single serialized session holds the two advisory slots per key": the   *)
(* locks of a key's active streams are different, so they are at most two.   *)
LEMMA AtMostTwo == IInv => TwoPerKey
<1> SUFFICES ASSUME IInv PROVE TwoPerKey
  OBVIOUS
<1>1. \A s \in Active : ~LostSession(s) =>
        /\ lock[name[s]] = conn[Home[s]] /\ s \in leases[Home[s]] /\ conn[Home[s]] # None
        /\ Home[s] \in Replicas
  BY HomeOk, NoneIsNone DEF IInv, Shape, DroppedAreEnded, Locked, Active, LostSession
<1>2. ASSUME NEW k \in Keys
      PROVE  Cardinality({s \in Active : KeyOf[s] = k /\ ~LostSession(s)}) <= 2
  <2> DEFINE S == {s \in Active : KeyOf[s] = k /\ ~LostSession(s)}
             f == [s \in S |-> name[s][2]]
  <2>1. \A s \in S : name[s] \in {k} \X (0..1)
    BY <1>1 DEF IInv, Registered, Slots
  <2>2. \A s, t \in S : name[s] = name[t] => s = t
    BY <1>1 DEF IInv, Registered, OwnSession
  <2>3. \A s, t \in S : name[s][2] = name[t][2] => s = t
    BY <2>1, <2>2
  <2>4. f \in Injection(S, 0..1)
    BY <2>1, <2>3 DEF Injection, IsInjective
  <2>5. IsFiniteSet(0..1) /\ Cardinality(0..1) = 2
    <3>1. 0..1 = {0} \cup {1} /\ 1 \notin {0}
      OBVIOUS
    <3>2. IsFiniteSet({0}) /\ Cardinality({0}) = 1
      BY FS_Singleton
    <3>3. IsFiniteSet({0} \cup {1}) /\ Cardinality({0} \cup {1}) = Cardinality({0}) + 1
      BY <3>1, <3>2, FS_AddElement
    <3> QED BY <3>1, <3>2, <3>3
  <2>6. Cardinality(S) <= Cardinality(0..1)
    BY <2>4, <2>5, FS_Injection
  <2> QED BY <2>5, <2>6
<1> QED BY <1>1, <1>2 DEF TwoPerKey

(* An agent key never has more than two streams whose session lives, over   *)
(* any number of replicas, and each holds its own advisory lock             *)
(* (AdmitSubscription, Check, Close).                                       *)
THEOREM AdmissionTwoPerKey == Spec => []TwoPerKey
<1> QED BY InitOk, StepOk, AtMostTwo, PTL DEF Spec

(* A stream whose lease closeLocked dropped is never active.                *)
THEOREM AdmissionDroppedAreEnded == Spec => []DroppedAreEnded
<1>1. IInv => DroppedAreEnded
  BY DEF IInv
<1> QED BY <1>1, InitOk, StepOk, PTL DEF Spec

(* No admission session is left without a lease, and none after the         *)
(* replica's shutdown (closeLocked, CloseNotificationConnections).          *)
THEOREM AdmissionSessionHasLease == Spec => []SessionHasLease
<1>1. IInv => SessionHasLease
  BY DEF IInv, Drained, Needed, SessionHasLease
<1> QED BY <1>1, InitOk, StepOk, PTL DEF Spec
=============================================================================
