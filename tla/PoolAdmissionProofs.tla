-------------------------- MODULE PoolAdmissionProofs --------------------------
(***************************************************************************)
(* The pool's admission for any workers and requests, any number of        *)
(* connections and any reserve below it: permits are exact, and background *)
(* work never has more connections than it was given.                      *)
(***************************************************************************)
EXTENDS PoolAdmission, FiniteSetTheorems, TLAPS

Places == {"out", "admit", "pool", "end", "using", "releasing"}

(* The shape of the state the proof needs. *)
Shape ==
  /\ slots \in Int /\ held \subseteq Conns /\ free \subseteq Conns
  /\ at \in [Procs -> Places]
  /\ permit \in [Procs -> BOOLEAN] /\ done \in [Procs -> BOOLEAN]
  /\ got \in [Procs -> Conns \cup {NoConn}]
  /\ sess \in [Procs -> Conns \cup {NoConn}]

(* A connection has one owner: the pool, an acquisition or a session. *)
OneOwner ==
  /\ \A p \in Procs : got[p] \notin free /\ sess[p] \notin free
  /\ \A p, q \in Procs :
       /\ got[p] = got[q] /\ got[p] # NoConn => p = q
       /\ sess[p] = sess[q] /\ sess[p] # NoConn => p = q
       /\ got[p] = sess[q] => got[p] = NoConn

(* Where a goroutine has a connection of its own. *)
HasConn ==
  \A p \in Procs :
    /\ at[p] \in {"using", "releasing"} => got[p] # NoConn
    /\ at[p] \in {"out", "admit", "pool"} => got[p] = NoConn

(* Inside a retained session every acquisition fails. *)
Retained ==
  \A p \in Procs : sess[p] # NoConn =>
    /\ at[p] \in {"out", "pool", "end"} /\ got[p] = NoConn
    /\ at[p] = "pool" => done[p]
    /\ at[p] \in {"pool", "end"} => ~permit[p]

(* A worker waits in the pool with a permit or with a context that has ended. *)
Permitted ==
  \A p \in Procs :
    /\ at[p] = "admit" => p \in Workers /\ ~permit[p]
    /\ p \in Workers /\ at[p] = "pool" /\ ~permit[p] => done[p]
    /\ p \in Workers /\ at[p] = "end" /\ got[p] # NoConn => permit[p]
    /\ at[p] \in {"pool", "end"} /\ permit[p] => p \in Workers

(* m.held is exactly what workers use. *)
HeldByWorkers ==
  /\ \A c \in held : \E w \in Workers : c = sess[w] \/ (at[w] = "using" /\ c = got[w])
  /\ \A w \in Workers :
       /\ sess[w] # NoConn => sess[w] \in held
       /\ at[w] = "using" => got[w] \in held

(* Ownership and the flags of an acquisition, without the counts. *)
Owners == Shape /\ OneOwner /\ HasConn /\ Retained /\ Permitted /\ HeldByWorkers

(* Acquisitions that have a permit and no connection of their own yet. *)
InFlight == {p \in Procs : permit[p] /\ at[p] \in {"pool", "end"}}

Counted ==
  /\ IsFiniteSet(InFlight) /\ slots <= Limit
  /\ slots = Cardinality(InFlight) + Cardinality(held)


IInv == Owners /\ Counted

(* The channel has a capacity. *)
LEMMA LimitNat == Limit \in Nat /\ Cardinality(Conns) \in Nat
  BY ConnsFinite, ReserveFits, FS_CardinalityType DEF Limit

(* The initial state satisfies the invariant. *)
LEMMA InitOk == Init => IInv
<1> SUFFICES ASSUME Init PROVE IInv
  OBVIOUS
<1>1. Shape /\ OneOwner /\ HasConn /\ Retained /\ Permitted /\ HeldByWorkers
  BY NoConnIsNone DEF Init, Shape, OneOwner, HasConn, Retained, Permitted, HeldByWorkers,
     Procs, Places
<1>2. InFlight = {} /\ held = {} /\ slots = 0
  BY DEF Init, InFlight
<1>3. Counted
  BY <1>2, FS_EmptySet, LimitNat DEF Counted
<1> QED BY <1>1, <1>3 DEF IInv, Owners

(* Every step keeps ownership. *)
LEMMA OwnersStep == Owners /\ [Next]_vars => Owners'
<1> SUFFICES ASSUME Owners, [Next]_vars PROVE Owners'
  OBVIOUS
<1> USE NoConnIsNone, Disjoint
    DEF Owners, Shape, Places, monitor, Procs, OneOwner, HasConn, Retained, Permitted,
        HeldByWorkers
<1>1. ASSUME NEW p \in Procs, AcquireStart(p) PROVE Owners'
  BY <1>1, ZenonT(40) DEF AcquireStart
<1>2. ASSUME NEW p \in Procs, Admit(p) PROVE Owners'
  <2>1. Shape'
    BY <1>2 DEF Admit
  <2>2. OneOwner' /\ HasConn' /\ Retained' /\ Permitted'
    BY <1>2 DEF Admit
  <2>3. HeldByWorkers'
    BY <1>2 DEF Admit
  <2> QED BY <2>1, <2>2, <2>3
<1>3. ASSUME NEW p \in Procs, AdmitCancelled(p) PROVE Owners'
  BY <1>3 DEF AdmitCancelled
<1>4. ASSUME NEW p \in Procs, ContextEnds(p) PROVE Owners'
  BY <1>4 DEF ContextEnds
<1>5. ASSUME NEW p \in Procs, NEW c \in Conns, PoolGrants(p, c) PROVE Owners'
  BY <1>5 DEF PoolGrants
<1>6. ASSUME NEW p \in Procs, PoolFails(p) PROVE Owners'
  BY <1>6 DEF PoolFails
<1>7. ASSUME NEW p \in Procs, PoolTakesBack(p) PROVE Owners'
  BY <1>7 DEF PoolTakesBack
<1>8. ASSUME NEW p \in Procs, AcquireEnd(p) PROVE Owners'
  BY <1>8 DEF AcquireEnd
<1>9. ASSUME NEW p \in Procs, WithConnection(p) PROVE Owners'
  BY <1>9 DEF WithConnection
<1>10. ASSUME NEW p \in Procs, Release(p) PROVE Owners'
  BY <1>10 DEF Release, Owned
<1>11. CASE UNCHANGED vars
  BY <1>11 DEF vars
<1> QED
  BY <1>1, <1>2, <1>3, <1>4, <1>5, <1>6, <1>7, <1>8, <1>9, <1>10, <1>11 DEF Next

(* Every step keeps the counts: a permit is taken, passed on to a held       *)
(* connection, and given back.                                               *)
LEMMA CountedStep == Owners /\ Counted /\ [Next]_vars => Counted'
<1> SUFFICES ASSUME Owners, Counted, [Next]_vars PROVE Counted'
  OBVIOUS
<1>0. /\ IsFiniteSet(InFlight) /\ IsFiniteSet(held)
      /\ Cardinality(InFlight) \in Nat /\ Cardinality(held) \in Nat /\ slots \in Int
      /\ Limit \in Nat
  BY ConnsFinite, FS_Subset, FS_CardinalityType, LimitNat DEF Owners, Shape, Counted
<1> USE DEF Counted, monitor
<1>1. CASE InFlight' = InFlight /\ UNCHANGED <<slots, held>>
  BY <1>1
<1>2. ASSUME NEW p \in Procs, AcquireStart(p) PROVE Counted'
  <2>1. InFlight' = InFlight
    BY <1>2 DEF AcquireStart, InFlight, Owners, Shape
  <2> QED BY <1>1, <1>2, <2>1 DEF AcquireStart
<1>3. ASSUME NEW p \in Procs, Admit(p) PROVE Counted'
  <2>1. InFlight' = InFlight \cup {p} /\ p \notin InFlight
    BY <1>3 DEF Admit, InFlight, Owners, Shape
  <2>2. IsFiniteSet(InFlight') /\ Cardinality(InFlight') = Cardinality(InFlight) + 1
    BY <1>0, <2>1, FS_AddElement
  <2> QED BY <1>0, <1>3, <2>2 DEF Admit
<1>4. ASSUME NEW p \in Procs, AdmitCancelled(p) PROVE Counted'
  <2>1. InFlight' = InFlight
    BY <1>4 DEF AdmitCancelled, InFlight, Owners, Shape, Permitted
  <2> QED BY <1>1, <1>4, <2>1 DEF AdmitCancelled
<1>5. ASSUME NEW p \in Procs,
             \/ ContextEnds(p) \/ PoolFails(p) \/ PoolTakesBack(p)
             \/ \E c \in Conns : PoolGrants(p, c)
      PROVE  Counted'
  <2>1. InFlight' = InFlight
    BY <1>5 DEF ContextEnds, PoolFails, PoolTakesBack, PoolGrants, InFlight, Owners, Shape
  <2> QED BY <1>1, <1>5, <2>1 DEF ContextEnds, PoolFails, PoolTakesBack, PoolGrants
<1>6. ASSUME NEW p \in Procs, AcquireEnd(p) PROVE Counted'
  <2>1. CASE ~permit[p]
    <3>1. InFlight' = InFlight
      BY <1>6, <2>1 DEF AcquireEnd, InFlight, Owners, Shape
    <3> QED BY <1>1, <1>6, <2>1, <3>1 DEF AcquireEnd
  <2>2. CASE permit[p]
    <3>1. InFlight' = InFlight \ {p} /\ p \in InFlight
      BY <1>6, <2>2 DEF AcquireEnd, InFlight, Owners, Shape
    <3>2. IsFiniteSet(InFlight') /\ Cardinality(InFlight') = Cardinality(InFlight) - 1
      BY <1>0, <3>1, FS_RemoveElement
    <3>3. CASE got[p] = NoConn
      BY <1>0, <1>6, <2>2, <3>2, <3>3 DEF AcquireEnd
    <3>4. CASE got[p] # NoConn
      <4>1. got[p] \notin held
        BY <1>6, <3>4, Disjoint DEF AcquireEnd, Owners, Shape, OneOwner, HeldByWorkers,
           Procs
      <4>2. held' = held \cup {got[p]} /\ slots' = slots
        BY <1>6, <2>2, <3>4 DEF AcquireEnd
      <4>3. Cardinality(held') = Cardinality(held) + 1
        BY <1>0, <4>1, <4>2, FS_AddElement
      <4> QED BY <1>0, <3>2, <4>2, <4>3
    <3> QED BY <3>3, <3>4
  <2> QED BY <2>1, <2>2
<1>7. ASSUME NEW p \in Procs, WithConnection(p) PROVE Counted'
  <2>1. InFlight' = InFlight
    BY <1>7 DEF WithConnection, InFlight, Owners, Shape
  <2> QED BY <1>1, <1>7, <2>1 DEF WithConnection
<1>8. ASSUME NEW p \in Procs, Release(p) PROVE Counted'
  <2>1. InFlight' = InFlight
    BY <1>8 DEF Release, InFlight, Owners, Shape
  <2>2. CASE Owned(p) \in held
    <3>1. Cardinality(held') = Cardinality(held) - 1
      BY <1>0, <1>8, <2>2, FS_RemoveElement DEF Release
    <3> QED BY <1>0, <1>8, <2>1, <2>2, <3>1 DEF Release
  <2>3. CASE Owned(p) \notin held
    <3>1. held' = held /\ slots' = slots
      BY <1>8, <2>3 DEF Release
    <3> QED BY <1>1, <2>1, <3>1
  <2> QED BY <2>2, <2>3
<1>9. CASE UNCHANGED vars
  BY <1>1, <1>9 DEF vars, InFlight
<1> QED
  BY <1>2, <1>3, <1>4, <1>5, <1>6, <1>7, <1>8, <1>9 DEF Next

(* What workers have is held, or the grant of an acquisition with a permit,  *)
(* and neither is more than the permits.                                     *)
LEMMA Headroom == IInv => ForegroundHeadroom
<1> SUFFICES ASSUME IInv PROVE ForegroundHeadroom
  OBVIOUS
<1> DEFINE Granted == {c \in Conns : \E w \in InFlight : c = got[w]}
           owner == [c \in Granted |-> CHOOSE w \in InFlight : c = got[w]]
           Used == UNION {InUse(w) : w \in Workers}
<1>0. /\ IsFiniteSet(InFlight) /\ IsFiniteSet(held) /\ IsFiniteSet(Granted)
      /\ Cardinality(InFlight) \in Nat /\ Cardinality(held) \in Nat
      /\ Cardinality(Granted) \in Nat /\ slots \in Int
  BY ConnsFinite, FS_Subset, FS_CardinalityType, LimitNat DEF IInv, Owners, Shape, Counted
<1>1. Cardinality(Granted) <= Cardinality(InFlight)
  <2>1. \A c \in Granted : owner[c] \in InFlight /\ c = got[owner[c]]
    OBVIOUS
  <2>2. owner \in Injection(Granted, InFlight)
    BY <2>1 DEF Injection, IsInjective
  <2> QED BY <1>0, <2>2, FS_Injection
<1>2. Used \subseteq held \cup Granted
  <2> SUFFICES ASSUME NEW w \in Workers, NEW c \in InUse(w) PROVE c \in held \cup Granted
    OBVIOUS
  <2>1. w \in Procs /\ c \in Conns /\ (c = sess[w] \/ (c = got[w] /\ at[w] # "releasing"))
    BY DEF InUse, Procs
  <2>2. CASE c = sess[w]
    BY <2>1, <2>2, NoConnIsNone DEF IInv, Owners, HeldByWorkers
  <2>3. CASE c = got[w] /\ at[w] # "releasing"
    <3>1. at[w] \in {"using", "end"}
      BY <2>1, <2>3, NoConnIsNone DEF IInv, Owners, Shape, Places, HasConn
    <3>2. CASE at[w] = "using"
      BY <2>3, <3>2 DEF IInv, Owners, HeldByWorkers
    <3>3. CASE at[w] = "end"
      BY <2>1, <2>3, <3>3, NoConnIsNone DEF IInv, Owners, Permitted, InFlight
    <3> QED BY <3>1, <3>2, <3>3
  <2> QED BY <2>1, <2>2, <2>3
<1>3. /\ IsFiniteSet(held \cup Granted)
      /\ Cardinality(held \cup Granted) =
           Cardinality(held) + Cardinality(Granted) - Cardinality(held \cap Granted)
      /\ Cardinality(held \cap Granted) \in Nat
  BY <1>0, FS_Union, FS_Intersection, FS_CardinalityType
<1>4. Cardinality(Used) <= Cardinality(held \cup Granted) /\ Cardinality(Used) \in Nat
  BY <1>2, <1>3, FS_Subset, FS_CardinalityType
<1>5. Cardinality(Used) <= slots
  BY <1>0, <1>1, <1>3, <1>4 DEF IInv, Counted
<1>6. Cardinality(Used) + Reserve <= Cardinality(Conns)
  BY <1>0, <1>4, <1>5, LimitNat, ReserveFits DEF IInv, Counted, Limit
<1> QED BY <1>6 DEF ForegroundHeadroom

(* Every step keeps the invariant. *)
LEMMA StepOk == IInv /\ [Next]_vars => IInv'
  BY OwnersStep, CountedStep DEF IInv

(* Each permit of the slots channel is an acquisition in flight or a held    *)
(* connection, whatever fails, is cancelled or nests (TraceAcquireStart,     *)
(* TraceAcquireEnd, TraceRelease).                                           *)
THEOREM PoolPermitsExact == Spec => []PermitsExact
<1>1. IInv => PermitsExact
  BY DEF IInv, Counted, PermitsExact, InFlight
<1> QED BY <1>1, InitOk, StepOk, PTL DEF Spec

(* Background work leaves the foreground its reserve (pool.go:20). *)
THEOREM PoolForegroundHeadroom == Spec => []ForegroundHeadroom
<1> QED BY Headroom, InitOk, StepOk, PTL DEF Spec
=============================================================================
