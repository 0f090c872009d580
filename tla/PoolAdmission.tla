--------------------------- MODULE PoolAdmission ---------------------------
(***************************************************************************)
(* internal/db/pool.go: background work and requests share one pgx pool,   *)
(* and PoolMonitor, as the pool's acquire and release tracer, admits at    *)
(* most MaxConns - Reserve background acquisitions through the `slots'     *)
(* channel.  A worker may retain its connection across nested work; inside *)
(* such a session the pool itself is out of bounds.                        *)
(*                                                                         *)
(* pgxpool is external: Acquire calls TraceAcquireStart, waits for a free  *)
(* connection, calls TraceAcquireEnd with a connection or an error; Release *)
(* calls TraceRelease before the connection is free again.                 *)
(***************************************************************************)
EXTENDS FiniteSets, Integers

CONSTANTS
  Workers,    \* goroutines whose context is marked Background
  Requests,   \* goroutines of foreground requests and probes
  Conns,      \* the pool's connections: MaxConns of them
  NoConn,
  Reserve     \* ForegroundReserve

ASSUME ConnsFinite == IsFiniteSet(Conns)
ASSUME ReserveFits == Reserve \in Nat /\ Cardinality(Conns) > Reserve
ASSUME NoConnIsNone == NoConn \notin Conns
ASSUME Disjoint == Workers \cap Requests = {}

Procs == Workers \cup Requests

\* Mutant of Limit: no headroom is kept.
LimitWhole == Cardinality(Conns)

\* The capacity of the slots channel.
Limit == Cardinality(Conns) - Reserve

VARIABLES
  slots,      \* len(m.slots)
  held,       \* m.held
  waiting,    \* m.waiting
  free,       \* idle connections of the pool
  at,         \* where each goroutine is
  permit,     \* the acquisition's permit flag
  done,       \* the acquisition's context has ended
  got,        \* connection of the current acquisition
  sess        \* connection retained by WithConnection

monitor == <<slots, held, waiting>>
vars == <<monitor, free, at, permit, done, got, sess>>

Init ==
  /\ slots = 0 /\ held = {} /\ waiting = 0
  /\ free = Conns
  /\ at = [p \in Procs |-> "out"]
  /\ permit = [p \in Procs |-> FALSE]
  /\ done = [p \in Procs |-> FALSE]
  /\ got = [p \in Procs |-> NoConn]
  /\ sess = [p \in Procs |-> NoConn]

-----------------------------------------------------------------------------
(* TraceAcquireStart.                                                       *)

\* Mutant of AcquireStart: a retained session is not recognised.
AcquireStartNested(p) ==
  /\ at[p] = "out"
  /\ waiting' = waiting + 1
  /\ permit' = [permit EXCEPT ![p] = FALSE]
  /\ done' = [done EXCEPT ![p] = FALSE]
  /\ at' = [at EXCEPT ![p] = IF p \in Workers THEN "admit" ELSE "pool"]
  /\ UNCHANGED <<slots, held, free, got, sess>>

\* A direct pool call inside a retained session continues with a cancelled
\* context.  db.Acquire and beginTx use the session and never get here.
AcquireStart(p) ==
  /\ at[p] = "out"
  /\ waiting' = waiting + 1
  /\ permit' = [permit EXCEPT ![p] = FALSE]
  /\ done' = [done EXCEPT ![p] = sess[p] # NoConn]
  /\ at' = [at EXCEPT ![p] = IF sess[p] = NoConn /\ p \in Workers THEN "admit" ELSE "pool"]
  /\ UNCHANGED <<slots, held, free, got, sess>>

Admit(p) ==
  /\ at[p] = "admit" /\ slots < Limit
  /\ slots' = slots + 1
  /\ permit' = [permit EXCEPT ![p] = TRUE]
  /\ at' = [at EXCEPT ![p] = "pool"]
  /\ UNCHANGED <<held, waiting, free, done, got, sess>>

AdmitCancelled(p) ==
  /\ at[p] = "admit" /\ done[p]
  /\ at' = [at EXCEPT ![p] = "pool"]
  /\ UNCHANGED <<monitor, free, permit, done, got, sess>>

-----------------------------------------------------------------------------
(* The pool (external).                                                     *)

ContextEnds(p) ==
  /\ at[p] \in {"admit", "pool"} /\ ~done[p]
  /\ done' = [done EXCEPT ![p] = TRUE]
  /\ UNCHANGED <<monitor, free, at, permit, got, sess>>

\* A cancelled context is never granted a connection.
PoolGrants(p, c) ==
  /\ at[p] = "pool" /\ ~done[p] /\ c \in free
  /\ free' = free \ {c}
  /\ got' = [got EXCEPT ![p] = c]
  /\ at' = [at EXCEPT ![p] = "end"]
  /\ UNCHANGED <<monitor, permit, done, sess>>

\* The context ended, or no connection could be opened.
PoolFails(p) ==
  /\ at[p] = "pool"
  /\ at' = [at EXCEPT ![p] = "end"]
  /\ UNCHANGED <<monitor, free, permit, done, got, sess>>

PoolTakesBack(p) ==
  /\ at[p] = "releasing"
  /\ free' = free \cup {got[p]}
  /\ got' = [got EXCEPT ![p] = NoConn]
  /\ at' = [at EXCEPT ![p] = "out"]
  /\ UNCHANGED <<monitor, permit, done, sess>>

-----------------------------------------------------------------------------
(* TraceAcquireEnd, TraceRelease and WithConnection.                        *)

\* Mutant of AcquireEnd: a failed acquisition keeps its permit.
AcquireEndLeaks(p) ==
  /\ at[p] = "end"
  /\ waiting' = waiting - 1
  /\ held' = IF permit[p] /\ got[p] # NoConn THEN held \cup {got[p]} ELSE held
  /\ at' = [at EXCEPT ![p] = IF got[p] = NoConn THEN "out" ELSE "using"]
  /\ UNCHANGED <<slots, free, permit, done, got, sess>>

AcquireEnd(p) ==
  /\ at[p] = "end"
  /\ waiting' = waiting - 1
  /\ held' = IF permit[p] /\ got[p] # NoConn THEN held \cup {got[p]} ELSE held
  /\ slots' = IF permit[p] /\ got[p] = NoConn THEN slots - 1 ELSE slots
  /\ at' = [at EXCEPT ![p] = IF got[p] = NoConn THEN "out" ELSE "using"]
  /\ UNCHANGED <<free, permit, done, got, sess>>

WithConnection(p) ==
  /\ at[p] = "using"
  /\ sess' = [sess EXCEPT ![p] = got[p]]
  /\ got' = [got EXCEPT ![p] = NoConn]
  /\ at' = [at EXCEPT ![p] = "out"]
  /\ UNCHANGED <<monitor, free, permit, done>>

\* The connection a goroutine can give back: its own or its session's.
Owned(p) == IF at[p] = "using" THEN got[p] ELSE sess[p]

\* delete(held) and the receive from slots are one step: between them only a
\* permit is still taken, which admits nobody.
Release(p) ==
  /\ at[p] \in {"out", "using"} /\ Owned(p) # NoConn
  /\ held' = held \ {Owned(p)}
  /\ slots' = IF Owned(p) \in held THEN slots - 1 ELSE slots
  /\ got' = [got EXCEPT ![p] = Owned(p)]
  /\ sess' = [sess EXCEPT ![p] = NoConn]
  /\ at' = [at EXCEPT ![p] = "releasing"]
  /\ UNCHANGED <<waiting, free, permit, done>>

-----------------------------------------------------------------------------
Next ==
  \E p \in Procs :
    \/ AcquireStart(p) \/ Admit(p) \/ AdmitCancelled(p) \/ ContextEnds(p)
    \/ PoolFails(p) \/ PoolTakesBack(p) \/ AcquireEnd(p) \/ WithConnection(p) \/ Release(p)
    \/ \E c \in Conns : PoolGrants(p, c)

Spec == Init /\ [][Next]_vars

\* The pool hands connections out in order of arrival, ends a cancelled wait
\* and takes a released connection back; tracer callbacks return.
PoolFairness ==
  \A p \in Procs :
    /\ SF_vars(\E c \in Conns : PoolGrants(p, c))
    /\ WF_vars(done[p] /\ PoolFails(p))
    /\ WF_vars(PoolTakesBack(p)) /\ WF_vars(AcquireEnd(p)) /\ WF_vars(AdmitCancelled(p))

\* Requests give their connection back; workers may keep theirs for ever.
RequestSpec == Spec /\ PoolFairness /\ \A r \in Requests : SF_vars(Release(r))

-----------------------------------------------------------------------------
\* Permits are exact: each is an acquisition in flight or a held connection,
\* through cancelled, failed and nested acquisitions (none leaks, none is
\* returned twice), so the background limit never drifts.
PermitsExact ==
  slots = Cardinality({p \in Procs : permit[p] /\ at[p] \in {"pool", "end"}})
            + Cardinality(held)

InUse(p) == {c \in Conns : c = sess[p] \/ (c = got[p] /\ at[p] # "releasing")}

\* "Two slots are reserved for foreground requests and probes" (pool.go:20):
\* background work never keeps more than MaxConns - Reserve connections.
ForegroundHeadroom ==
  Cardinality(UNION {InUse(w) : w \in Workers}) + Reserve <= Cardinality(Conns)

\* With every worker stuck on its connection for ever, a request still gets
\* a connection: the reserve is worth what it says.
RequestsServed == \A r \in Requests : at[r] = "pool" ~> at[r] # "pool"
=============================================================================
