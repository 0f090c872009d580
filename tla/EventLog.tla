------------------------------ MODULE EventLog ------------------------------
(***************************************************************************)
(* The tenant event log: events.Append inserts in the caller's             *)
(* transaction, and a trigger allocates the id from the tenant's row of    *)
(* event_counters (migration 0101).  The row stays locked until the        *)
(* transaction ends, so rows and counter become visible together and in    *)
(* id order.                                                               *)
(***************************************************************************)
EXTENDS Integers, FiniteSets, FiniteSetsExt

CONSTANTS
  Writers,    \* transactions that append
  Kinds,      \* event types, as far as readers tell them apart
  MaxEvents   \* bound on ids

ASSUME MaxEventsNat == MaxEvents \in Nat

VARIABLES
  log,        \* committed rows: id -> kind
  last,       \* committed event_counters.last_id
  pend        \* uncommitted rows of each writer: id -> kind

logVars == <<log, last, pend>>

Ids == 1..MaxEvents
NoRows == <<>>

LogInit ==
  /\ log = NoRows /\ last = 0
  /\ pend = [w \in Writers |-> NoRows]

\* The rows with one more.
With(rows, id, k) == [e \in DOMAIN rows \cup {id} |-> IF e = id THEN k ELSE rows[e]]

\* The writer whose transaction holds the counter's row lock, if any.
Locker == {w \in Writers : pend[w] # NoRows}

\* Mutant of Append: ids come from a sequence, which holds no lock.
AppendSequence(w, k) ==
  LET id == Max({last} \cup UNION {DOMAIN pend[v] : v \in Writers}) + 1
  IN  /\ id <= MaxEvents
      /\ pend' = [pend EXCEPT ![w] = With(@, id, k)]
      /\ UNCHANGED <<log, last>>

Append(w, k) ==
  LET id == last + Cardinality(DOMAIN pend[w]) + 1
  IN  /\ Locker \subseteq {w}
      /\ id <= MaxEvents
      /\ pend' = [pend EXCEPT ![w] = With(@, id, k)]
      /\ UNCHANGED <<log, last>>

Commit(w) ==
  /\ w \in Locker
  /\ log' = [e \in DOMAIN log \cup DOMAIN pend[w] |->
               IF e \in DOMAIN log THEN log[e] ELSE pend[w][e]]
  /\ last' = Max({last} \cup DOMAIN pend[w])
  /\ pend' = [pend EXCEPT ![w] = NoRows]

\* The transaction fails: rows and counter roll back together.
Rollback(w) ==
  /\ w \in Locker
  /\ pend' = [pend EXCEPT ![w] = NoRows]
  /\ UNCHANGED <<log, last>>
=============================================================================
