--------------------------- MODULE LosslessReader ---------------------------
(***************************************************************************)
(* What a client may rely on when it reads a tenant's events by position   *)
(* (internal/events/doc.go, migration 0101): the log only grows after the  *)
(* newest position, a client joins at some position, and                   *)
(* whenever its position moves it moves forward and takes exactly the      *)
(* readable events it passes.  Connections, pages, hints and transactions  *)
(* do not show.                                                            *)
(*                                                                         *)
(* SubscriptionStream implements this specification.                       *)
(***************************************************************************)
EXTENDS Integers

CONSTANTS
  Clients,
  Readable,   \* the kinds of events a client is sent
  Latest      \* the position of a client that has none yet

VARIABLES
  log,        \* the events so far: position -> kind
  top,        \* the newest position
  pos,        \* the position each client has
  got         \* the positions of the events each client has

vars == <<log, top, pos, got>>

Init ==
  /\ log = <<>> /\ top = 0
  /\ \A c \in Clients : pos[c] = Latest \/ pos[c] \in Nat
  /\ got = [c \in Clients |-> {}]

Passed(from, to) == {e \in DOMAIN log : log[e] \in Readable /\ from < e /\ e <= to}

(* Several events may appear at once, but never behind the newest position. *)
Grow ==
  /\ top' \in Nat /\ top' > top
  /\ DOMAIN log \subseteq DOMAIN log' /\ \A e \in DOMAIN log : log'[e] = log[e]
  /\ \A e \in DOMAIN log' \ DOMAIN log : top < e /\ e <= top'
  /\ UNCHANGED <<pos, got>>

Join(c) ==
  /\ pos[c] = Latest
  /\ \E p \in 0..top : pos' = [pos EXCEPT ![c] = p]
  /\ UNCHANGED <<log, top, got>>

Advance(c) ==
  /\ pos[c] # Latest
  /\ \E p \in 0..top :
       /\ pos[c] < p
       /\ pos' = [pos EXCEPT ![c] = p]
       /\ got' = [got EXCEPT ![c] = @ \cup Passed(pos[c], p)]
  /\ UNCHANGED <<log, top>>

Next == Grow \/ \E c \in Clients : Join(c) \/ Advance(c)

Spec == Init /\ [][Next]_vars
=============================================================================
