-------------------------- MODULE NotificationHub --------------------------
(***************************************************************************)
(* internal/db/listeners.go for one channel: every subscriber of the       *)
(* channel shares one hub, whose run goroutine owns one dedicated          *)
(* PostgreSQL session.  The hub starts with its first subscriber, ends     *)
(* with its last, reconnects after a lost session, and hands each hint to  *)
(* the subscribers' bounded mailboxes.  Hints are lossy by design: what    *)
(* replaces a lost one is a resync, on which a consumer rescans durable    *)
(* state.  listenerMu and h.mu make each critical section one step.        *)
(*                                                                         *)
(* PostgreSQL is external: an event committed while a session LISTENs is   *)
(* queued on it, and a session may end at any time.                        *)
(***************************************************************************)
EXTENDS FiniteSets, Naturals, Sequences

CONSTANTS
  Subs,       \* goroutines that subscribe, one subscription at a time
  Events,     \* events, each committed at most once
  Tenants,    \* tenants; a subscriber of AllTenants receives every event
  AllTenants,
  TenantOf,   \* the tenant of a subscriber or an event
  Resync,     \* the explicit rescan hint
  MaxHubs,    \* bound on the generations of the channel's hub
  Cap,        \* capacity of a subscriber's wake channel
  SubLimit    \* subscriptions of one hub

ASSUME CapIsPositive == Cap \in Nat \ {0}
ASSUME BoundsAreNat == MaxHubs \in Nat /\ SubLimit \in Nat
ASSUME ResyncIsNoEvent == Resync \notin Events
ASSUME TenantOfIsTotal == TenantOf \in [Subs \cup Events -> Tenants \cup {AllTenants}]

Hubs == 1..MaxHubs

VARIABLES
  shutdown,   \* "no", "draining" or "drained": CloseNotificationConnections
  listeners,  \* m.listeners[channel]: the hub new subscribers join, 0 if none
  pc,         \* run goroutine of each hub; "none" before it exists
  closing,    \* h.closing, which always comes with h.cancel()
  ready,      \* "no", or how the first connect ended: "ok" or "err"
  members,    \* h.subs
  session,    \* hubs with an open backend
  broken,     \* hubs whose backend ended unnoticed
  inflight,   \* hints queued on the hub's session
  at,         \* where each subscriber is
  hub,        \* the subscription's hub, 0 if none
  wake,       \* the subscription's mailbox
  due,        \* history: events committed since its scan that it must learn of
  committed,  \* history: events committed so far
  heard       \* history: subscriptions whose hub has LISTENed since they joined

hubs == <<listeners, pc, closing, ready, members>>
backend == <<session, broken, inflight>>
subscribers == <<at, hub, wake, due>>
history == <<committed, heard>>
vars == <<shutdown, hubs, backend, subscribers, history>>

Wanted(s, e) == TenantOf[s] \in {AllTenants, TenantOf[e]}
InBox(s) == {wake[s][i] : i \in 1..Len(wake[s])}

Init ==
  /\ shutdown = "no" /\ listeners = 0
  /\ pc = [g \in Hubs |-> "none"]
  /\ closing = [g \in Hubs |-> FALSE]
  /\ ready = [g \in Hubs |-> "no"]
  /\ members = [g \in Hubs |-> {}]
  /\ session = {} /\ broken = {}
  /\ inflight = [g \in Hubs |-> {}]
  /\ at = [s \in Subs |-> "out"]
  /\ hub = [s \in Subs |-> 0]
  /\ wake = [s \in Subs |-> <<>>]
  /\ due = [s \in Subs |-> {}]
  /\ committed = {} /\ heard = {}

-----------------------------------------------------------------------------
(* SubscribeNotifications.  A shut down pool and a full hub refuse, and a   *)
(* closing hub is waited for: no step.                                      *)

Joins(s, g) ==
  /\ members' = [members EXCEPT ![g] = @ \cup {s}]
  /\ hub' = [hub EXCEPT ![s] = g]
  /\ wake' = [wake EXCEPT ![s] = <<>>]
  /\ heard' = IF pc[g] \in {"rescan", "wait"} THEN heard \cup {s} ELSE heard \ {s}
  /\ at' = [at EXCEPT ![s] = "joining"]

\* Mutant of SubscribeNew: a closing hub is replaced at once.
SubscribeNewEager(s, g) ==
  /\ at[s] = "out" /\ shutdown = "no"
  /\ listeners # 0 => closing[listeners]
  /\ pc[g] = "none" /\ \A h \in Hubs : h < g => pc[h] # "none"
  /\ listeners' = g
  /\ pc' = [pc EXCEPT ![g] = "dial"]
  /\ Joins(s, g)
  /\ UNCHANGED <<shutdown, closing, ready, backend, due, committed>>

\* Mutant of SubscribeNew: the shutdown flag is not tested.
SubscribeNewLate(s, g) ==
  /\ at[s] = "out"
  /\ listeners = 0
  /\ pc[g] = "none" /\ \A h \in Hubs : h < g => pc[h] # "none"
  /\ listeners' = g
  /\ pc' = [pc EXCEPT ![g] = "dial"]
  /\ Joins(s, g)
  /\ UNCHANGED <<shutdown, closing, ready, backend, due, committed>>

SubscribeNew(s, g) ==
  /\ at[s] = "out" /\ shutdown = "no"
  /\ listeners = 0
  /\ pc[g] = "none" /\ \A h \in Hubs : h < g => pc[h] # "none"
  /\ listeners' = g
  /\ pc' = [pc EXCEPT ![g] = "dial"]
  /\ Joins(s, g)
  /\ UNCHANGED <<shutdown, closing, ready, backend, due, committed>>

SubscribeJoin(s) ==
  /\ at[s] = "out" /\ shutdown = "no"
  /\ listeners # 0 /\ ~closing[listeners]
  /\ Cardinality(members[listeners]) < SubLimit
  /\ Joins(s, listeners)
  /\ UNCHANGED <<shutdown, listeners, pc, closing, ready, backend, due, committed>>

\* h.ready is closed once, by the hub's first connect.  The consumer scans
\* durable state after it has subscribed.
SubscribeReturns(s) ==
  /\ at[s] = "joining" /\ ready[hub[s]] = "ok"
  /\ at' = [at EXCEPT ![s] = "on"]
  /\ due' = [due EXCEPT ![s] = {}]
  /\ UNCHANGED <<shutdown, hubs, backend, hub, wake, history>>

\* The critical section of Close.  It is reached from a failed first connect,
\* from the caller's context and from the consumer; once makes it run once.
Close(s) ==
  /\ at[s] \in {"joining", "on"}
  /\ LET g == hub[s] IN
     /\ members' = [members EXCEPT ![g] = @ \ {s}]
     /\ closing' = [closing EXCEPT ![g] = @ \/ members[g] = {s}]
  /\ at' = [at EXCEPT ![s] = "leaving"]
  /\ due' = [due EXCEPT ![s] = {}]
  /\ wake' = [wake EXCEPT ![s] = <<>>]
  /\ UNCHANGED <<shutdown, listeners, pc, ready, backend, hub, history>>

\* Mutant of CloseReturns: every subscriber waits for the backend.
CloseReturnsWithHub(s) ==
  /\ at[s] = "leaving"
  /\ pc[hub[s]] = "done"
  /\ at' = [at EXCEPT ![s] = "out"]
  /\ hub' = [hub EXCEPT ![s] = 0]
  /\ UNCHANGED <<shutdown, hubs, backend, wake, due, history>>

\* The last one waits for the hub's backend to close.
CloseReturns(s) ==
  /\ at[s] = "leaving"
  /\ closing[hub[s]] => pc[hub[s]] = "done"
  /\ at' = [at EXCEPT ![s] = "out"]
  /\ hub' = [hub EXCEPT ![s] = 0]
  /\ UNCHANGED <<shutdown, hubs, backend, wake, due, history>>

\* WaitForNotification and what the consumer does with the hint.
Wake(s) ==
  /\ at[s] = "on" /\ wake[s] # <<>>
  /\ wake' = [wake EXCEPT ![s] = Tail(@)]
  /\ due' = [due EXCEPT ![s] = IF Head(wake[s]) = Resync THEN {} ELSE @ \ {Head(wake[s])}]
  /\ UNCHANGED <<shutdown, hubs, backend, at, hub, history>>

-----------------------------------------------------------------------------
(* publish: to every member's mailbox, never waiting for a subscriber.      *)

Delivered(box, x) == IF Len(box) < Cap THEN Append(box, x) ELSE <<Resync>>

Publish(g, x) ==
  wake' = [s \in Subs |-> IF s \in members[g] /\ (x = Resync \/ Wanted(s, x))
                          THEN Delivered(wake[s], x) ELSE wake[s]]

-----------------------------------------------------------------------------
(* run.                                                                     *)

\* Connect and LISTEN; the first outcome closes ready.
DialOk(g) ==
  /\ pc[g] = "dial"
  /\ session' = session \cup {g}
  /\ ready' = [ready EXCEPT ![g] = IF @ = "no" THEN "ok" ELSE @]
  /\ pc' = [pc EXCEPT ![g] = IF ready[g] = "no" THEN "wait" ELSE "rescan"]
  /\ heard' = heard \cup members[g]
  /\ UNCHANGED <<shutdown, listeners, closing, members, broken, inflight, subscribers,
                 committed>>

\* Also when runCtx has ended before or during the connect.
DialFails(g) ==
  /\ pc[g] = "dial"
  /\ ready' = [ready EXCEPT ![g] = IF @ = "no" THEN "err" ELSE @]
  /\ pc' = [pc EXCEPT ![g] = "lost"]
  /\ UNCHANGED <<shutdown, listeners, closing, members, backend, subscribers, history>>

\* Mutant of Rescan: reconnecting publishes no rescan.
RescanSkipped(g) ==
  /\ pc[g] = "rescan"
  /\ pc' = [pc EXCEPT ![g] = "wait"]
  /\ UNCHANGED <<shutdown, listeners, closing, ready, members, backend, subscribers,
                 history>>

\* "LISTEN precedes the reconnect rescan."
Rescan(g) ==
  /\ pc[g] = "rescan"
  /\ Publish(g, Resync)
  /\ pc' = [pc EXCEPT ![g] = "wait"]
  /\ UNCHANGED <<shutdown, listeners, closing, ready, members, backend, at, hub, due,
                 history>>

Receive(g, e) ==
  /\ pc[g] = "wait" /\ e \in inflight[g]
  /\ inflight' = [inflight EXCEPT ![g] = @ \ {e}]
  /\ Publish(g, e)
  /\ UNCHANGED <<shutdown, hubs, session, broken, at, hub, due, history>>

\* The wait ends with an error, with runCtx or with the session's lifetime,
\* and the backend is closed with whatever is still queued on it.
WaitEnds(g) ==
  /\ pc[g] = "wait"
  /\ session' = session \ {g} /\ broken' = broken \ {g}
  /\ inflight' = [inflight EXCEPT ![g] = {}]
  /\ pc' = [pc EXCEPT ![g] = "lost"]
  /\ UNCHANGED <<shutdown, listeners, closing, ready, members, subscribers, history>>

Lost(g) ==
  /\ pc[g] = "lost"
  /\ IF closing[g]
     THEN pc' = [pc EXCEPT ![g] = "exit"] /\ UNCHANGED wake
     ELSE pc' = [pc EXCEPT ![g] = "sleep"] /\ Publish(g, Resync)
  /\ UNCHANGED <<shutdown, listeners, closing, ready, members, backend, at, hub, due,
                 history>>

\* Mutant of Sleep: a hub that lost its session does not connect again.
SleepForever(g) ==
  /\ pc[g] = "sleep"
  /\ closing[g] /\ pc' = [pc EXCEPT ![g] = "exit"]
  /\ UNCHANGED <<shutdown, listeners, closing, ready, members, backend, subscribers,
                 history>>

Sleep(g) ==
  /\ pc[g] = "sleep"
  /\ \/ closing[g] /\ pc' = [pc EXCEPT ![g] = "exit"]
     \/ ~closing[g] /\ pc' = [pc EXCEPT ![g] = "dial"]
  /\ UNCHANGED <<shutdown, listeners, closing, ready, members, backend, subscribers,
                 history>>

\* The deferred function deletes the channel's entry and closes h.done.
Exit(g) ==
  /\ pc[g] = "exit"
  /\ listeners' = 0
  /\ pc' = [pc EXCEPT ![g] = "done"]
  /\ UNCHANGED <<shutdown, closing, ready, members, backend, subscribers, history>>

-----------------------------------------------------------------------------
(* CloseNotificationConnections.                                            *)

ShutdownBegins ==
  /\ shutdown = "no"
  /\ shutdown' = "draining"
  /\ closing' = [g \in Hubs |-> closing[g] \/ g = listeners]
  /\ UNCHANGED <<listeners, pc, ready, members, backend, subscribers, history>>

ShutdownReturns ==
  /\ shutdown = "draining"
  /\ \A g \in Hubs : pc[g] \in {"none", "done"}
  /\ shutdown' = "drained"
  /\ UNCHANGED <<hubs, backend, subscribers, history>>

-----------------------------------------------------------------------------
(* PostgreSQL.                                                              *)

\* A commit queues the hint on every session that LISTENs at that moment.
Commit(e) ==
  /\ e \notin committed
  /\ committed' = committed \cup {e}
  /\ inflight' = [g \in Hubs |-> IF g \in session \ broken THEN inflight[g] \cup {e}
                                 ELSE inflight[g]]
  /\ due' = [s \in Subs |-> IF at[s] = "on" /\ Wanted(s, e) THEN due[s] \cup {e} ELSE due[s]]
  /\ UNCHANGED <<shutdown, hubs, session, broken, at, hub, wake, heard>>

SessionEnds(g) ==
  /\ g \in session \ broken
  /\ broken' = broken \cup {g}
  /\ UNCHANGED <<shutdown, hubs, session, inflight, subscribers, history>>

-----------------------------------------------------------------------------
RunStep(g) ==
  \/ DialOk(g) \/ DialFails(g) \/ Rescan(g) \/ WaitEnds(g) \/ Lost(g) \/ Sleep(g) \/ Exit(g)
  \/ \E e \in Events : Receive(g, e)

Next ==
  \/ \E s \in Subs :
       \/ SubscribeJoin(s) \/ SubscribeReturns(s) \/ Close(s) \/ CloseReturns(s) \/ Wake(s)
       \/ \E g \in Hubs : SubscribeNew(s, g)
  \/ \E g \in Hubs : RunStep(g) \/ SessionEnds(g)
  \/ ShutdownBegins \/ ShutdownReturns
  \/ \E e \in Events : Commit(e)

Spec == Init /\ [][Next]_vars

\* The run goroutine is scheduled, connecting ends within its ten seconds,
\* the pause within one, and a wait on a dead or cancelled session with an
\* error.  A queued hint is received; a consumer handles what it is handed.
Fairness ==
  /\ \A g \in Hubs :
       /\ WF_vars(DialOk(g) \/ DialFails(g) \/ Rescan(g) \/ Lost(g) \/ Sleep(g) \/ Exit(g))
       /\ WF_vars((closing[g] \/ g \in broken) /\ WaitEnds(g))
       /\ \A e \in Events : WF_vars(Receive(g, e))
  /\ \A s \in Subs : WF_vars(Wake(s)) /\ WF_vars(CloseReturns(s))

LiveSpec == Spec /\ Fairness

-----------------------------------------------------------------------------
\* Every variable holds a value its Go or PostgreSQL counterpart can have.
TypeOK ==
  /\ shutdown \in {"no", "draining", "drained"}
  /\ listeners \in Hubs \cup {0}
  /\ pc \in [Hubs -> {"none", "dial", "rescan", "wait", "lost", "sleep", "exit", "done"}]
  /\ closing \in [Hubs -> BOOLEAN]
  /\ ready \in [Hubs -> {"no", "ok", "err"}]
  /\ members \in [Hubs -> SUBSET Subs]
  /\ session \subseteq Hubs /\ broken \subseteq session
  /\ inflight \in [Hubs -> SUBSET Events]
  /\ at \in [Subs -> {"out", "joining", "on", "leaving"}]
  /\ hub \in [Subs -> Hubs \cup {0}]
  /\ \A s \in Subs : InBox(s) \subseteq Events \cup {Resync} /\ Len(wake[s]) <= Cap
  /\ due \in [Subs -> SUBSET Events]
  /\ committed \subseteq Events /\ heard \subseteq Subs

\* "There is one session per channel per main pool" (listeners.go:34): a
\* replacement hub never opens a backend beside its predecessor's.
OneBackend == Cardinality(session) <= 1

\* The hub will hand every member a resync before it waits for hints again.
WillResync(g) == pc[g] \in {"dial", "rescan", "lost", "sleep"} \/ g \in broken

\* No lost wake-up: whatever the interleaving of commits, lost sessions,
\* reconnects and full mailboxes, an event an active subscriber has not
\* learned of is in its mailbox, queued on the session, or covered by a
\* resync it holds or will be handed (listeners.go:17, 221, 261).
EventsCovered ==
  \A s \in Subs : at[s] = "on" =>
    \A e \in due[s] : \/ {e, Resync} \cap InBox(s) # {}
                      \/ e \in inflight[hub[s]]
                      \/ WillResync(hub[s])
                      \/ closing[hub[s]]

\* "drains all sessions at server/test shutdown and refuses late background
\* subscriptions" (listeners.go:295).
ShutdownIsFinal == shutdown = "drained" => session = {} /\ listeners = 0

\* "SubscribeNotifications returns only once LISTEN is established"
\* (listeners.go:80): the hub LISTENed at some time since the call began.
ReturnsOnlyListening == \A s \in Subs : at[s] = "on" => s \in heard

\* Every event reaches an active subscriber, as itself or through a rescan,
\* even when no connect ever succeeds again.
EventsReachSubscribers ==
  \A s \in Subs, e \in Events : e \in due[s] ~> (e \notin due[s] \/ closing[hub[s]])

\* Close returns: the last subscriber's wait for the backend always ends.
CloseAlwaysReturns == \A s \in Subs : at[s] = "leaving" ~> at[s] = "out"
=============================================================================
