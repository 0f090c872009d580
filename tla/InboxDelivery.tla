--------------------------- MODULE InboxDelivery ---------------------------
(***************************************************************************)
(* internal/inbox with the managed drain of internal/harness: one agent    *)
(* principal, one of its harness sessions, the adapters of one address and *)
(* the messages sent to them.  Every action is one database transaction    *)
(* except where the code splits a decision in two: a reader selects its    *)
(* page before it locks the rows, and the sweeper selects its candidates   *)
(* in a transaction of its own.                                            *)
(*                                                                         *)
(* Time is a set of events: a deadline passes, a lease runs out.  Message  *)
(* m is the m-th message sent, its number the order of its sent event.     *)
(* The n-th lease of a delivery has the token n; its holder may present it *)
(* at any later time, so no worker state is needed.                        *)
(*                                                                         *)
(*   agent       an agent to the session      chat  a person to it         *)
(*   desk        a desk answer to the session                              *)
(*   steer       to the address: its primary target is a local adapter,    *)
(*   simple      its fallback the routine webhook; simple is not for a     *)
(*               steering adapter                                          *)
(*   untargeted  to the principal, no adapter                              *)
(*   pull        to a pull assistant                                       *)
(***************************************************************************)
EXTENDS Integers, FiniteSets

CONSTANTS
  N,            \* messages sent
  Mixes,        \* which kinds of message are sent together
  MaxAttempts,  \* delivery settings: max_attempts
  RoutineCap    \* the dispatcher's own cap (8)

ASSUME NAssumption == N \in Nat
ASSUME CapAssumption == MaxAttempts \in Nat \ {0} /\ RoutineCap \in Nat \ {0}

AllKinds ==
  {"agent", "chat", "desk", "steer", "simple", "untargeted", "pull"}

Messages == 1..N

ASSUME MixAssumption == Mixes \subseteq [Messages -> AllKinds]

Adapters == {"local", "routine"}

VARIABLES
  \* inbox_messages
  kind, acked, fetched,
  hidden,       \* expires_at has passed
  cancelled,
  picked,       \* pickup_lease_until is in the future
  \* inbox_receipts
  receipt, reason,
  due,          \* deliver_by has passed; the pull assistant has lapsed
  \* inbox_message_deliveries
  delivery, target, token, attempts,
  live,         \* lease_until is in the future
  \* harness_deliveries, harness_sessions
  drain, session,
  \* inbox_message_cursors
  cursor,
  \* System's notices
  notices,
  \* a reader's selected page, the sweeper's selected candidates
  page, candidates,
  \* history: content handed out of the server
  exposed

row == <<kind, acked, fetched, hidden, cancelled, picked>>
proof == <<receipt, reason, notices>>
lease == <<delivery, target, token, attempts, live>>
vars == <<row, proof, due, lease, drain, session, cursor, page, candidates,
          exposed>>

Init ==
  /\ kind \in Mixes
  /\ acked = {} /\ fetched = {} /\ hidden = {} /\ cancelled = {}
  /\ picked = {}
  /\ receipt = [m \in Messages |-> "none"]
  /\ reason = [m \in Messages |-> ""]
  /\ due = {}
  /\ delivery = [m \in Messages |-> "none"]
  /\ target = [m \in Messages |-> "none"]
  /\ token = [m \in Messages |-> 0]
  /\ attempts = [m \in Messages |-> 0]
  /\ live = {}
  /\ drain = [m \in Messages |-> "none"]
  /\ session = "running"
  /\ cursor = [a \in Adapters |-> 0]
  /\ notices = [m \in Messages |-> 0]
  /\ page = {}
  /\ candidates = {}
  /\ exposed = {}

Bound(m) == kind[m] \in {"agent", "chat", "desk"}
Sent(m) == receipt[m] # "none"

(* The tenant fence (attachedmsg.Lock).  A reader holds it from its select *)
(* to its commit; of the actions below it excludes those that take it.     *)
Fence == page = {}

\* Still for a recipient to read: what every read path's query asks of a row.
Readable(m) == Sent(m) /\ m \notin acked /\ m \notin hidden

OpenLease(m) == drain[m] \in {"leased", "stale"}

\* Mutant of LiveLease: a drain lease never ages.
LiveLeaseForever(m) ==
  \/ delivery[m] = "pending" /\ m \in live
  \/ OpenLease(m)

LiveLease(m) ==
  \/ delivery[m] = "pending" /\ m \in live
  \/ drain[m] = "leased"
-----------------------------------------------------------------------------
(* Send.  A compat send has a delivery row, a plain one has none and may   *)
(* carry an expiry of the sender's.                                        *)
DeliveryOf(m) ==
  (IF kind[m] = "untargeted" THEN {"blocked"} ELSE {"pending"})
    \cup (IF kind[m] \in {"desk", "steer", "simple"} THEN {} ELSE {"none"})

TargetOf(m) == IF kind[m] \in {"steer", "simple"} THEN "local" ELSE "none"

Send(m) ==
  /\ Fence
  /\ ~Sent(m) /\ \A n \in 1..(m - 1) : Sent(n)
  /\ Bound(m) => session = "running"
  /\ receipt' = [receipt EXCEPT ![m] = "queued"]
  /\ \E d \in DeliveryOf(m) : delivery' = [delivery EXCEPT ![m] = d]
  /\ target' = [target EXCEPT ![m] = TargetOf(m)]
  /\ UNCHANGED <<row, reason, notices, due, token, attempts, live, drain,
                 session, cursor, page, candidates, exposed>>

(* The assistant policy refuses the message: it is stored failed and its   *)
(* sender has the refusal as the answer of the send.                       *)
Refuse(m) ==
  /\ Fence
  /\ ~Sent(m) /\ \A n \in 1..(m - 1) : Sent(n)
  /\ kind[m] \in {"steer", "simple", "pull"}
  /\ receipt' = [receipt EXCEPT ![m] = "failed"]
  /\ reason' = [reason EXCEPT ![m] = "refused"]
  /\ \E d \in IF kind[m] = "pull" THEN {"dead", "none"} ELSE {"dead"} :
       delivery' = [delivery EXCEPT ![m] = d]
  /\ target' = [target EXCEPT ![m] = TargetOf(m)]
  /\ hidden' = hidden \cup {m}
  /\ UNCHANGED <<kind, acked, fetched, cancelled, picked, notices, due,
                 token, attempts, live, drain, session, cursor,
                 page, candidates, exposed>>
-----------------------------------------------------------------------------
(* Time *)

(* deliver_by passes; for a pull message, which has none, the assistant is *)
(* disabled, its keys are revoked or its seven days are over.              *)
DeadlinePasses(m) ==
  /\ receipt[m] = "queued" /\ m \notin due
  /\ kind[m] = "pull" => Fence
  /\ due' = due \cup {m}
  /\ UNCHANGED <<row, proof, lease, drain, session, cursor, page, candidates,
                 exposed>>

(* A pull assistant is enabled again or gets a new key, under the fence. *)
Restored(m) ==
  /\ kind[m] = "pull" /\ m \in due /\ Fence
  /\ due' = due \ {m}
  /\ UNCHANGED <<row, proof, lease, drain, session, cursor, page, candidates,
                 exposed>>

(* The sender's own expires_at passes. *)
Expires(m) ==
  /\ receipt[m] = "queued" /\ delivery[m] = "none"
  /\ hidden' = hidden \cup {m}
  /\ UNCHANGED <<kind, acked, fetched, cancelled, picked, proof, due, lease,
                 drain, session, cursor, page, candidates, exposed>>

LeaseEnds(m) ==
  /\ m \in live
  /\ live' = live \ {m}
  /\ UNCHANGED <<row, proof, due, delivery, target, token, attempts, drain,
                 session, cursor, page, candidates, exposed>>

DrainLeaseAges(m) ==
  /\ drain[m] = "leased"
  /\ drain' = [drain EXCEPT ![m] = "stale"]
  /\ UNCHANGED <<row, proof, due, lease, session, cursor, page, candidates,
                 exposed>>

PickupLeaseEnds(m) ==
  /\ m \in picked
  /\ picked' = picked \ {m}
  /\ UNCHANGED <<kind, acked, fetched, hidden, cancelled, proof, due, lease,
                 drain, session, cursor, page, candidates, exposed>>

Overdue(m) == m \in due \cup hidden
-----------------------------------------------------------------------------
(* The two ends of a message *)

(* The receiver confirmed it: confirmReceived after an acknowledgement. *)
Confirm(m) ==
  /\ acked' = acked \cup {m}
  /\ receipt' = [receipt EXCEPT ![m] = IF @ = "queued" THEN "handed_off" ELSE @]
  /\ delivery' = [delivery EXCEPT
                    ![m] = IF @ \in {"pending", "blocked"} THEN "delivered" ELSE @]
  /\ token' = [token EXCEPT ![m] = 0]
  /\ live' = live \ {m}

(* Desk answers and chat wait for a pickup; chat only until it expires. *)
Waits(m, why) ==
  \/ kind[m] = "desk"
  \/ kind[m] = "chat" /\ (why = "no_listener" \/ m \notin hidden)

(* failMessage goes ahead: the row is re-read under its lock.  A pull      *)
(* message fails only while its assistant has lapsed, whatever the caller's *)
(* reason.                                                                 *)
CanFail(m, why, respectLease) ==
  /\ m \notin acked
  /\ receipt[m] = "queued"
  /\ kind[m] = "pull" => Overdue(m)
  /\ kind[m] # "pull" /\ why \in {"no_listener", "deadline"} => ~Waits(m, why)
  /\ respectLease => ~LiveLease(m)

(* failMessage's writes for every message of S, in one transaction.  The   *)
(* notice is keyed by the message: a second one is not written.            *)
Fail(S, why) ==
  /\ receipt' = [m \in Messages |-> IF m \in S THEN "failed" ELSE receipt[m]]
  /\ reason' = [m \in Messages |-> IF m \in S THEN why ELSE reason[m]]
  /\ notices' = [m \in Messages |->
                   IF m \in S /\ notices[m] = 0 THEN 1 ELSE notices[m]]
  /\ delivery' = [m \in Messages |->
                    IF m \in S /\ delivery[m] # "none" THEN "dead" ELSE delivery[m]]
  /\ token' = [m \in Messages |-> IF m \in S THEN 0 ELSE token[m]]
  /\ live' = live \ S
  /\ hidden' = hidden \cup S

Release(m) == drain' = [drain EXCEPT ![m] = IF OpenLease(m) THEN "released" ELSE @]
-----------------------------------------------------------------------------
(* The recipient reads its inbox: a long poll, the stream or a hook.  A    *)
(* session's page has its own messages and the unbound ones; the caller's  *)
(* after, limit and exact choose among them.                               *)
Available(m) == m \notin picked /\ ~OpenLease(m)

Selectable(m, withSession) ==
  /\ Readable(m)
  /\ Bound(m) => withSession /\ Available(m)

SelectPage(withSession) ==
  /\ Fence
  /\ withSession => session = "running"
  /\ page' \in SUBSET {m \in Messages : Selectable(m, withSession)} \ {{}}
  /\ UNCHANGED <<row, proof, due, lease, drain, session, cursor, candidates,
                 exposed>>

\* Mutant of Alive: the selected rows are not read again under their locks.
AliveUnchecked == page

(* handOver locks the rows and keeps those that are still to be read. *)
Alive == {m \in page : Selectable(m, TRUE)}

HandOver ==
  /\ page # {}
  /\ fetched' = fetched \cup Alive
  /\ picked' = picked \cup {m \in Alive : kind[m] = "chat"}
  /\ exposed' = exposed \cup Alive
  /\ page' = {}
  /\ UNCHANGED <<kind, acked, hidden, cancelled, proof, due, lease, drain,
                 session, cursor, candidates>>

Ack(m) ==
  /\ Fence
  /\ Sent(m) /\ m \notin acked
  /\ Bound(m) => session = "running"
  /\ receipt[m] # "failed"
  /\ Confirm(m)
  /\ UNCHANGED <<kind, fetched, hidden, cancelled, picked, reason, notices,
                 due, target, attempts, drain, session, cursor, page,
                 candidates, exposed>>

(* A person takes back a message, or a desk answer, nobody was offered. *)
Cancel(m) ==
  /\ Fence
  /\ kind[m] \in {"chat", "desk"} /\ delivery[m] # "none" /\ m \notin cancelled
  /\ m \notin fetched /\ m \notin acked /\ receipt[m] # "handed_off"
  /\ drain[m] = "none"
  /\ cancelled' = cancelled \cup {m}
  /\ hidden' = hidden \cup {m}
  /\ receipt' = [receipt EXCEPT ![m] = IF @ = "queued" THEN "failed" ELSE @]
  /\ reason' = [reason EXCEPT ![m] = IF receipt[m] = "queued" THEN "cancelled" ELSE @]
  /\ UNCHANGED <<kind, acked, fetched, picked, notices, due, lease, drain,
                 session, cursor, page, candidates, exposed>>
-----------------------------------------------------------------------------
(* The adapters of the address.  One address is served in sent order.      *)
OnAddress(m) ==
  kind[m] \in {"steer", "simple", "untargeted"} /\ delivery[m] # "none"

\* Mutant of Waiting: the queue is the pending deliveries.
WaitingPending(a, m) ==
  /\ OnAddress(m) /\ m \notin acked /\ delivery[m] = "pending"
  /\ m > cursor[a]

Waiting(a, m) ==
  /\ OnAddress(m) /\ m \notin acked /\ delivery[m] # "dead"
  /\ m > cursor[a]

Head(a, m) == Waiting(a, m) /\ \A n \in 1..(m - 1) : ~Waiting(a, n)

(* nextRoutine: the dispatcher has a ready delivery, which need not be the *)
(* head that its claim then takes.                                         *)
Dispatches ==
  \E n \in Messages :
    /\ target[n] = "routine" /\ delivery[n] = "pending"
    /\ attempts[n] < RoutineCap /\ n \notin acked /\ n \notin live

\* Mutant of Spent: one attempt too many.
SpentLate(m) == attempts[m] > MaxAttempts

Spent(m) == attempts[m] >= MaxAttempts

Claimable(a, m) ==
  /\ Fence
  /\ a = "routine" => Dispatches
  /\ Head(a, m)
  /\ delivery[m] = "pending" /\ m \notin live

(* A simple message is not for a steering adapter: the claim reroutes it. *)
TargetAtClaim(m) ==
  IF kind[m] = "simple" /\ target[m] = "local" THEN "routine" ELSE target[m]

Claim(a, m) ==
  /\ Claimable(a, m)
  /\ ~(Spent(m) /\ CanFail(m, "attempts", FALSE))
  /\ target' = [target EXCEPT ![m] = TargetAtClaim(m)]
  /\ IF TargetAtClaim(m) = a
       THEN /\ token' = [token EXCEPT ![m] = attempts[m] + 1]
            /\ attempts' = [attempts EXCEPT ![m] = @ + 1]
            /\ live' = live \cup {m}
            /\ fetched' = fetched \cup {m}
            /\ exposed' = exposed \cup {m}
       ELSE UNCHANGED <<token, attempts, live, fetched, exposed>>
  /\ UNCHANGED <<kind, acked, hidden, cancelled, picked, proof, due, delivery,
                 drain, session, cursor, page, candidates>>

(* The attempts are spent, or the webhook's budget refuses another one. *)
ClaimFails(a, m, why) ==
  /\ Claimable(a, m)
  /\ \/ why = "attempts" /\ Spent(m)
     \/ why = "policy" /\ ~Spent(m) /\ a = "routine" /\ TargetAtClaim(m) = a
  /\ CanFail(m, why, FALSE)
  /\ Fail({m}, why)
  /\ target' = [target EXCEPT
                  ![m] = IF why = "policy" THEN TargetAtClaim(m) ELSE @]
  /\ Release(m)
  /\ UNCHANGED <<kind, acked, fetched, cancelled, picked, due, attempts,
                 session, cursor, page, candidates, exposed>>

(* The holder of lease t of the delivery reports its outcome. *)
Holds(m, t) == t # 0 /\ token[m] = t /\ delivery[m] = "pending"

Complete(m, t) ==
  /\ Holds(m, t) /\ m \in live
  /\ delivery' = [delivery EXCEPT ![m] = "delivered"]
  /\ live' = live \ {m}
  /\ acked' = acked \cup {m}
  /\ receipt' = [receipt EXCEPT ![m] = IF @ = "queued" THEN "handed_off" ELSE @]
  /\ cursor' = [cursor EXCEPT ![target[m]] = IF m > @ THEN m ELSE @]
  /\ UNCHANGED <<kind, fetched, hidden, cancelled, picked, reason, notices,
                 due, target, token, attempts, drain, session, page,
                 candidates, exposed>>

Unavailable(m, t) ==
  /\ Holds(m, t) /\ m \in live /\ target[m] = "local"
  /\ target' = [target EXCEPT ![m] = "routine"]
  /\ token' = [token EXCEPT ![m] = 0]
  /\ live' = live \ {m}
  /\ UNCHANGED <<row, proof, due, delivery, attempts, drain, session, cursor,
                 page, candidates, exposed>>

(* failRoutine: the webhook did not take it.  A retry waits out a backoff  *)
(* that is kept in lease_until.                                            *)
AttemptFails(m, t) ==
  /\ Fence /\ Holds(m, t) /\ target[m] = "routine"
  /\ attempts[m] < RoutineCap
  /\ token' = [token EXCEPT ![m] = 0]
  /\ live' = live \cup {m}
  /\ UNCHANGED <<row, proof, due, delivery, target, attempts, drain, session,
                 cursor, page, candidates, exposed>>

AttemptFailsForGood(m, t) ==
  /\ Fence /\ Holds(m, t) /\ target[m] = "routine"
  /\ CanFail(m, "http_error", FALSE)
  /\ Fail({m}, "http_error")
  /\ Release(m)
  /\ UNCHANGED <<kind, acked, fetched, cancelled, picked, due, target,
                 attempts, session, cursor, page, candidates, exposed>>
-----------------------------------------------------------------------------
(* The session's managed drain.  A reader of the session's page holds the  *)
(* session row, which the drain and the close lock too.                    *)
SessionFree == session = "running" /\ \A m \in page : ~Bound(m)

OfLevel(m, level) ==
  \/ level = ""
  \/ kind[m] \in {"agent", "desk", "steer"}
  \/ kind[m] = "chat" /\ delivery[m] = "none"

(* An open lease is replayed before anything new is leased. *)
Replays(level) ==
  \E m \in Messages : OpenLease(m) /\ Readable(m) /\ OfLevel(m, level)

Pickable(m) == Readable(m) /\ Available(m) /\ kind[m] # "pull"

(* SKIP LOCKED: a row another transaction holds is passed over. *)
Drain(level, m) ==
  /\ SessionFree
  /\ ~Replays(level)
  /\ Pickable(m) /\ OfLevel(m, level)
  /\ drain[m] # "released"
  /\ drain' = [drain EXCEPT ![m] = IF @ = "none" THEN "leased" ELSE @]
  /\ fetched' = fetched \cup {m}
  /\ exposed' = exposed \cup {m}
  /\ UNCHANGED <<kind, acked, hidden, cancelled, picked, proof, due, lease,
                 session, cursor, page, candidates>>

DrainConfirms(m) ==
  /\ SessionFree /\ OpenLease(m)
  /\ receipt[m] # "failed" /\ m \notin acked
  /\ Confirm(m)
  /\ drain' = [drain EXCEPT ![m] = "completed"]
  /\ UNCHANGED <<kind, fetched, hidden, cancelled, picked, reason, notices,
                 due, target, attempts, session, cursor, page, candidates,
                 exposed>>

DrainGivesUp(m) ==
  /\ SessionFree /\ OpenLease(m)
  /\ CanFail(m, "transport_error", FALSE)
  /\ Fail({m}, "transport_error")
  /\ drain' = [drain EXCEPT ![m] = "completed"]
  /\ UNCHANGED <<kind, acked, fetched, cancelled, picked, due, target,
                 attempts, session, cursor, page, candidates, exposed>>

(* closeGeneration: the session's undelivered messages fail, then its open *)
(* leases are released.                                                    *)
CloseGeneration ==
  /\ SessionFree
  /\ Fail({m \in Messages : Bound(m) /\ CanFail(m, "session_ended", FALSE)},
          "session_ended")
  /\ drain' = [m \in Messages |-> IF OpenLease(m) THEN "released" ELSE drain[m]]
  /\ session' = "stopped"
  /\ UNCHANGED <<kind, acked, fetched, cancelled, picked, due, target,
                 attempts, cursor, page, candidates, exposed>>
-----------------------------------------------------------------------------
(* The sweeper.  One runs at a time; it works off the candidates of one    *)
(* select before the next.                                                 *)
Expired(m) ==
  /\ kind[m] # "pull" /\ receipt[m] = "queued" /\ m \notin acked
  /\ ~LiveLease(m)
  /\ kind[m] \in {"desk", "chat"} =>
       \/ Bound(m) /\ session = "stopped"
       \/ kind[m] = "chat" /\ m \in hidden
  /\ \/ Overdue(m)
     \/ Bound(m) /\ session = "stopped"
     \/ delivery[m] = "pending" /\ Spent(m)

SweepReason(m) ==
  CASE Bound(m) /\ session = "stopped" -> "session_ended"
    [] Spent(m) -> "attempts"
    [] kind[m] = "chat" /\ m \in hidden -> "deadline"
    [] m \notin fetched /\ attempts[m] = 0 -> "no_listener"
    [] OTHER -> "deadline"

SweepSelect ==
  /\ candidates = {}
  /\ candidates' = {<<m, SweepReason(m)>> : m \in {n \in Messages : Expired(n)}}
  /\ candidates' # {}
  /\ UNCHANGED <<row, proof, due, lease, drain, session, cursor, page, exposed>>

SweepPullSelect ==
  /\ candidates = {}
  /\ candidates' = {<<m, "pickup_expired">> :
                      m \in {n \in Messages :
                               /\ kind[n] = "pull" /\ receipt[n] = "queued"
                               /\ n \notin acked /\ Overdue(n)}}
  /\ candidates' # {}
  /\ UNCHANGED <<row, proof, due, lease, drain, session, cursor, page, exposed>>

\* Mutant of SweepOne: the drain lease is released before the row is read.
SweepOneReleases(m, why) ==
  /\ <<m, why>> \in candidates
  /\ kind[m] = "pull" => Fence
  /\ candidates' = candidates \ {<<m, why>>}
  /\ Release(m)
  /\ IF CanFail(m, why, TRUE)
       THEN Fail({m}, why)
       ELSE UNCHANGED <<proof, delivery, token, live, hidden>>
  /\ UNCHANGED <<kind, acked, fetched, cancelled, picked, due, target,
                 attempts, session, cursor, page, exposed>>

(* Each candidate is a transaction of its own; a live lease wins. *)
SweepOne(m, why) ==
  /\ <<m, why>> \in candidates
  /\ kind[m] = "pull" => Fence
  /\ candidates' = candidates \ {<<m, why>>}
  /\ IF CanFail(m, why, TRUE)
       THEN Fail({m}, why) /\ Release(m)
       ELSE UNCHANGED <<proof, delivery, token, live, hidden, drain>>
  /\ UNCHANGED <<kind, acked, fetched, cancelled, picked, due, target,
                 attempts, session, cursor, page, exposed>>

(* Its process ends and another takes the advisory lock. *)
SweeperDies ==
  /\ candidates # {}
  /\ candidates' = {}
  /\ UNCHANGED <<row, proof, due, lease, drain, session, cursor, page, exposed>>
-----------------------------------------------------------------------------
Tokens == 1..MaxAttempts
Reasons ==
  {"refused", "cancelled", "attempts", "policy", "http_error",
   "transport_error", "session_ended", "no_listener", "deadline",
   "pickup_expired"}

Recipient ==
  \/ \E b \in BOOLEAN : SelectPage(b)
  \/ HandOver
  \/ \E m \in Messages : Ack(m)

Adapter ==
  \E m \in Messages :
    \/ \E a \in Adapters :
         Claim(a, m) \/ \E why \in {"attempts", "policy"} : ClaimFails(a, m, why)
    \/ \E t \in Tokens :
         \/ Complete(m, t) \/ Unavailable(m, t)
         \/ AttemptFails(m, t) \/ AttemptFailsForGood(m, t)

Harness ==
  \/ \E m \in Messages :
       \/ \E level \in {"", "steer"} : Drain(level, m)
       \/ DrainConfirms(m) \/ DrainGivesUp(m)
  \/ CloseGeneration

Sweep(m) == \E why \in Reasons : SweepOne(m, why)

Sweeper ==
  \/ SweepSelect \/ SweepPullSelect \/ SweeperDies
  \/ \E m \in Messages : Sweep(m)

Time ==
  \E m \in Messages :
    \/ DeadlinePasses(m) \/ Restored(m) \/ Expires(m)
    \/ LeaseEnds(m) \/ DrainLeaseAges(m) \/ PickupLeaseEnds(m)

Next ==
  \/ \E m \in Messages : Send(m) \/ Refuse(m) \/ Cancel(m)
  \/ Recipient \/ Adapter \/ Harness \/ Sweeper \/ Time

(* Leases run out, a reader's transaction ends, and the sweeper gets       *)
(* through a pass again and again, whichever process runs it.              *)
Fairness ==
  /\ WF_vars(HandOver)
  /\ SF_vars(SweepSelect) /\ SF_vars(SweepPullSelect)
  /\ \A m \in Messages :
       /\ WF_vars(LeaseEnds(m)) /\ WF_vars(DrainLeaseAges(m))
       /\ SF_vars(Sweep(m))

Spec == Init /\ [][Next]_vars /\ Fairness
-----------------------------------------------------------------------------
TypeOK ==
  /\ kind \in Mixes
  /\ acked \subseteq Messages /\ fetched \subseteq Messages
  /\ hidden \subseteq Messages /\ cancelled \subseteq Messages
  /\ picked \subseteq Messages /\ due \subseteq Messages
  /\ receipt \in [Messages -> {"none", "queued", "handed_off", "failed"}]
  /\ reason \in [Messages -> Reasons \cup {""}]
  /\ delivery \in [Messages -> {"none", "pending", "blocked", "delivered", "dead"}]
  /\ target \in [Messages -> Adapters \cup {"none"}]
  /\ token \in [Messages -> 0..MaxAttempts]
  /\ attempts \in [Messages -> 0..MaxAttempts]
  /\ live \subseteq Messages
  /\ drain \in [Messages -> {"none", "leased", "stale", "completed", "released"}]
  /\ session \in {"running", "stopped"}
  /\ cursor \in [Adapters -> 0..N]
  /\ notices \in [Messages -> 0..1]
  /\ page \subseteq Messages
  /\ candidates \subseteq Messages \X Reasons
  /\ exposed \subseteq Messages

(* A released drain row is never met by a later drain of the running       *)
(* session: the INSERT would return no row and every drain would fail.     *)
DrainNeverStuck ==
  session = "running" => \A m \in Messages : Pickable(m) => drain[m] = "none"

(* The address's cursors skip nothing: whatever lies at or before one has  *)
(* been settled with its sender.                                           *)
CursorSkipsNothing ==
  \A a \in Adapters, m \in Messages :
    OnAddress(m) /\ m <= cursor[a] => receipt[m] \in {"handed_off", "failed"}

(* What became of a message, as its sender can tell. *)
Outcome(m) ==
  CASE receipt[m] = "none" -> "unsent"
    [] receipt[m] = "queued" /\ m \notin acked /\ notices[m] = 0 -> "open"
    [] receipt[m] = "handed_off" /\ m \in acked /\ notices[m] = 0 -> "delivered"
    [] receipt[m] = "failed" /\ m \notin acked /\ m \in hidden ->
         (CASE reason[m] = "refused" /\ notices[m] = 0 -> "refused"
            [] reason[m] = "cancelled" /\ notices[m] = 0 -> "withdrawn"
            [] reason[m] \notin {"refused", "cancelled"} /\ notices[m] = 1 -> "told"
            [] OTHER -> "broken")
    [] OTHER -> "broken"

Guarantee ==
  INSTANCE DeliveryGuarantee
    WITH outcome <- [m \in Messages |-> Outcome(m)], shown <- exposed

(* The inbox keeps the promise of DeliveryGuarantee. *)
KeepsGuarantee == Guarantee!Spec

(* A message past its deadline is delivered or its sender told, and no     *)
(* recipient, adapter or dying sweeper can put that off for ever.  Chat,   *)
(* desk answers and pull messages wait for a pickup.                       *)
Settled ==
  \A m \in Messages :
    (/\ receipt[m] = "queued" /\ Overdue(m)
     /\ kind[m] \notin {"chat", "desk", "pull"})
      ~> receipt[m] # "queued"
=============================================================================
