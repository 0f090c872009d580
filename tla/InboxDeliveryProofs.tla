------------------------ MODULE InboxDeliveryProofs ------------------------
(***************************************************************************)
(* The inbox keeps the promise of DeliveryGuarantee for any number of      *)
(* messages of any kinds and any attempt caps.                             *)
(***************************************************************************)
EXTENDS InboxDelivery, TLAPS

Receipts == {"none", "queued", "handed_off", "failed"}
Tellable == Reasons \ {"refused", "cancelled"}

(* The shape of the state the proof needs. *)
Shape ==
  /\ kind \in [Messages -> AllKinds]
  /\ receipt \in [Messages -> Receipts]
  /\ reason \in [Messages -> Reasons \cup {""}]
  /\ notices \in [Messages -> {0, 1}]
  /\ delivery \in [Messages -> {"none", "pending", "blocked", "delivered", "dead"}]
  /\ token \in [Messages -> Nat]
  /\ attempts \in [Messages -> Nat]
  /\ drain \in [Messages -> {"none", "leased", "stale", "completed", "released"}]
  /\ page \subseteq Messages
  /\ candidates \subseteq Messages \X Tellable

(* A message that has not been sent has left no trace. *)
UnsentOk(m) ==
  receipt[m] = "none" =>
    /\ m \notin acked /\ m \notin fetched /\ m \notin exposed
    /\ notices[m] = 0 /\ delivery[m] = "none" /\ token[m] = 0
    /\ drain[m] = "none"

(* An open message is neither acknowledged nor reported. *)
QueuedOk(m) ==
  receipt[m] = "queued" => m \notin acked /\ notices[m] = 0

(* A confirmed one is acknowledged and its delivery can not be claimed. *)
HandedOffOk(m) ==
  receipt[m] = "handed_off" =>
    /\ m \in acked /\ notices[m] = 0
    /\ delivery[m] \notin {"pending", "blocked"}

(* A failed one is out of every read path, out of its address's queue, and *)
(* its sender has exactly the notice its reason calls for.                 *)
FailedOk(m) ==
  receipt[m] = "failed" =>
    /\ m \notin acked /\ m \in hidden /\ token[m] = 0
    /\ kind[m] \in {"chat", "desk"} \/ delivery[m] \in {"none", "dead"}
    /\ reason[m] # ""
    /\ notices[m] = (IF reason[m] \in {"refused", "cancelled"} THEN 0 ELSE 1)

(* Only an adapter of the address ever holds a delivery. *)
TokenOk(m) == token[m] # 0 => kind[m] \in {"steer", "simple", "untargeted"}

(* Content leaves the server only with a mark that Cancel looks for. *)
ExposedOk(m) == m \in exposed => m \in fetched

MessageOk(m) ==
  /\ UnsentOk(m) /\ QueuedOk(m) /\ HandedOffOk(m) /\ FailedOk(m)
  /\ TokenOk(m) /\ ExposedOk(m)

IInv == Shape /\ \A m \in Messages : MessageOk(m)

(* The initial state satisfies the invariant. *)
LEMMA InitOk == Init => IInv
<1> SUFFICES ASSUME Init PROVE IInv
  OBVIOUS
<1>1. Shape
  BY MixAssumption DEF Init, Shape, Receipts
<1>2. \A m \in Messages : MessageOk(m)
  BY DEF Init, MessageOk, UnsentOk, QueuedOk, HandedOffOk, FailedOk, TokenOk,
       ExposedOk
<1> QED BY <1>1, <1>2 DEF IInv

(* An attempt is counted. *)
LEMMA CountsUp ==
  ASSUME NEW f \in [Messages -> Nat], NEW g \in [Messages -> Nat],
        NEW m \in Messages
  PROVE  /\ [f EXCEPT ![m] = @ + 1] \in [Messages -> Nat]
         /\ [g EXCEPT ![m] = f[m] + 1] \in [Messages -> Nat]
<1>1. f[m] + 1 \in Nat
  OBVIOUS
<1> QED BY <1>1

(* A set of pairs is a relation. *)
LEMMA PairsOf ==
  ASSUME NEW S, NEW T, \A x \in S : \E n \in Messages, r \in T : x = <<n, r>>
  PROVE  S \subseteq Messages \X T
<1> SUFFICES ASSUME NEW x \in S PROVE x \in Messages \X T
  OBVIOUS
<1>1. PICK n \in Messages, r \in T : x = <<n, r>>
  OBVIOUS
<1> QED BY <1>1

(* Whatever the sweeper finds wrong is something a sender is told of. *)
LEMMA SweepReasonTellable ==
  ASSUME NEW m \in Messages PROVE SweepReason(m) \in Tellable
  BY DEF SweepReason, Tellable, Reasons

(* Every step, whoever takes it, keeps the invariant. *)
LEMMA StepOk == IInv /\ [Next]_vars => IInv'
<1> SUFFICES ASSUME IInv, [Next]_vars PROVE IInv'
  OBVIOUS
<1> USE DEF IInv, Shape, Receipts, row, proof, lease
<1>1. ASSUME NEW m \in Messages, Send(m) PROVE IInv'
  <2>1. Shape'
    BY <1>1, ZenonT(40) DEF Send, Sent, DeliveryOf
  <2>2. ASSUME NEW n \in Messages PROVE MessageOk(n)'
    BY <1>1, ZenonT(40) DEF Send, Sent, DeliveryOf,
       MessageOk, UnsentOk, QueuedOk, HandedOffOk, FailedOk, TokenOk, ExposedOk
  <2> QED BY <2>1, <2>2
<1>2. ASSUME NEW m \in Messages, Refuse(m) PROVE IInv'
  <2>1. PICK d \in {"dead", "none"} : delivery' = [delivery EXCEPT ![m] = d]
    BY <1>2 DEF Refuse
  <2>2. /\ receipt[m] = "none"
        /\ receipt' = [receipt EXCEPT ![m] = "failed"]
        /\ reason' = [reason EXCEPT ![m] = "refused"]
        /\ hidden' = hidden \cup {m}
        /\ UNCHANGED <<kind, acked, fetched, notices, token, attempts, drain,
                       page, candidates, exposed>>
    BY <1>2 DEF Refuse, Sent
  <2>3. Shape'
    BY <2>1, <2>2 DEF Reasons
  <2>4. ASSUME NEW n \in Messages PROVE MessageOk(n)'
    BY <2>1, <2>2 DEF MessageOk, UnsentOk, QueuedOk, HandedOffOk, FailedOk,
         TokenOk, ExposedOk
  <2> QED BY <2>3, <2>4
<1>3. ASSUME NEW m \in Messages, Cancel(m) PROVE IInv'
  <2>1. Shape'
    BY <1>3 DEF Cancel, Reasons
  <2>2. ASSUME NEW n \in Messages PROVE MessageOk(n)'
    BY <1>3 DEF Cancel, Reasons,
       MessageOk, UnsentOk, QueuedOk, HandedOffOk, FailedOk, TokenOk, ExposedOk
  <2> QED BY <2>1, <2>2
<1>4. ASSUME NEW b \in BOOLEAN, SelectPage(b) PROVE IInv'
  <2>1. Shape'
    BY <1>4 DEF SelectPage
  <2>2. ASSUME NEW n \in Messages PROVE MessageOk(n)'
    BY <1>4 DEF SelectPage,
       MessageOk, UnsentOk, QueuedOk, HandedOffOk, FailedOk, TokenOk, ExposedOk
  <2> QED BY <2>1, <2>2
<1>5. ASSUME HandOver PROVE IInv'
  <2>1. Shape'
    BY <1>5 DEF HandOver, Alive, Selectable, Readable, Sent
  <2>2. ASSUME NEW n \in Messages PROVE MessageOk(n)'
    BY <1>5 DEF HandOver, Alive, Selectable, Readable, Sent,
       MessageOk, UnsentOk, QueuedOk, HandedOffOk, FailedOk, TokenOk, ExposedOk
  <2> QED BY <2>1, <2>2
<1>6. ASSUME NEW m \in Messages, Ack(m) PROVE IInv'
  <2>1. Shape'
    BY <1>6 DEF Ack, Sent, Confirm
  <2>2. ASSUME NEW n \in Messages PROVE MessageOk(n)'
    BY <1>6 DEF Ack, Sent, Confirm,
       MessageOk, UnsentOk, QueuedOk, HandedOffOk, FailedOk, TokenOk, ExposedOk
  <2> QED BY <2>1, <2>2
<1>7. ASSUME NEW a \in Adapters, NEW m \in Messages, Claim(a, m) PROVE IInv'
  <2>1. /\ OnAddress(m) /\ m \notin acked /\ delivery[m] = "pending"
        /\ UNCHANGED <<kind, acked, hidden, receipt, reason, notices, delivery,
                       drain, page, candidates>>
    BY <1>7 DEF Claim, Claimable, Head, Waiting
  <2>2. receipt[m] = "queued"
    BY <2>1 DEF OnAddress, MessageOk, UnsentOk, QueuedOk, HandedOffOk, FailedOk,
         TokenOk, ExposedOk
  <2>3. CASE TargetAtClaim(m) = a
    <3>1. /\ token' = [token EXCEPT ![m] = attempts[m] + 1]
          /\ attempts' = [attempts EXCEPT ![m] = @ + 1]
          /\ fetched' = fetched \cup {m} /\ exposed' = exposed \cup {m}
      BY <1>7, <2>3 DEF Claim
    <3>2. token' \in [Messages -> Nat] /\ attempts' \in [Messages -> Nat]
      BY <3>1, CountsUp
    <3>3. Shape'
      BY <2>1, <3>2
    <3>4. ASSUME NEW n \in Messages PROVE MessageOk(n)'
      BY <2>1, <2>2, <3>1 DEF OnAddress, MessageOk, UnsentOk, QueuedOk,
           HandedOffOk, FailedOk, TokenOk, ExposedOk
    <3> QED BY <3>3, <3>4
  <2>4. CASE TargetAtClaim(m) # a
    <3>1. UNCHANGED <<token, attempts, fetched, exposed>>
      BY <1>7, <2>4 DEF Claim
    <3> QED BY <2>1, <3>1 DEF MessageOk, UnsentOk, QueuedOk, HandedOffOk, FailedOk,
         TokenOk, ExposedOk
  <2> QED BY <2>3, <2>4
<1>8. ASSUME NEW a \in Adapters, NEW m \in Messages, NEW why \in {"attempts",
      "policy"}, ClaimFails(a, m, why) PROVE IInv'
  <2>1. Shape'
    BY <1>8 DEF ClaimFails, CanFail, Fail, Release, OpenLease, Reasons, Claimable,
         Head, Waiting, OnAddress
  <2>2. ASSUME NEW n \in Messages PROVE MessageOk(n)'
    BY <1>8 DEF ClaimFails, CanFail, Fail, Release, OpenLease, Reasons, Claimable,
         Head, Waiting, OnAddress,
       MessageOk, UnsentOk, QueuedOk, HandedOffOk, FailedOk, TokenOk, ExposedOk
  <2> QED BY <2>1, <2>2
<1>9. ASSUME NEW m \in Messages, NEW t \in Tokens, Complete(m, t) PROVE IInv'
  <2>1. Shape'
    BY <1>9 DEF Complete, Holds
  <2>2. ASSUME NEW n \in Messages PROVE MessageOk(n)'
    BY <1>9 DEF Complete, Holds,
       MessageOk, UnsentOk, QueuedOk, HandedOffOk, FailedOk, TokenOk, ExposedOk
  <2> QED BY <2>1, <2>2
<1>10. ASSUME NEW m \in Messages, NEW t \in Tokens, Unavailable(m, t) PROVE IInv'
  <2>1. Shape'
    BY <1>10 DEF Unavailable, Holds
  <2>2. ASSUME NEW n \in Messages PROVE MessageOk(n)'
    BY <1>10 DEF Unavailable, Holds,
       MessageOk, UnsentOk, QueuedOk, HandedOffOk, FailedOk, TokenOk, ExposedOk
  <2> QED BY <2>1, <2>2
<1>11. ASSUME NEW m \in Messages, NEW t \in Tokens, AttemptFails(m, t) PROVE IInv'
  <2>1. Shape'
    BY <1>11 DEF AttemptFails, Holds
  <2>2. ASSUME NEW n \in Messages PROVE MessageOk(n)'
    BY <1>11 DEF AttemptFails, Holds,
       MessageOk, UnsentOk, QueuedOk, HandedOffOk, FailedOk, TokenOk, ExposedOk
  <2> QED BY <2>1, <2>2
<1>12. ASSUME NEW m \in Messages, NEW t \in Tokens, AttemptFailsForGood(m, t)
       PROVE IInv'
  <2>1. Shape'
    BY <1>12 DEF AttemptFailsForGood, Holds, CanFail, Fail, Release, OpenLease,
         Reasons
  <2>2. ASSUME NEW n \in Messages PROVE MessageOk(n)'
    BY <1>12 DEF AttemptFailsForGood, Holds, CanFail, Fail, Release, OpenLease,
         Reasons,
       MessageOk, UnsentOk, QueuedOk, HandedOffOk, FailedOk, TokenOk, ExposedOk
  <2> QED BY <2>1, <2>2
<1>13. ASSUME NEW level \in {"", "steer"}, NEW m \in Messages, Drain(level, m)
       PROVE IInv'
  <2>1. Shape'
    BY <1>13 DEF Drain, Pickable, Readable, Sent
  <2>2. ASSUME NEW n \in Messages PROVE MessageOk(n)'
    BY <1>13 DEF Drain, Pickable, Readable, Sent,
       MessageOk, UnsentOk, QueuedOk, HandedOffOk, FailedOk, TokenOk, ExposedOk
  <2> QED BY <2>1, <2>2
<1>14. ASSUME NEW m \in Messages, DrainConfirms(m) PROVE IInv'
  <2>1. Shape'
    BY <1>14 DEF DrainConfirms, OpenLease, Confirm
  <2>2. ASSUME NEW n \in Messages PROVE MessageOk(n)'
    BY <1>14 DEF DrainConfirms, OpenLease, Confirm,
       MessageOk, UnsentOk, QueuedOk, HandedOffOk, FailedOk, TokenOk, ExposedOk
  <2> QED BY <2>1, <2>2
<1>15. ASSUME NEW m \in Messages, DrainGivesUp(m) PROVE IInv'
  <2>1. Shape'
    BY <1>15 DEF DrainGivesUp, OpenLease, CanFail, Fail, Reasons
  <2>2. ASSUME NEW n \in Messages PROVE MessageOk(n)'
    BY <1>15 DEF DrainGivesUp, OpenLease, CanFail, Fail, Reasons,
       MessageOk, UnsentOk, QueuedOk, HandedOffOk, FailedOk, TokenOk, ExposedOk
  <2> QED BY <2>1, <2>2
<1>16. ASSUME CloseGeneration PROVE IInv'
  <2>1. Shape'
    BY <1>16 DEF CloseGeneration, CanFail, Fail, OpenLease, Reasons
  <2>2. ASSUME NEW n \in Messages PROVE MessageOk(n)'
    BY <1>16 DEF CloseGeneration, CanFail, Fail, OpenLease, Reasons,
       MessageOk, UnsentOk, QueuedOk, HandedOffOk, FailedOk, TokenOk, ExposedOk
  <2> QED BY <2>1, <2>2
<1>17. ASSUME SweepSelect PROVE IInv'
  <2>0. candidates' \subseteq Messages \X Tellable
    <3>1. \A x \in candidates' : \E n \in Messages : x = <<n, SweepReason(n)>>
      BY <1>17 DEF SweepSelect
    <3>2. \A x \in candidates' : \E n \in Messages, why \in Tellable : x = <<n,
         why>>
      BY <3>1, SweepReasonTellable
    <3> QED BY <3>2, PairsOf
  <2>1. Shape'
    BY <1>17, <2>0 DEF SweepSelect
  <2>2. ASSUME NEW n \in Messages PROVE MessageOk(n)'
    BY <1>17, SweepReasonTellable DEF SweepSelect,
       MessageOk, UnsentOk, QueuedOk, HandedOffOk, FailedOk, TokenOk, ExposedOk
  <2> QED BY <2>1, <2>2
<1>18. ASSUME SweepPullSelect PROVE IInv'
  <2>0. candidates' \subseteq Messages \X Tellable
    <3>1. "pickup_expired" \in Tellable
      BY DEF Tellable, Reasons
    <3>2. \A x \in candidates' : \E n \in Messages, why \in Tellable : x = <<n,
         why>>
      BY <1>18, <3>1 DEF SweepPullSelect
    <3> QED BY <3>2, PairsOf
  <2>1. Shape'
    BY <1>18, <2>0 DEF SweepPullSelect
  <2>2. ASSUME NEW n \in Messages PROVE MessageOk(n)'
    BY <1>18 DEF SweepPullSelect, Reasons, Tellable,
       MessageOk, UnsentOk, QueuedOk, HandedOffOk, FailedOk, TokenOk, ExposedOk
  <2> QED BY <2>1, <2>2
<1>19. ASSUME NEW m \in Messages, NEW why \in Reasons, SweepOne(m, why)
       PROVE IInv'
  <2>1. /\ why \in Tellable /\ candidates' \subseteq candidates
        /\ UNCHANGED <<kind, acked, fetched, attempts, page, exposed>>
    BY <1>19 DEF SweepOne
  <2>2. CASE CanFail(m, why, TRUE)
    <3>1. Fail({m}, why) /\ Release(m)
      BY <1>19, <2>2 DEF SweepOne
    <3>2. Shape'
      BY <2>1, <3>1 DEF Fail, Release, OpenLease, Tellable
    <3>3. ASSUME NEW n \in Messages PROVE MessageOk(n)'
      BY <2>1, <2>2, <3>1 DEF CanFail, Fail, Release, OpenLease, Tellable, Reasons,
         MessageOk, UnsentOk, QueuedOk, HandedOffOk, FailedOk, TokenOk, ExposedOk
    <3> QED BY <3>2, <3>3
  <2>3. CASE ~CanFail(m, why, TRUE)
    <3>1. UNCHANGED <<receipt, reason, notices, delivery, token, hidden, drain>>
      BY <1>19, <2>3 DEF SweepOne
    <3> QED BY <2>1, <3>1 DEF MessageOk, UnsentOk, QueuedOk, HandedOffOk, FailedOk,
         TokenOk, ExposedOk
  <2> QED BY <2>2, <2>3
<1>20. ASSUME SweeperDies PROVE IInv'
  <2>1. Shape'
    BY <1>20 DEF SweeperDies
  <2>2. ASSUME NEW n \in Messages PROVE MessageOk(n)'
    BY <1>20 DEF SweeperDies,
       MessageOk, UnsentOk, QueuedOk, HandedOffOk, FailedOk, TokenOk, ExposedOk
  <2> QED BY <2>1, <2>2
<1>21. ASSUME NEW m \in Messages, DeadlinePasses(m) PROVE IInv'
  <2>1. Shape'
    BY <1>21 DEF DeadlinePasses
  <2>2. ASSUME NEW n \in Messages PROVE MessageOk(n)'
    BY <1>21 DEF DeadlinePasses,
       MessageOk, UnsentOk, QueuedOk, HandedOffOk, FailedOk, TokenOk, ExposedOk
  <2> QED BY <2>1, <2>2
<1>22. ASSUME NEW m \in Messages, Restored(m) PROVE IInv'
  <2>1. Shape'
    BY <1>22 DEF Restored
  <2>2. ASSUME NEW n \in Messages PROVE MessageOk(n)'
    BY <1>22 DEF Restored,
       MessageOk, UnsentOk, QueuedOk, HandedOffOk, FailedOk, TokenOk, ExposedOk
  <2> QED BY <2>1, <2>2
<1>23. ASSUME NEW m \in Messages, Expires(m) PROVE IInv'
  <2>1. Shape'
    BY <1>23 DEF Expires
  <2>2. ASSUME NEW n \in Messages PROVE MessageOk(n)'
    BY <1>23 DEF Expires,
       MessageOk, UnsentOk, QueuedOk, HandedOffOk, FailedOk, TokenOk, ExposedOk
  <2> QED BY <2>1, <2>2
<1>24. ASSUME NEW m \in Messages, LeaseEnds(m) PROVE IInv'
  <2>1. Shape'
    BY <1>24 DEF LeaseEnds
  <2>2. ASSUME NEW n \in Messages PROVE MessageOk(n)'
    BY <1>24 DEF LeaseEnds,
       MessageOk, UnsentOk, QueuedOk, HandedOffOk, FailedOk, TokenOk, ExposedOk
  <2> QED BY <2>1, <2>2
<1>25. ASSUME NEW m \in Messages, DrainLeaseAges(m) PROVE IInv'
  <2>1. Shape'
    BY <1>25 DEF DrainLeaseAges
  <2>2. ASSUME NEW n \in Messages PROVE MessageOk(n)'
    BY <1>25 DEF DrainLeaseAges,
       MessageOk, UnsentOk, QueuedOk, HandedOffOk, FailedOk, TokenOk, ExposedOk
  <2> QED BY <2>1, <2>2
<1>26. ASSUME NEW m \in Messages, PickupLeaseEnds(m) PROVE IInv'
  <2>1. Shape'
    BY <1>26 DEF PickupLeaseEnds
  <2>2. ASSUME NEW n \in Messages PROVE MessageOk(n)'
    BY <1>26 DEF PickupLeaseEnds,
       MessageOk, UnsentOk, QueuedOk, HandedOffOk, FailedOk, TokenOk, ExposedOk
  <2> QED BY <2>1, <2>2
<1>27. CASE UNCHANGED vars
  BY <1>27 DEF vars, MessageOk, UnsentOk, QueuedOk, HandedOffOk, FailedOk, TokenOk,
       ExposedOk
<1> QED
  BY <1>1, <1>2, <1>3, <1>4, <1>5, <1>6, <1>7, <1>8, <1>9, <1>10, <1>11, <1>12,
       <1>13, <1>14, <1>15, <1>16, <1>17, <1>18, <1>19, <1>20, <1>21, <1>22, <1>23,
            <1>24, <1>25, <1>26, <1>27
     DEF Next, Recipient, Adapter, Harness, Sweeper, Sweep, Time
-----------------------------------------------------------------------------
(* The refinement.  In every state of IInv no message is "broken": what    *)
(* became of it can be read off its receipt and the reason.                *)
Verdict(m) ==
  IF receipt[m] = "none" THEN "unsent"
  ELSE IF receipt[m] = "queued" THEN "open"
  ELSE IF receipt[m] = "handed_off" THEN "delivered"
  ELSE IF reason[m] = "refused" THEN "refused"
  ELSE IF reason[m] = "cancelled" THEN "withdrawn"
  ELSE "told"

NoneBroken == \A m \in Messages : Outcome(m) = Verdict(m)

(* No message is in a state its sender could not interpret. *)
LEMMA OutcomeIsVerdict == IInv => NoneBroken
<1> SUFFICES ASSUME IInv, NEW m \in Messages PROVE Outcome(m) = Verdict(m)
  BY DEF NoneBroken
<1> USE DEF Verdict, Outcome, IInv, Shape, Receipts, MessageOk, UnsentOk, QueuedOk,
            HandedOffOk, FailedOk
<1>1. CASE receipt[m] = "none"
  BY <1>1
<1>2. CASE receipt[m] = "queued"
  BY <1>2
<1>3. CASE receipt[m] = "handed_off"
  BY <1>3
<1>4. CASE receipt[m] = "failed" /\ reason[m] = "refused"
  BY <1>4
<1>5. CASE receipt[m] = "failed" /\ reason[m] = "cancelled"
  BY <1>5
<1>6. CASE receipt[m] = "failed" /\ reason[m] \notin {"refused", "cancelled"}
  BY <1>6
<1> QED BY <1>1, <1>2, <1>3, <1>4, <1>5, <1>6

(* A step that writes no receipt and hands nothing out is a stutter. *)
LEMMA Stutters ==
  ASSUME NoneBroken, NoneBroken', UNCHANGED <<receipt, reason, exposed>>
  PROVE  UNCHANGED Guarantee!vars
  BY DEF Guarantee!vars, NoneBroken, Verdict

(* Handing out open messages. *)
LEMMA Shows ==
  ASSUME NoneBroken, NoneBroken', UNCHANGED <<receipt, reason>>,
         NEW S \in SUBSET Messages, \A m \in S : receipt[m] = "queued",
         exposed' = exposed \cup S
  PROVE  Guarantee!Next
<1>1. Guarantee!Show(S)
  BY DEF Guarantee!Show, Guarantee!Open, NoneBroken, Verdict
<1> QED BY <1>1 DEF Guarantee!Next

(* The receiver confirms an open message. *)
LEMMA Delivers ==
  ASSUME NoneBroken, NoneBroken', receipt \in [Messages -> Receipts],
         NEW m \in Messages, receipt[m] = "queued",
         receipt' = [receipt EXCEPT ![m] = "handed_off"],
         UNCHANGED <<reason, exposed>>
  PROVE  Guarantee!Next
<1>1. Guarantee!Deliver(m)
  BY DEF Guarantee!Deliver, Guarantee!Open, Guarantee!Settle, NoneBroken, Verdict
<1> QED BY <1>1 DEF Guarantee!Next

(* failMessage settles the messages it fails, all of them open. *)
LEMMA Tells ==
  ASSUME NoneBroken, NoneBroken', NEW S \in SUBSET Messages, NEW why \in Tellable,
         \A m \in S : receipt[m] = "queued", Fail(S, why), UNCHANGED exposed
  PROVE  Guarantee!Next
<1>1. Guarantee!Tell(S)
  BY DEF Guarantee!Tell, Guarantee!Open, Guarantee!Settle, NoneBroken, Verdict,
         Fail, Tellable
<1> QED BY <1>1 DEF Guarantee!Next

(* An open message is what every path that reads, claims or leases finds. *)
LEMMA OpenOnes ==
  ASSUME IInv, NEW m \in Messages
  PROVE  /\ Readable(m) => receipt[m] = "queued"
         /\ OnAddress(m) /\ m \notin acked /\ delivery[m] = "pending"
              => receipt[m] = "queued"
         /\ \A t \in Tokens : Holds(m, t) => receipt[m] = "queued"
         /\ Sent(m) /\ m \notin acked /\ receipt[m] # "failed"
              => receipt[m] = "queued"
         /\ OpenLease(m) => Sent(m)
<1> USE DEF IInv, Shape, Receipts, MessageOk, UnsentOk, QueuedOk, HandedOffOk,
     FailedOk, TokenOk
<1>1. Readable(m) => receipt[m] = "queued"
  BY DEF Readable, Sent
<1>2. OnAddress(m) /\ m \notin acked /\ delivery[m] = "pending" => receipt[m] = "queued"
  BY DEF OnAddress
<1>3. ASSUME NEW t \in Tokens, Holds(m, t) PROVE receipt[m] = "queued"
  BY <1>3 DEF Holds
<1>4. Sent(m) /\ m \notin acked /\ receipt[m] # "failed" => receipt[m] = "queued"
  BY DEF Sent
<1>5. OpenLease(m) => Sent(m)
  BY DEF OpenLease, Sent
<1> QED BY <1>1, <1>2, <1>3, <1>4, <1>5

(* Every step of the inbox is a step of its promise, or none. *)
LEMMA StepRefines ==
  IInv /\ [Next]_vars => [Guarantee!Next]_Guarantee!vars
<1> SUFFICES ASSUME IInv, [Next]_vars PROVE [Guarantee!Next]_Guarantee!vars
  OBVIOUS
<1>1. NoneBroken /\ receipt \in [Messages -> Receipts]
  BY OutcomeIsVerdict DEF IInv, Shape
<1>2. NoneBroken'
  <2>1. IInv'
    BY StepOk
  <2> QED BY <2>1, OutcomeIsVerdict, PTL
<1> USE DEF row, proof, lease
<1> DEFINE G == [Guarantee!Next]_Guarantee!vars
<1>3. ASSUME NEW b \in BOOLEAN, SelectPage(b) PROVE G
  <2>1. UNCHANGED <<receipt, reason, exposed>>
    BY <1>3 DEF SelectPage
  <2> QED BY <1>1, <1>2, <2>1, Stutters
<1>4. ASSUME NEW m \in Messages, NEW t \in Tokens, Unavailable(m, t) PROVE G
  <2>1. UNCHANGED <<receipt, reason, exposed>>
    BY <1>4 DEF Unavailable
  <2> QED BY <1>1, <1>2, <2>1, Stutters
<1>5. ASSUME NEW m \in Messages, NEW t \in Tokens, AttemptFails(m, t) PROVE G
  <2>1. UNCHANGED <<receipt, reason, exposed>>
    BY <1>5 DEF AttemptFails
  <2> QED BY <1>1, <1>2, <2>1, Stutters
<1>6. ASSUME SweepSelect PROVE G
  <2>1. UNCHANGED <<receipt, reason, exposed>>
    BY <1>6 DEF SweepSelect
  <2> QED BY <1>1, <1>2, <2>1, Stutters
<1>7. ASSUME SweepPullSelect PROVE G
  <2>1. UNCHANGED <<receipt, reason, exposed>>
    BY <1>7 DEF SweepPullSelect
  <2> QED BY <1>1, <1>2, <2>1, Stutters
<1>8. ASSUME SweeperDies PROVE G
  <2>1. UNCHANGED <<receipt, reason, exposed>>
    BY <1>8 DEF SweeperDies
  <2> QED BY <1>1, <1>2, <2>1, Stutters
<1>9. ASSUME NEW m \in Messages, DeadlinePasses(m) PROVE G
  <2>1. UNCHANGED <<receipt, reason, exposed>>
    BY <1>9 DEF DeadlinePasses
  <2> QED BY <1>1, <1>2, <2>1, Stutters
<1>10. ASSUME NEW m \in Messages, Restored(m) PROVE G
  <2>1. UNCHANGED <<receipt, reason, exposed>>
    BY <1>10 DEF Restored
  <2> QED BY <1>1, <1>2, <2>1, Stutters
<1>11. ASSUME NEW m \in Messages, Expires(m) PROVE G
  <2>1. UNCHANGED <<receipt, reason, exposed>>
    BY <1>11 DEF Expires
  <2> QED BY <1>1, <1>2, <2>1, Stutters
<1>12. ASSUME NEW m \in Messages, LeaseEnds(m) PROVE G
  <2>1. UNCHANGED <<receipt, reason, exposed>>
    BY <1>12 DEF LeaseEnds
  <2> QED BY <1>1, <1>2, <2>1, Stutters
<1>13. ASSUME NEW m \in Messages, DrainLeaseAges(m) PROVE G
  <2>1. UNCHANGED <<receipt, reason, exposed>>
    BY <1>13 DEF DrainLeaseAges
  <2> QED BY <1>1, <1>2, <2>1, Stutters
<1>14. ASSUME NEW m \in Messages, PickupLeaseEnds(m) PROVE G
  <2>1. UNCHANGED <<receipt, reason, exposed>>
    BY <1>14 DEF PickupLeaseEnds
  <2> QED BY <1>1, <1>2, <2>1, Stutters
<1>15. ASSUME NEW m \in Messages, Send(m) PROVE G
  <2>1. Guarantee!Accept(m)
    BY <1>15, <1>1, <1>2 DEF Send, Sent, Guarantee!Accept, Guarantee!Settle,
       NoneBroken, Verdict
  <2> QED BY <2>1 DEF Guarantee!Next
<1>16. ASSUME NEW m \in Messages, Refuse(m) PROVE G
  <2>1. /\ receipt[m] = "none" /\ receipt' = [receipt EXCEPT ![m] = "failed"]
        /\ reason' = [reason EXCEPT ![m] = "refused"] /\ exposed' = exposed
    BY <1>16 DEF Refuse, Sent
  <2>2. Guarantee!Accept(m)
    BY <2>1, <1>1, <1>2, ZenonT(40) DEF Guarantee!Accept, Guarantee!Settle, IInv, Shape,
       NoneBroken, Verdict
  <2> QED BY <2>2 DEF Guarantee!Next
<1>17. ASSUME NEW m \in Messages, Cancel(m) PROVE G
  <2>1. receipt[m] = "queued" \/ (receipt[m] = "failed" /\ UNCHANGED <<receipt,
       reason, exposed>>)
    BY <1>17 DEF Cancel, IInv, Shape, Receipts, MessageOk, UnsentOk
  <2>2. CASE receipt[m] = "queued"
    <3>1. /\ receipt' = [receipt EXCEPT ![m] = "failed"]
          /\ reason' = [reason EXCEPT ![m] = "cancelled"]
          /\ exposed' = exposed /\ m \notin fetched
      BY <1>17, <2>2 DEF Cancel
    <3>2. m \notin exposed
      BY <3>1 DEF IInv, MessageOk, ExposedOk
    <3>3. Guarantee!Withdraw(m)
      BY <1>1, <1>2, <2>2, <3>1, <3>2, ZenonT(40) DEF Guarantee!Withdraw, Guarantee!Open,
         Guarantee!Settle, IInv, Shape, NoneBroken, Verdict
    <3> QED BY <3>3 DEF Guarantee!Next
  <2> QED BY <1>1, <1>2, <2>1, <2>2, Stutters
<1>18. ASSUME HandOver PROVE G
  <2>1. Alive \in SUBSET Messages
    BY DEF Alive, IInv, Shape
  <2>2. \A m \in Alive : receipt[m] = "queued"
    BY <2>1, OpenOnes DEF Alive, Selectable
  <2>3. UNCHANGED <<receipt, reason>> /\ exposed' = exposed \cup Alive
    BY <1>18 DEF HandOver
  <2> QED BY <1>1, <1>2, <2>1, <2>2, <2>3, Shows
<1>19. ASSUME NEW level \in {"", "steer"}, NEW m \in Messages, Drain(level, m)
       PROVE G
  <2>1. receipt[m] = "queued"
    BY <1>19, OpenOnes DEF Drain, Pickable
  <2>2. UNCHANGED <<receipt, reason>> /\ exposed' = exposed \cup {m}
    BY <1>19 DEF Drain
  <2>3. {m} \in SUBSET Messages /\ \A n \in {m} : receipt[n] = "queued"
    BY <2>1
  <2> QED BY <1>1, <1>2, <2>2, <2>3, Shows
<1>20. ASSUME NEW a \in Adapters, NEW m \in Messages, Claim(a, m) PROVE G
  <2>1. receipt[m] = "queued"
    BY <1>20, OpenOnes DEF Claim, Claimable, Head, Waiting
  <2>2. UNCHANGED <<receipt, reason>>
    BY <1>20 DEF Claim
  <2>3. exposed' = exposed \cup {m} \/ exposed' = exposed
    BY <1>20 DEF Claim
  <2> QED BY <1>1, <1>2, <2>1, <2>2, <2>3, Shows, Stutters
<1>21. ASSUME NEW m \in Messages, Ack(m) PROVE G
  <2>1. receipt[m] = "queued"
    BY <1>21, OpenOnes DEF Ack
  <2>2. /\ receipt' = [receipt EXCEPT ![m] = "handed_off"]
        /\ UNCHANGED <<reason, exposed>>
    BY <1>21, <2>1 DEF Ack, Confirm
  <2> QED BY <1>1, <1>2, <2>1, <2>2, Delivers
<1>22. ASSUME NEW m \in Messages, DrainConfirms(m) PROVE G
  <2>1. receipt[m] = "queued"
    BY <1>22, OpenOnes DEF DrainConfirms
  <2>2. /\ receipt' = [receipt EXCEPT ![m] = "handed_off"]
        /\ UNCHANGED <<reason, exposed>>
    BY <1>22, <2>1 DEF DrainConfirms, Confirm
  <2> QED BY <1>1, <1>2, <2>1, <2>2, Delivers
<1>23. ASSUME NEW m \in Messages, NEW t \in Tokens, Complete(m, t) PROVE G
  <2>1. receipt[m] = "queued"
    BY <1>23, OpenOnes DEF Complete
  <2>2. /\ receipt' = [receipt EXCEPT ![m] = "handed_off"]
        /\ UNCHANGED <<reason, exposed>>
    BY <1>23, <2>1 DEF Complete
  <2> QED BY <1>1, <1>2, <2>1, <2>2, Delivers
<1>24. ASSUME NEW a \in Adapters, NEW m \in Messages, NEW why \in {"attempts",
      "policy"}, ClaimFails(a, m, why) PROVE G
  <2>1. /\ why \in Tellable /\ receipt[m] = "queued"
        /\ Fail({m}, why) /\ UNCHANGED exposed
    BY <1>24 DEF ClaimFails, CanFail, Tellable, Reasons
  <2> QED BY <1>1, <1>2, <2>1, Tells
<1>25. ASSUME NEW m \in Messages, NEW t \in Tokens, AttemptFailsForGood(m, t)
       PROVE G
  <2>1. /\ "http_error" \in Tellable /\ receipt[m] = "queued"
        /\ Fail({m}, "http_error") /\ UNCHANGED exposed
    BY <1>25 DEF AttemptFailsForGood, CanFail, Tellable, Reasons
  <2> QED BY <1>1, <1>2, <2>1, Tells
<1>26. ASSUME NEW m \in Messages, DrainGivesUp(m) PROVE G
  <2>1. /\ "transport_error" \in Tellable /\ receipt[m] = "queued"
        /\ Fail({m}, "transport_error") /\ UNCHANGED exposed
    BY <1>26 DEF DrainGivesUp, CanFail, Tellable, Reasons
  <2> QED BY <1>1, <1>2, <2>1, Tells
<1>27. ASSUME CloseGeneration PROVE G
  <2> DEFINE S == {m \in Messages : Bound(m) /\ CanFail(m, "session_ended", FALSE)}
  <2>1. /\ S \in SUBSET Messages /\ \A m \in S : receipt[m] = "queued"
        /\ "session_ended" \in Tellable
    BY DEF CanFail, Tellable, Reasons
  <2>2. Fail(S, "session_ended") /\ UNCHANGED exposed
    BY <1>27 DEF CloseGeneration
  <2> QED BY <1>1, <1>2, <2>1, <2>2, Tells
<1>28. ASSUME NEW m \in Messages, NEW why \in Reasons, SweepOne(m, why) PROVE G
  <2>1. why \in Tellable /\ UNCHANGED exposed
    BY <1>28 DEF SweepOne, IInv, Shape
  <2>2. CASE CanFail(m, why, TRUE)
    <3>1. receipt[m] = "queued" /\ Fail({m}, why)
      BY <1>28, <2>2 DEF SweepOne, CanFail
    <3> QED BY <1>1, <1>2, <2>1, <3>1, Tells
  <2>3. CASE ~CanFail(m, why, TRUE)
    BY <1>28, <1>1, <1>2, <2>1, <2>3, Stutters DEF SweepOne
  <2> QED BY <2>2, <2>3
<1>29. CASE UNCHANGED vars
  BY <1>29, <1>1, <1>2, Stutters DEF vars
<1> QED
  BY <1>3, <1>4, <1>5, <1>6, <1>7, <1>8, <1>9, <1>10, <1>11,
     <1>12, <1>13, <1>14, <1>15, <1>16, <1>17, <1>18, <1>19, <1>20,
     <1>21, <1>22, <1>23, <1>24, <1>25, <1>26, <1>27, <1>28, <1>29
     DEF Next, Recipient, Adapter, Harness, Sweeper, Sweep, Time

(* The inbox keeps its promise: a message that was accepted is delivered   *)
(* or its sender told, never both and never twice, and no reader, adapter  *)
(* or drain is shown a message whose outcome is settled or withdrawn.      *)
THEOREM InboxKeepsGuarantee == Spec => KeepsGuarantee
<1>1. Init => Guarantee!Init
  BY DEF Init, Guarantee!Init, Outcome
<1> QED
  BY <1>1, InitOk, StepOk, StepRefines, PTL DEF Spec, KeepsGuarantee, Guarantee!Spec
-----------------------------------------------------------------------------
(* Types: what Shape leaves open.  A claim fails what is spent, so no      *)
(* lease number goes past MaxAttempts.                                     *)
Sane ==
  /\ kind \in Mixes
  /\ acked \subseteq Messages /\ fetched \subseteq Messages
  /\ hidden \subseteq Messages /\ cancelled \subseteq Messages
  /\ picked \subseteq Messages /\ due \subseteq Messages
  /\ live \subseteq Messages /\ exposed \subseteq Messages
  /\ target \in [Messages -> Adapters \cup {"none"}]
  /\ session \in {"running", "stopped"}
  /\ cursor \in [Adapters -> Messages \cup {0}]

CapsOk(m) == attempts[m] <= MaxAttempts /\ token[m] <= MaxAttempts

TInv == Sane /\ \A m \in Messages : CapsOk(m)

(* The attempt cap is a number. *)
LEMMA CapIsNat == MaxAttempts \in Nat /\ 0 <= MaxAttempts
  BY CapAssumption

(* The initial state has the types. *)
LEMMA TypeInit == Init => TInv
<1> SUFFICES ASSUME Init PROVE TInv
  OBVIOUS
<1>1. Sane
  BY DEF Init, Sane, Adapters
<1>2. \A m \in Messages : CapsOk(m)
  BY CapIsNat DEF Init, CapsOk
<1> QED BY <1>1, <1>2 DEF TInv

(* Every step keeps the types and the attempt cap. *)
LEMMA TypeStep == IInv /\ TInv /\ [Next]_vars => TInv'
<1> SUFFICES ASSUME IInv, TInv, [Next]_vars PROVE TInv'
  OBVIOUS
<1> USE DEF TInv, Sane, row, proof, lease
<1>1. ASSUME NEW m \in Messages, Send(m) PROVE TInv'
  <2>1. Sane'
    BY <1>1 DEF Send, TargetOf, Adapters
  <2>2. ASSUME NEW n \in Messages PROVE CapsOk(n)'
    BY <1>1, CapIsNat DEF Send, CapsOk
  <2> QED BY <2>1, <2>2
<1>2. ASSUME NEW m \in Messages, Refuse(m) PROVE TInv'
  <2>1. Sane'
    BY <1>2 DEF Refuse, TargetOf, Adapters
  <2>2. ASSUME NEW n \in Messages PROVE CapsOk(n)'
    BY <1>2, CapIsNat DEF Refuse, Sent, CapsOk
  <2> QED BY <2>1, <2>2
<1>3. ASSUME NEW m \in Messages, Cancel(m) PROVE TInv'
  <2>1. Sane'
    BY <1>3 DEF Cancel
  <2>2. ASSUME NEW n \in Messages PROVE CapsOk(n)'
    BY <1>3, CapIsNat DEF Cancel, CapsOk
  <2> QED BY <2>1, <2>2
<1>4. ASSUME NEW b \in BOOLEAN, SelectPage(b) PROVE TInv'
  <2>1. Sane'
    BY <1>4 DEF SelectPage
  <2>2. ASSUME NEW n \in Messages PROVE CapsOk(n)'
    BY <1>4, CapIsNat DEF SelectPage, CapsOk
  <2> QED BY <2>1, <2>2
<1>5. ASSUME HandOver PROVE TInv'
  <2>1. Sane'
    BY <1>5 DEF HandOver, Alive, IInv, Shape
  <2>2. ASSUME NEW n \in Messages PROVE CapsOk(n)'
    BY <1>5, CapIsNat DEF HandOver, Alive, CapsOk
  <2> QED BY <2>1, <2>2
<1>6. ASSUME NEW m \in Messages, Ack(m) PROVE TInv'
  <2>1. Sane'
    BY <1>6 DEF Ack, Confirm, Sent
  <2>2. ASSUME NEW n \in Messages PROVE CapsOk(n)'
    BY <1>6, CapIsNat DEF Ack, Confirm, Sent, CapsOk
  <2> QED BY <2>1, <2>2
<1>7. ASSUME NEW a \in Adapters, NEW m \in Messages, Claim(a, m) PROVE TInv'
  <2>1. receipt[m] = "queued" /\ m \notin acked /\ kind[m] # "pull"
    BY <1>7, OpenOnes DEF Claim, Claimable, Head, Waiting, OnAddress
  <2>2. CanFail(m, "attempts", FALSE)
    BY <2>1 DEF CanFail
  <2>3. ~(attempts[m] >= MaxAttempts)
    BY <1>7, <2>2 DEF Claim, Spent
  <2>4. TargetAtClaim(m) \in Adapters \cup {"none"}
    BY DEF TargetAtClaim, Adapters
  <2>5. Sane'
    BY <1>7, <2>4 DEF Claim
  <2>6. attempts \in [Messages -> Nat] /\ token \in [Messages -> Nat]
    BY DEF IInv, Shape
  <2>7. attempts[m] + 1 <= MaxAttempts
    BY <2>3, <2>6, CapIsNat
  <2>8. ASSUME NEW n \in Messages PROVE CapsOk(n)'
    BY <1>7, <2>6, <2>7 DEF Claim, CapsOk
  <2> QED BY <2>5, <2>8
<1>8. ASSUME NEW a \in Adapters, NEW m \in Messages, NEW why \in {"attempts",
      "policy"}, ClaimFails(a, m, why)
       PROVE TInv'
  <2>1. Sane'
    BY <1>8 DEF ClaimFails, Fail, TargetAtClaim, Adapters
  <2>2. ASSUME NEW n \in Messages PROVE CapsOk(n)'
    BY <1>8, CapIsNat DEF ClaimFails, Fail, TargetAtClaim, CapsOk
  <2> QED BY <2>1, <2>2
<1>9. ASSUME NEW m \in Messages, NEW t \in Tokens, Complete(m, t) PROVE TInv'
  <2>1. Sane'
    BY <1>9 DEF Complete, Adapters
  <2>2. ASSUME NEW n \in Messages PROVE CapsOk(n)'
    BY <1>9, CapIsNat DEF Complete, CapsOk
  <2> QED BY <2>1, <2>2
<1>10. ASSUME NEW m \in Messages, NEW t \in Tokens, Unavailable(m, t)
       PROVE TInv'
  <2>1. Sane'
    BY <1>10 DEF Unavailable, Adapters
  <2>2. ASSUME NEW n \in Messages PROVE CapsOk(n)'
    BY <1>10, CapIsNat DEF Unavailable, CapsOk
  <2> QED BY <2>1, <2>2
<1>11. ASSUME NEW m \in Messages, NEW t \in Tokens, AttemptFails(m, t)
       PROVE TInv'
  <2>1. Sane'
    BY <1>11 DEF AttemptFails
  <2>2. ASSUME NEW n \in Messages PROVE CapsOk(n)'
    BY <1>11, CapIsNat DEF AttemptFails, CapsOk
  <2> QED BY <2>1, <2>2
<1>12. ASSUME NEW m \in Messages, NEW t \in Tokens, AttemptFailsForGood(m, t)
       PROVE TInv'
  <2>1. Sane'
    BY <1>12 DEF AttemptFailsForGood, Fail
  <2>2. ASSUME NEW n \in Messages PROVE CapsOk(n)'
    BY <1>12, CapIsNat DEF AttemptFailsForGood, Fail, CapsOk
  <2> QED BY <2>1, <2>2
<1>13. ASSUME NEW level \in {"", "steer"}, NEW m \in Messages, Drain(level, m)
       PROVE TInv'
  <2>1. Sane'
    BY <1>13 DEF Drain
  <2>2. ASSUME NEW n \in Messages PROVE CapsOk(n)'
    BY <1>13, CapIsNat DEF Drain, CapsOk
  <2> QED BY <2>1, <2>2
<1>14. ASSUME NEW m \in Messages, DrainConfirms(m) PROVE TInv'
  <2>1. Sane'
    BY <1>14 DEF DrainConfirms, Confirm
  <2>2. ASSUME NEW n \in Messages PROVE CapsOk(n)'
    BY <1>14, CapIsNat DEF DrainConfirms, Confirm, CapsOk
  <2> QED BY <2>1, <2>2
<1>15. ASSUME NEW m \in Messages, DrainGivesUp(m) PROVE TInv'
  <2>1. Sane'
    BY <1>15 DEF DrainGivesUp, Fail
  <2>2. ASSUME NEW n \in Messages PROVE CapsOk(n)'
    BY <1>15, CapIsNat DEF DrainGivesUp, Fail, CapsOk
  <2> QED BY <2>1, <2>2
<1>16. ASSUME CloseGeneration PROVE TInv'
  <2>1. Sane'
    BY <1>16 DEF CloseGeneration, Fail, OpenLease
  <2>2. ASSUME NEW n \in Messages PROVE CapsOk(n)'
    BY <1>16, CapIsNat DEF CloseGeneration, Fail, OpenLease, CapsOk
  <2> QED BY <2>1, <2>2
<1>17. ASSUME SweepSelect PROVE TInv'
  <2>1. Sane'
    BY <1>17 DEF SweepSelect
  <2>2. ASSUME NEW n \in Messages PROVE CapsOk(n)'
    BY <1>17, CapIsNat DEF SweepSelect, CapsOk
  <2> QED BY <2>1, <2>2
<1>18. ASSUME SweepPullSelect PROVE TInv'
  <2>1. Sane'
    BY <1>18 DEF SweepPullSelect
  <2>2. ASSUME NEW n \in Messages PROVE CapsOk(n)'
    BY <1>18, CapIsNat DEF SweepPullSelect, CapsOk
  <2> QED BY <2>1, <2>2
<1>19. ASSUME NEW m \in Messages, NEW why \in Reasons, SweepOne(m, why)
       PROVE TInv'
  <2>1. Sane'
    BY <1>19 DEF SweepOne, Fail
  <2>2. ASSUME NEW n \in Messages PROVE CapsOk(n)'
    BY <1>19, CapIsNat DEF SweepOne, Fail, CapsOk
  <2> QED BY <2>1, <2>2
<1>20. ASSUME SweeperDies PROVE TInv'
  <2>1. Sane'
    BY <1>20 DEF SweeperDies
  <2>2. ASSUME NEW n \in Messages PROVE CapsOk(n)'
    BY <1>20, CapIsNat DEF SweeperDies, CapsOk
  <2> QED BY <2>1, <2>2
<1>21. ASSUME NEW m \in Messages, DeadlinePasses(m) PROVE TInv'
  <2>1. Sane'
    BY <1>21 DEF DeadlinePasses
  <2>2. ASSUME NEW n \in Messages PROVE CapsOk(n)'
    BY <1>21, CapIsNat DEF DeadlinePasses, CapsOk
  <2> QED BY <2>1, <2>2
<1>22. ASSUME NEW m \in Messages, Restored(m) PROVE TInv'
  <2>1. Sane'
    BY <1>22 DEF Restored
  <2>2. ASSUME NEW n \in Messages PROVE CapsOk(n)'
    BY <1>22, CapIsNat DEF Restored, CapsOk
  <2> QED BY <2>1, <2>2
<1>23. ASSUME NEW m \in Messages, Expires(m) PROVE TInv'
  <2>1. Sane'
    BY <1>23 DEF Expires
  <2>2. ASSUME NEW n \in Messages PROVE CapsOk(n)'
    BY <1>23, CapIsNat DEF Expires, CapsOk
  <2> QED BY <2>1, <2>2
<1>24. ASSUME NEW m \in Messages, LeaseEnds(m) PROVE TInv'
  <2>1. Sane'
    BY <1>24 DEF LeaseEnds
  <2>2. ASSUME NEW n \in Messages PROVE CapsOk(n)'
    BY <1>24, CapIsNat DEF LeaseEnds, CapsOk
  <2> QED BY <2>1, <2>2
<1>25. ASSUME NEW m \in Messages, DrainLeaseAges(m) PROVE TInv'
  <2>1. Sane'
    BY <1>25 DEF DrainLeaseAges
  <2>2. ASSUME NEW n \in Messages PROVE CapsOk(n)'
    BY <1>25, CapIsNat DEF DrainLeaseAges, CapsOk
  <2> QED BY <2>1, <2>2
<1>26. ASSUME NEW m \in Messages, PickupLeaseEnds(m) PROVE TInv'
  <2>1. Sane'
    BY <1>26 DEF PickupLeaseEnds
  <2>2. ASSUME NEW n \in Messages PROVE CapsOk(n)'
    BY <1>26, CapIsNat DEF PickupLeaseEnds, CapsOk
  <2> QED BY <2>1, <2>2
<1>27. CASE UNCHANGED vars
  BY <1>27 DEF vars, CapsOk
<1> QED
  BY <1>1, <1>2, <1>3, <1>4, <1>5, <1>6, <1>7, <1>8, <1>9,
     <1>10, <1>11, <1>12, <1>13, <1>14, <1>15, <1>16, <1>17, <1>18,
     <1>19, <1>20, <1>21, <1>22, <1>23, <1>24, <1>25, <1>26, <1>27
     DEF Next, Recipient, Adapter, Harness, Sweeper, Sweep, Time

(* Both invariants give the type invariant. *)
LEMMA TypesFollow == IInv /\ TInv => TypeOK
<1> SUFFICES ASSUME IInv, TInv PROVE TypeOK
  OBVIOUS
<1>1. token \in [Messages -> 0..MaxAttempts] /\ attempts \in [Messages -> 0..MaxAttempts]
  <2>1. token \in [Messages -> Nat] /\ attempts \in [Messages -> Nat]
    BY DEF IInv, Shape
  <2>2. \A m \in Messages : token[m] <= MaxAttempts /\ attempts[m] <= MaxAttempts
    BY DEF TInv, CapsOk
  <2> QED BY <2>1, <2>2, CapIsNat
<1>2. cursor \in [Adapters -> 0..N]
  BY NAssumption DEF TInv, Sane, Messages
<1>3. candidates \subseteq Messages \X Reasons
  BY DEF IInv, Shape, Tellable
<1>4. notices \in [Messages -> 0..1]
  <2>1. {0, 1} = 0..1
    OBVIOUS
  <2> QED BY <2>1 DEF IInv, Shape
<1> QED BY <1>1, <1>2, <1>3, <1>4 DEF TypeOK, IInv, Shape, Receipts, TInv, Sane

(* The model's types, and with them the attempt cap: no delivery is leased *)
(* more than MaxAttempts times, whoever claims it and however often its    *)
(* lease runs out.                                                         *)
THEOREM InboxTypes == Spec => []TypeOK
  BY InitOk, StepOk, TypeInit, TypeStep, TypesFollow, PTL DEF Spec
-----------------------------------------------------------------------------
(* The drain and the address's queue.                                      *)

(* A lease that has ended leaves its message out of every read path, for   *)
(* as long as the session that could drain it again is running.            *)
DrainOk(m) ==
  session = "running" /\ drain[m] \in {"completed", "released"} =>
    m \in acked \/ m \in hidden

DInv == session \in {"running", "stopped"} /\ \A m \in Messages : DrainOk(m)

(* No lease has ended at the start. *)
LEMMA DrainInit == Init => DInv
  BY DEF Init, DInv, DrainOk

(* No step ends a lease and leaves its message to be drained. *)
LEMMA DrainStep == IInv /\ DInv /\ [Next]_vars => DInv'
<1> SUFFICES ASSUME IInv, DInv, [Next]_vars PROVE DInv'
  OBVIOUS
<1> USE DEF DInv, IInv, Shape, row, proof, lease
<1>1. ASSUME NEW m \in Messages, Send(m) PROVE DInv'
  <2> SUFFICES ASSUME NEW n \in Messages PROVE DrainOk(n)'
    BY <1>1 DEF Send
  <2> QED BY <1>1 DEF Send, DrainOk
<1>2. ASSUME NEW m \in Messages, Refuse(m) PROVE DInv'
  <2> SUFFICES ASSUME NEW n \in Messages PROVE DrainOk(n)'
    BY <1>2 DEF Refuse
  <2> QED BY <1>2 DEF Refuse, DrainOk
<1>3. ASSUME NEW m \in Messages, Cancel(m) PROVE DInv'
  <2> SUFFICES ASSUME NEW n \in Messages PROVE DrainOk(n)'
    BY <1>3 DEF Cancel
  <2> QED BY <1>3 DEF Cancel, DrainOk
<1>4. ASSUME NEW b \in BOOLEAN, SelectPage(b) PROVE DInv'
  <2> SUFFICES ASSUME NEW n \in Messages PROVE DrainOk(n)'
    BY <1>4 DEF SelectPage
  <2> QED BY <1>4 DEF SelectPage, DrainOk
<1>5. ASSUME HandOver PROVE DInv'
  <2> SUFFICES ASSUME NEW n \in Messages PROVE DrainOk(n)'
    BY <1>5 DEF HandOver
  <2> QED BY <1>5 DEF HandOver, DrainOk
<1>6. ASSUME NEW m \in Messages, Ack(m) PROVE DInv'
  <2> SUFFICES ASSUME NEW n \in Messages PROVE DrainOk(n)'
    BY <1>6 DEF Ack
  <2> QED BY <1>6 DEF Ack, Confirm, DrainOk
<1>7. ASSUME NEW a \in Adapters, NEW m \in Messages, Claim(a, m) PROVE DInv'
  <2> SUFFICES ASSUME NEW n \in Messages PROVE DrainOk(n)'
    BY <1>7 DEF Claim
  <2> QED BY <1>7 DEF Claim, DrainOk
<1>8. ASSUME NEW a \in Adapters, NEW m \in Messages, NEW why \in {"attempts",
      "policy"}, ClaimFails(a, m, why)
       PROVE DInv'
  <2> SUFFICES ASSUME NEW n \in Messages PROVE DrainOk(n)'
    BY <1>8 DEF ClaimFails
  <2> QED BY <1>8 DEF ClaimFails, Fail, Release, DrainOk
<1>9. ASSUME NEW m \in Messages, NEW t \in Tokens, Complete(m, t) PROVE DInv'
  <2> SUFFICES ASSUME NEW n \in Messages PROVE DrainOk(n)'
    BY <1>9 DEF Complete
  <2> QED BY <1>9 DEF Complete, DrainOk
<1>10. ASSUME NEW m \in Messages, NEW t \in Tokens, Unavailable(m, t)
       PROVE DInv'
  <2> SUFFICES ASSUME NEW n \in Messages PROVE DrainOk(n)'
    BY <1>10 DEF Unavailable
  <2> QED BY <1>10 DEF Unavailable, DrainOk
<1>11. ASSUME NEW m \in Messages, NEW t \in Tokens, AttemptFails(m, t)
       PROVE DInv'
  <2> SUFFICES ASSUME NEW n \in Messages PROVE DrainOk(n)'
    BY <1>11 DEF AttemptFails
  <2> QED BY <1>11 DEF AttemptFails, DrainOk
<1>12. ASSUME NEW m \in Messages, NEW t \in Tokens, AttemptFailsForGood(m, t)
       PROVE DInv'
  <2> SUFFICES ASSUME NEW n \in Messages PROVE DrainOk(n)'
    BY <1>12 DEF AttemptFailsForGood
  <2> QED BY <1>12 DEF AttemptFailsForGood, Fail, Release, DrainOk
<1>13. ASSUME NEW level \in {"", "steer"}, NEW m \in Messages, Drain(level, m)
       PROVE DInv'
  <2> SUFFICES ASSUME NEW n \in Messages PROVE DrainOk(n)'
    BY <1>13 DEF Drain
  <2> QED BY <1>13 DEF Drain, DrainOk
<1>14. ASSUME NEW m \in Messages, DrainConfirms(m) PROVE DInv'
  <2> SUFFICES ASSUME NEW n \in Messages PROVE DrainOk(n)'
    BY <1>14 DEF DrainConfirms
  <2> QED BY <1>14 DEF DrainConfirms, Confirm, DrainOk
<1>15. ASSUME NEW m \in Messages, DrainGivesUp(m) PROVE DInv'
  <2> SUFFICES ASSUME NEW n \in Messages PROVE DrainOk(n)'
    BY <1>15 DEF DrainGivesUp
  <2> QED BY <1>15 DEF DrainGivesUp, Fail, DrainOk
<1>16. ASSUME CloseGeneration PROVE DInv'
  <2> SUFFICES ASSUME NEW n \in Messages PROVE DrainOk(n)'
    BY <1>16 DEF CloseGeneration
  <2> QED BY <1>16 DEF CloseGeneration, DrainOk
<1>17. ASSUME SweepSelect PROVE DInv'
  <2> SUFFICES ASSUME NEW n \in Messages PROVE DrainOk(n)'
    BY <1>17 DEF SweepSelect
  <2> QED BY <1>17 DEF SweepSelect, DrainOk
<1>18. ASSUME SweepPullSelect PROVE DInv'
  <2> SUFFICES ASSUME NEW n \in Messages PROVE DrainOk(n)'
    BY <1>18 DEF SweepPullSelect
  <2> QED BY <1>18 DEF SweepPullSelect, DrainOk
<1>19. ASSUME NEW m \in Messages, NEW why \in Reasons, SweepOne(m, why)
       PROVE DInv'
  <2> SUFFICES ASSUME NEW n \in Messages PROVE DrainOk(n)'
    BY <1>19 DEF SweepOne
  <2> QED BY <1>19 DEF SweepOne, Fail, Release, DrainOk
<1>20. ASSUME SweeperDies PROVE DInv'
  <2> SUFFICES ASSUME NEW n \in Messages PROVE DrainOk(n)'
    BY <1>20 DEF SweeperDies
  <2> QED BY <1>20 DEF SweeperDies, DrainOk
<1>21. ASSUME NEW m \in Messages, DeadlinePasses(m) PROVE DInv'
  <2> SUFFICES ASSUME NEW n \in Messages PROVE DrainOk(n)'
    BY <1>21 DEF DeadlinePasses
  <2> QED BY <1>21 DEF DeadlinePasses, DrainOk
<1>22. ASSUME NEW m \in Messages, Restored(m) PROVE DInv'
  <2> SUFFICES ASSUME NEW n \in Messages PROVE DrainOk(n)'
    BY <1>22 DEF Restored
  <2> QED BY <1>22 DEF Restored, DrainOk
<1>23. ASSUME NEW m \in Messages, Expires(m) PROVE DInv'
  <2> SUFFICES ASSUME NEW n \in Messages PROVE DrainOk(n)'
    BY <1>23 DEF Expires
  <2> QED BY <1>23 DEF Expires, DrainOk
<1>24. ASSUME NEW m \in Messages, LeaseEnds(m) PROVE DInv'
  <2> SUFFICES ASSUME NEW n \in Messages PROVE DrainOk(n)'
    BY <1>24 DEF LeaseEnds
  <2> QED BY <1>24 DEF LeaseEnds, DrainOk
<1>25. ASSUME NEW m \in Messages, DrainLeaseAges(m) PROVE DInv'
  <2> SUFFICES ASSUME NEW n \in Messages PROVE DrainOk(n)'
    BY <1>25 DEF DrainLeaseAges
  <2> QED BY <1>25 DEF DrainLeaseAges, DrainOk
<1>26. ASSUME NEW m \in Messages, PickupLeaseEnds(m) PROVE DInv'
  <2> SUFFICES ASSUME NEW n \in Messages PROVE DrainOk(n)'
    BY <1>26 DEF PickupLeaseEnds
  <2> QED BY <1>26 DEF PickupLeaseEnds, DrainOk
<1>27. CASE UNCHANGED vars
  BY <1>27 DEF vars, DrainOk
<1> QED
  BY <1>1, <1>2, <1>3, <1>4, <1>5, <1>6, <1>7, <1>8, <1>9,
     <1>10, <1>11, <1>12, <1>13, <1>14, <1>15, <1>16, <1>17, <1>18,
     <1>19, <1>20, <1>21, <1>22, <1>23, <1>24, <1>25, <1>26, <1>27
     DEF Next, Recipient, Adapter, Harness, Sweeper, Sweep, Time

(* What can be drained has never been drained. *)
LEMMA DrainFollows == IInv /\ DInv => DrainNeverStuck
<1> SUFFICES ASSUME IInv, DInv, session = "running", NEW m \in Messages, Pickable(m)
             PROVE  drain[m] = "none"
  BY DEF DrainNeverStuck
<1>1. m \notin acked /\ m \notin hidden /\ drain[m] \notin {"leased", "stale"}
  BY DEF Pickable, Readable, Available, OpenLease
<1> QED BY <1>1 DEF IInv, Shape, DInv, DrainOk

(* The managed drain never meets a lease row that has ended, which its     *)
(* INSERT could not lease again.                                           *)
THEOREM InboxDrainNeverStuck == Spec => []DrainNeverStuck
  BY InitOk, StepOk, DrainInit, DrainStep, DrainFollows, PTL DEF Spec
-----------------------------------------------------------------------------
(* The order of an address's queue.                                        *)
Over(m) == receipt[m] \in {"handed_off", "failed"}

(* A message is settled no earlier than its sender knows, and sent in order. *)
DeadOk(m) == delivery[m] = "dead" => Over(m)
InOrder(m) == Sent(m) => \A n \in Messages : n < m => Sent(n)

(* Whoever holds a delivery holds the oldest open one of the address. *)
Held(m) == token[m] # 0 /\ delivery[m] = "pending"
HolderOk(m) ==
  Held(m) => \A n \in Messages : OnAddress(n) /\ n < m => Over(n)

(* A cursor stands on a message that was sent and has everything behind it. *)
CursorOk(a) ==
  /\ cursor[a] \in Messages => Sent(cursor[a])
  /\ \A n \in Messages : OnAddress(n) /\ n <= cursor[a] => Over(n)

OInv ==
  /\ \A m \in Messages : DeadOk(m) /\ InOrder(m) /\ HolderOk(m)
  /\ \A a \in Adapters : CursorOk(a)

(* No step reopens, unsends or requeues a message. *)
Forward(n) ==
  /\ Over(n) => Over(n)'
  /\ Sent(n) => Sent(n)' /\ (OnAddress(n)' => OnAddress(n))
  /\ delivery'[n] = "dead" => delivery[n] = "dead" \/ Over(n)'

(* Most steps send nothing, give no delivery out and move no cursor. *)
Quiet ==
  /\ cursor' = cursor
  /\ \A n \in Messages : (Sent(n)' => Sent(n)) /\ (Held(n)' => Held(n))

(* Nothing is queued at the start. *)
LEMMA OrderInit == Init => OInv
<1> SUFFICES ASSUME Init PROVE OInv
  OBVIOUS
<1>1. \A m \in Messages : DeadOk(m) /\ InOrder(m) /\ HolderOk(m)
  BY DEF Init, DeadOk, InOrder, HolderOk, Held, Sent
<1>2. \A a \in Adapters : CursorOk(a)
  <2>1. 0 \notin Messages
    BY NAssumption DEF Messages
  <2>2. \A n \in Messages : ~OnAddress(n)
    BY DEF Init, OnAddress
  <2> QED BY <2>1, <2>2 DEF Init, CursorOk
<1> QED BY <1>1, <1>2 DEF OInv

(* The holder's report settles its message. *)
LEMMA CompleteSettles ==
  ASSUME IInv, NEW m \in Messages, NEW t \in Tokens, Complete(m, t)
  PROVE  /\ receipt' = [receipt EXCEPT ![m] = "handed_off"]
         /\ delivery' = [delivery EXCEPT ![m] = "delivered"]
         /\ receipt[m] = "queued" /\ delivery[m] = "pending"
         /\ UNCHANGED <<kind, token>>
         /\ cursor' = [cursor EXCEPT ![target[m]] = IF m > @ THEN m ELSE @]
<1>1. receipt[m] = "queued" /\ delivery[m] = "pending"
  BY OpenOnes DEF Complete, Holds
<1> QED BY <1>1 DEF Complete

(* Every step moves each message forward. *)
LEMMA Progresses == IInv /\ [Next]_vars =>
  \A n \in Messages : Forward(n)
<1> SUFFICES ASSUME IInv, [Next]_vars, NEW n \in Messages PROVE Forward(n)
  OBVIOUS
<1> USE DEF Forward, Over, Sent, OnAddress, IInv, Shape, Receipts, row, proof, lease
<1>1. ASSUME NEW m \in Messages, Send(m) PROVE Forward(n)
  BY <1>1 DEF Send, DeliveryOf
<1>2. ASSUME NEW m \in Messages, Refuse(m) PROVE Forward(n)
  BY <1>2 DEF Refuse
<1>3. ASSUME NEW m \in Messages, Cancel(m) PROVE Forward(n)
  BY <1>3 DEF Cancel
<1>4. ASSUME NEW b \in BOOLEAN, SelectPage(b) PROVE Forward(n)
  BY <1>4 DEF SelectPage
<1>5. ASSUME HandOver PROVE Forward(n)
  BY <1>5 DEF HandOver
<1>6. ASSUME NEW m \in Messages, Ack(m) PROVE Forward(n)
  BY <1>6 DEF Ack, Confirm
<1>7. ASSUME NEW a \in Adapters, NEW m \in Messages, Claim(a, m)
       PROVE Forward(n)
  BY <1>7 DEF Claim
<1>8. ASSUME NEW a \in Adapters, NEW m \in Messages, NEW why \in {"attempts",
      "policy"}, ClaimFails(a, m, why)
       PROVE Forward(n)
  BY <1>8 DEF ClaimFails, Fail, CanFail
<1>9. ASSUME NEW m \in Messages, NEW t \in Tokens, Complete(m, t)
       PROVE Forward(n)
  BY <1>9, CompleteSettles
<1>10. ASSUME NEW m \in Messages, NEW t \in Tokens, Unavailable(m, t)
       PROVE Forward(n)
  BY <1>10 DEF Unavailable
<1>11. ASSUME NEW m \in Messages, NEW t \in Tokens, AttemptFails(m, t)
       PROVE Forward(n)
  BY <1>11 DEF AttemptFails
<1>12. ASSUME NEW m \in Messages, NEW t \in Tokens, AttemptFailsForGood(m, t)
       PROVE Forward(n)
  BY <1>12 DEF AttemptFailsForGood, Fail, CanFail
<1>13. ASSUME NEW level \in {"", "steer"}, NEW m \in Messages, Drain(level, m)
       PROVE Forward(n)
  BY <1>13 DEF Drain
<1>14. ASSUME NEW m \in Messages, DrainConfirms(m) PROVE Forward(n)
  BY <1>14 DEF DrainConfirms, OpenLease, MessageOk, UnsentOk, Confirm
<1>15. ASSUME NEW m \in Messages, DrainGivesUp(m) PROVE Forward(n)
  BY <1>15 DEF DrainGivesUp, Fail, CanFail
<1>16. ASSUME CloseGeneration PROVE Forward(n)
  BY <1>16 DEF CloseGeneration, Fail, CanFail
<1>17. ASSUME SweepSelect PROVE Forward(n)
  BY <1>17 DEF SweepSelect
<1>18. ASSUME SweepPullSelect PROVE Forward(n)
  BY <1>18 DEF SweepPullSelect
<1>19. ASSUME NEW m \in Messages, NEW why \in Reasons, SweepOne(m, why)
       PROVE Forward(n)
  <2>1. CASE CanFail(m, why, TRUE)
    <3>1. Fail({m}, why) /\ UNCHANGED <<kind, cursor>>
      BY <1>19, <2>1 DEF SweepOne
    <3> QED BY <2>1, <3>1 DEF Fail, CanFail
  <2>2. CASE ~CanFail(m, why, TRUE)
    <3>1. UNCHANGED <<kind, receipt, delivery, token, cursor>>
      BY <1>19, <2>2 DEF SweepOne
    <3> QED BY <3>1
  <2> QED BY <2>1, <2>2
<1>20. ASSUME SweeperDies PROVE Forward(n)
  BY <1>20 DEF SweeperDies
<1>21. ASSUME NEW m \in Messages, DeadlinePasses(m) PROVE Forward(n)
  BY <1>21 DEF DeadlinePasses
<1>22. ASSUME NEW m \in Messages, Restored(m) PROVE Forward(n)
  BY <1>22 DEF Restored
<1>23. ASSUME NEW m \in Messages, Expires(m) PROVE Forward(n)
  BY <1>23 DEF Expires
<1>24. ASSUME NEW m \in Messages, LeaseEnds(m) PROVE Forward(n)
  BY <1>24 DEF LeaseEnds
<1>25. ASSUME NEW m \in Messages, DrainLeaseAges(m) PROVE Forward(n)
  BY <1>25 DEF DrainLeaseAges
<1>26. ASSUME NEW m \in Messages, PickupLeaseEnds(m) PROVE Forward(n)
  BY <1>26 DEF PickupLeaseEnds
<1>27. CASE UNCHANGED vars
  BY <1>27 DEF vars
<1> QED
  BY <1>1, <1>2, <1>3, <1>4, <1>5, <1>6, <1>7, <1>8, <1>9,
     <1>10, <1>11, <1>12, <1>13, <1>14, <1>15, <1>16, <1>17, <1>18,
     <1>19, <1>20, <1>21, <1>22, <1>23, <1>24, <1>25, <1>26, <1>27
     DEF Next, Recipient, Adapter, Harness, Sweeper, Sweep, Time

(* Only a send, a claim and a completion touch the order. *)
LEMMA OthersAreQuiet ==
  ASSUME IInv, [Next]_vars,
         \A m \in Messages : ~Send(m) /\ ~Refuse(m),
         \A m \in Messages : \A a \in Adapters : ~Claim(a, m),
         \A m \in Messages : \A t \in Tokens : ~Complete(m, t)
  PROVE  Quiet
<1> USE DEF Quiet, Held, Sent, IInv, Shape, Receipts, row, proof, lease
<1>1. ASSUME NEW m \in Messages, Cancel(m) PROVE Quiet
  BY <1>1 DEF Cancel
<1>2. ASSUME NEW b \in BOOLEAN, SelectPage(b) PROVE Quiet
  BY <1>2 DEF SelectPage
<1>3. ASSUME HandOver PROVE Quiet
  BY <1>3 DEF HandOver
<1>4. ASSUME NEW m \in Messages, Ack(m) PROVE Quiet
  BY <1>4 DEF Ack, Confirm
<1>5. ASSUME NEW a \in Adapters, NEW m \in Messages, NEW why \in {"attempts",
      "policy"}, ClaimFails(a, m, why)
       PROVE Quiet
  BY <1>5 DEF ClaimFails, Fail, CanFail
<1>6. ASSUME NEW m \in Messages, NEW t \in Tokens, Unavailable(m, t)
       PROVE Quiet
  BY <1>6 DEF Unavailable
<1>7. ASSUME NEW m \in Messages, NEW t \in Tokens, AttemptFails(m, t)
       PROVE Quiet
  BY <1>7 DEF AttemptFails
<1>8. ASSUME NEW m \in Messages, NEW t \in Tokens, AttemptFailsForGood(m, t)
       PROVE Quiet
  BY <1>8 DEF AttemptFailsForGood, Fail, CanFail
<1>9. ASSUME NEW level \in {"", "steer"}, NEW m \in Messages, Drain(level, m)
       PROVE Quiet
  BY <1>9 DEF Drain
<1>10. ASSUME NEW m \in Messages, DrainConfirms(m) PROVE Quiet
  BY <1>10 DEF DrainConfirms, OpenLease, MessageOk, UnsentOk, Confirm
<1>11. ASSUME NEW m \in Messages, DrainGivesUp(m) PROVE Quiet
  BY <1>11 DEF DrainGivesUp, Fail, CanFail
<1>12. ASSUME CloseGeneration PROVE Quiet
  BY <1>12 DEF CloseGeneration, Fail, CanFail
<1>13. ASSUME SweepSelect PROVE Quiet
  BY <1>13 DEF SweepSelect
<1>14. ASSUME SweepPullSelect PROVE Quiet
  BY <1>14 DEF SweepPullSelect
<1>15. ASSUME NEW m \in Messages, NEW why \in Reasons, SweepOne(m, why)
       PROVE Quiet
  <2>1. CASE CanFail(m, why, TRUE)
    <3>1. Fail({m}, why) /\ UNCHANGED <<kind, cursor>>
      BY <1>15, <2>1 DEF SweepOne
    <3> QED BY <2>1, <3>1 DEF Fail, CanFail
  <2>2. CASE ~CanFail(m, why, TRUE)
    <3>1. UNCHANGED <<kind, receipt, delivery, token, cursor>>
      BY <1>15, <2>2 DEF SweepOne
    <3> QED BY <3>1
  <2> QED BY <2>1, <2>2
<1>16. ASSUME SweeperDies PROVE Quiet
  BY <1>16 DEF SweeperDies
<1>17. ASSUME NEW m \in Messages, DeadlinePasses(m) PROVE Quiet
  BY <1>17 DEF DeadlinePasses
<1>18. ASSUME NEW m \in Messages, Restored(m) PROVE Quiet
  BY <1>18 DEF Restored
<1>19. ASSUME NEW m \in Messages, Expires(m) PROVE Quiet
  BY <1>19 DEF Expires
<1>20. ASSUME NEW m \in Messages, LeaseEnds(m) PROVE Quiet
  BY <1>20 DEF LeaseEnds
<1>21. ASSUME NEW m \in Messages, DrainLeaseAges(m) PROVE Quiet
  BY <1>21 DEF DrainLeaseAges
<1>22. ASSUME NEW m \in Messages, PickupLeaseEnds(m) PROVE Quiet
  BY <1>22 DEF PickupLeaseEnds
<1>23. CASE UNCHANGED vars
  BY <1>23 DEF vars
<1> QED
  BY <1>1, <1>2, <1>3, <1>4, <1>5, <1>6, <1>7, <1>8, <1>9,
     <1>10, <1>11, <1>12, <1>13, <1>14, <1>15, <1>16, <1>17, <1>18,
     <1>19, <1>20, <1>21, <1>22, <1>23
     DEF Next, Recipient, Adapter, Harness, Sweeper, Sweep, Time

(* Every step keeps the order of the queue. *)
LEMMA OrderStep == IInv /\ TInv /\ OInv /\ [Next]_vars => OInv'
<1> SUFFICES ASSUME IInv, TInv, OInv, [Next]_vars PROVE OInv'
  OBVIOUS
<1>1. \A n \in Messages : Forward(n)
  BY Progresses
<1>2. /\ \A n \in Messages : n \in Int /\ n > 0
      /\ \A a \in Adapters : cursor[a] \in Messages \cup {0}
  BY NAssumption DEF TInv, Sane, Messages
<1>21. \A n \in Messages : (Held(n) => Sent(n)) /\ (OnAddress(n) => Sent(n))
  BY DEF IInv, MessageOk, UnsentOk, Held, Sent, OnAddress
<1>22. \A n \in Messages : OnAddress(n)' => Sent(n)'
  <2>1. IInv'
    BY StepOk
  <2> QED BY <2>1 DEF IInv, MessageOk, UnsentOk, Sent, OnAddress
<1>3. \A m \in Messages : DeadOk(m)'
  BY <1>1 DEF Forward, OInv, DeadOk
<1>4. CASE Quiet
  <2>1. \A m \in Messages : InOrder(m)'
    BY <1>1, <1>4 DEF Quiet, Forward, OInv, InOrder
  <2>2. \A n \in Messages : OnAddress(n)' => OnAddress(n)
    BY <1>1, <1>22, <1>4 DEF Quiet, Forward
  <2>3. \A m \in Messages : HolderOk(m)'
    BY <1>1, <1>4, <2>2 DEF Quiet, Forward, OInv, HolderOk
  <2>4. ASSUME NEW a \in Adapters PROVE CursorOk(a)'
    <3>1. cursor'[a] = cursor[a] /\ CursorOk(a)
      BY <1>4 DEF Quiet, OInv
    <3> QED BY <1>1, <2>2, <3>1 DEF Forward, CursorOk
  <2> QED BY <1>3, <2>1, <2>3, <2>4 DEF OInv
<1>5. ASSUME NEW m \in Messages, Send(m) \/ Refuse(m) PROVE OInv'
  <2>1. /\ ~Sent(m) /\ \A n \in 1..(m - 1) : Sent(n)
        /\ UNCHANGED <<kind, token, cursor>>
        /\ \A n \in Messages \ {m} : receipt'[n] = receipt[n] /\ delivery'[n] = delivery[n]
    BY <1>5, ZenonT(40) DEF Send, Refuse, IInv, Shape, row, proof, lease
  <2>2. \A n \in Messages : n < m => Sent(n)
    BY <1>2, <2>1
  <2>3. \A n \in Messages \ {m} : (Sent(n)' <=> Sent(n)) /\ (Held(n)' <=> Held(n))
                                    /\ (OnAddress(n)' <=> OnAddress(n))
    BY <2>1 DEF Sent, Held, OnAddress
  <2>4. ~Held(m)' /\ Sent(m)'
    BY <1>1, <1>5, <2>1 DEF Held, Send, Refuse, Sent, IInv, Shape, MessageOk,
         UnsentOk
  <2>5. \A k \in Messages : Sent(k) => k < m
    BY <1>2, <2>1 DEF OInv, InOrder
  <2>6. \A k \in Messages : InOrder(k)'
    BY <1>2, <2>2, <2>3, <2>4, <2>5 DEF InOrder, OInv
  <2>7. \A k \in Messages : HolderOk(k)'
    BY <1>1, <1>2, <1>21, <2>3, <2>4, <2>5 DEF HolderOk, OInv, Forward
  <2>8. ASSUME NEW a \in Adapters PROVE CursorOk(a)'
    <3>1. cursor'[a] = cursor[a] /\ CursorOk(a) /\ cursor[a] \in Messages \cup {0}
      BY <1>2, <2>1 DEF OInv
    <3>2. cursor[a] < m
      BY <1>2, <2>5, <3>1 DEF CursorOk
    <3> QED BY <1>1, <1>2, <2>3, <3>1, <3>2 DEF CursorOk, Forward
  <2> QED BY <1>3, <2>6, <2>7, <2>8 DEF OInv
<1>6. ASSUME NEW a \in Adapters, NEW m \in Messages, Claim(a, m) PROVE OInv'
  <2>1. /\ Head(a, m) /\ UNCHANGED <<kind, receipt, delivery, acked, cursor>>
        /\ \A n \in Messages \ {m} : token'[n] = token[n]
    BY <1>6 DEF Claim, Claimable, IInv, Shape, row, proof, lease
  <2>2. \A n \in Messages : n < m => ~Waiting(a, n)
    BY <1>2, <2>1 DEF Head
  <2>3. \A n \in Messages : n \in acked => Over(n)
    BY DEF IInv, Shape, Receipts, MessageOk, UnsentOk, QueuedOk, Over
  <2>4. \A n \in Messages : OnAddress(n) /\ n < m => Over(n)
    <3> SUFFICES ASSUME NEW n \in Messages, OnAddress(n), n < m PROVE Over(n)
      OBVIOUS
    <3>1. n \in acked \/ delivery[n] = "dead" \/ n <= cursor[a]
      BY <1>2, <2>2 DEF Waiting
    <3> QED BY <2>3, <3>1 DEF OInv, DeadOk, CursorOk
  <2>5. \A n \in Messages : /\ (OnAddress(n)' <=> OnAddress(n))
                             /\ (Over(n)' <=> Over(n)) /\ (Sent(n)' <=> Sent(n))
    BY <2>1 DEF OnAddress, Over, Sent
  <2>6. \A k \in Messages \ {m} : Held(k)' <=> Held(k)
    BY <2>1 DEF Held
  <2>7. \A k \in Messages : InOrder(k)' /\ HolderOk(k)'
    BY <2>4, <2>5, <2>6 DEF InOrder, HolderOk, OInv
  <2>8. \A b \in Adapters : CursorOk(b)'
    BY <2>1, <2>5 DEF CursorOk, OInv
  <2> QED BY <1>3, <2>7, <2>8 DEF OInv
<1>7. ASSUME NEW m \in Messages, NEW t \in Tokens, Complete(m, t) PROVE OInv'
  <2>1. /\ receipt' = [receipt EXCEPT ![m] = "handed_off"]
        /\ delivery' = [delivery EXCEPT ![m] = "delivered"]
        /\ receipt[m] = "queued" /\ delivery[m] = "pending"
        /\ UNCHANGED <<kind, token>>
        /\ cursor' = [cursor EXCEPT ![target[m]] = IF m > @ THEN m ELSE @]
    BY <1>7, CompleteSettles
  <2>2. Held(m) /\ Sent(m) /\ Over(m)'
    BY <1>7, <2>1 DEF Complete, Holds, Held, Sent, Over, IInv, Shape
  <2>3. \A n \in Messages : /\ (OnAddress(n)' <=> OnAddress(n))
                             /\ (Sent(n)' <=> Sent(n)) /\ (Held(n)' => Held(n))
    BY <2>1 DEF OnAddress, Sent, Held, IInv, Shape
  <2>4. \A k \in Messages : InOrder(k)' /\ HolderOk(k)'
    BY <1>1, <2>3 DEF InOrder, HolderOk, OInv, Forward
  <2>5. ASSUME NEW a \in Adapters PROVE CursorOk(a)'
    <3>1. cursor'[a] = cursor[a] \/ cursor'[a] = m
      BY <2>1 DEF TInv, Sane
    <3>2. CASE cursor'[a] = cursor[a]
      BY <1>1, <2>3, <3>2 DEF CursorOk, OInv, Forward
    <3>3. CASE cursor'[a] = m
      <4>1. \A n \in Messages : OnAddress(n) /\ n < m => Over(n)
        BY <2>2 DEF OInv, HolderOk
      <4> QED BY <1>1, <1>2, <2>2, <2>3, <3>3, <4>1 DEF CursorOk, Forward
    <3> QED BY <3>1, <3>2, <3>3
  <2> QED BY <1>3, <2>4, <2>5 DEF OInv
<1> QED BY <1>4, <1>5, <1>6, <1>7, OthersAreQuiet

(* The order gives what the cursors promise. *)
LEMMA CursorFollows == OInv => CursorSkipsNothing
  BY DEF OInv, CursorOk, Over, CursorSkipsNothing

(* Neither cursor of the address passes a message that is still open: what *)
(* lies behind one was delivered or its sender was told.                   *)
THEOREM InboxCursorSkipsNothing == Spec => []CursorSkipsNothing
  BY InitOk, StepOk, TypeInit, TypeStep, OrderInit, OrderStep, CursorFollows, PTL
     DEF Spec
=============================================================================
