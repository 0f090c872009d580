------------------------- MODULE DeliveryGuarantee -------------------------
(***************************************************************************)
(* What internal/inbox promises the sender of a message (AEON-280): the    *)
(* message is delivered, or its sender is told that it was not, and never  *)
(* both.  A person may withdraw a message nobody has been shown.  Nobody   *)
(* is shown a message after its outcome is settled.                        *)
(*                                                                         *)
(* InboxDelivery implements this specification.                            *)
(***************************************************************************)
CONSTANT Messages

VARIABLES
  outcome,    \* what became of each message
  shown       \* the messages whose content has left for a recipient

vars == <<outcome, shown>>

Outcomes ==
  {"unsent", "refused", "open", "delivered", "told", "withdrawn"}

Init ==
  /\ outcome = [m \in Messages |-> "unsent"]
  /\ shown = {}

Settle(S, o) ==
  outcome' = [m \in Messages |-> IF m \in S THEN o ELSE outcome[m]]

Open(S) == \A m \in S : outcome[m] = "open"

(* The send is accepted, or refused with an error to its sender. *)
Accept(m) ==
  /\ outcome[m] = "unsent"
  /\ \E o \in {"open", "refused"} : Settle({m}, o)
  /\ UNCHANGED shown

Show(S) ==
  /\ Open(S)
  /\ shown' = shown \cup S
  /\ UNCHANGED outcome

Deliver(m) ==
  /\ Open({m})
  /\ Settle({m}, "delivered")
  /\ UNCHANGED shown

(* One step may tell the senders of several messages: a session ended. *)
Tell(S) ==
  /\ Open(S)
  /\ Settle(S, "told")
  /\ UNCHANGED shown

Withdraw(m) ==
  /\ Open({m})
  /\ m \notin shown
  /\ Settle({m}, "withdrawn")
  /\ UNCHANGED shown

Next ==
  \/ \E m \in Messages : Accept(m) \/ Deliver(m) \/ Withdraw(m)
  \/ \E S \in SUBSET Messages : Show(S) \/ Tell(S)

Spec == Init /\ [][Next]_vars
=============================================================================
