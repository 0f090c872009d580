----------------------- MODULE NotificationHubProofs -----------------------
(* Proofs about NotificationHub for every set of subscribers, events and   *)
(* tenants, every mailbox capacity and every number of hub generations:    *)
(* type correctness, one backend, a final shutdown, and no lost wake-up.   *)
EXTENDS NotificationHub, FiniteSetTheorems, TLAPS

Msgs == Events \cup {Resync}
Elems(box) == {box[i] : i \in 1..Len(box)}

\* A mailbox that has told, or will tell, its consumer of e.
Tells(box, e) == {e, Resync} \cap Elems(box) # {}

-----------------------------------------------------------------------------
(* Mailboxes.                                                               *)

\* publish hands over the hint or a resync, and replaces what it drops by a
\* resync, within the mailbox's capacity.
LEMMA DeliveredTells ==
  ASSUME NEW box \in Seq(Msgs), Len(box) <= Cap, NEW x \in Msgs
  PROVE  /\ Delivered(box, x) \in Seq(Msgs) /\ Len(Delivered(box, x)) <= Cap
         /\ Tells(Delivered(box, x), x)
         /\ \A e \in Events : Tells(box, e) => Tells(Delivered(box, x), e)
<1>1. CASE Len(box) < Cap
  <2>1. Delivered(box, x) = Append(box, x)
    BY <1>1 DEF Delivered
  <2>2. /\ Append(box, x) \in Seq(Msgs) /\ Len(Append(box, x)) = Len(box) + 1
        /\ Append(box, x)[Len(box) + 1] = x
        /\ \A i \in 1..Len(box) : Append(box, x)[i] = box[i]
    OBVIOUS
  <2>3. Elems(box) \subseteq Elems(Append(box, x)) /\ x \in Elems(Append(box, x))
    BY <2>2 DEF Elems
  <2>4. QED
    BY <1>1, <2>1, <2>2, <2>3, CapIsPositive DEF Tells
<1>2. CASE Len(box) >= Cap
  <2>1. Delivered(box, x) = <<Resync>>
    BY <1>2, CapIsPositive DEF Delivered
  <2>2. Resync \in Elems(<<Resync>>) /\ <<Resync>> \in Seq(Msgs) /\ Len(<<Resync>>) = 1
    BY DEF Elems, Msgs
  <2>3. QED
    BY <2>1, <2>2, CapIsPositive DEF Tells
<1>3. QED
  BY <1>1, <1>2, CapIsPositive

\* Taking the first hint keeps every other one.
LEMMA TailKeeps ==
  ASSUME NEW box \in Seq(Msgs), box # <<>>
  PROVE  /\ Tail(box) \in Seq(Msgs) /\ Len(Tail(box)) <= Len(box)
         /\ Head(box) \in Msgs
         /\ \A y \in Elems(box) : y # Head(box) => y \in Elems(Tail(box))
<1>1. Tail(box) \in Seq(Msgs) /\ Len(Tail(box)) = Len(box) - 1 /\ Head(box) = box[1] /\ Len(box) \in Nat \ {0}
  OBVIOUS
<1>2. \A i \in 1..Len(Tail(box)) : Tail(box)[i] = box[i + 1]
  OBVIOUS
<1>3. ASSUME NEW y \in Elems(box), y # Head(box) PROVE y \in Elems(Tail(box))
  <2>1. PICK i \in 1..Len(box) : y = box[i]
    BY DEF Elems
  <2>2. i # 1
    BY <1>1, <1>3, <2>1
  <2>3. i - 1 \in 1..Len(Tail(box)) /\ Tail(box)[i - 1] = box[i]
    BY <1>1, <1>2, <2>2
  <2>4. QED
    BY <2>1, <2>3 DEF Elems
<1>4. QED
  BY <1>1, <1>3

-----------------------------------------------------------------------------
(* The type invariant, with mailboxes as sequences.                         *)

Labels == {"none", "dial", "rescan", "wait", "lost", "sleep", "exit", "done"}

Typed ==
  /\ shutdown \in {"no", "draining", "drained"}
  /\ listeners \in Hubs \cup {0}
  /\ pc \in [Hubs -> Labels]
  /\ closing \in [Hubs -> BOOLEAN]
  /\ ready \in [Hubs -> {"no", "ok", "err"}]
  /\ members \in [Hubs -> SUBSET Subs]
  /\ session \subseteq Hubs /\ broken \subseteq session
  /\ inflight \in [Hubs -> SUBSET Events]
  /\ at \in [Subs -> {"out", "joining", "on", "leaving"}]
  /\ hub \in [Subs -> Hubs \cup {0}]
  /\ wake \in [Subs -> Seq(Msgs)]
  /\ \A s \in Subs : Len(wake[s]) <= Cap
  /\ due \in [Subs -> SUBSET Events]
  /\ committed \subseteq Events /\ heard \subseteq Subs

\* publish keeps every mailbox a bounded sequence and forgets nothing.
LEMMA PublishTells ==
  ASSUME Typed, NEW g \in Hubs, NEW x \in Msgs, Publish(g, x)
  PROVE  /\ wake' \in [Subs -> Seq(Msgs)]
         /\ \A s \in Subs : Len(wake'[s]) <= Cap
         /\ \A s \in Subs : \A e \in Events : Tells(wake[s], e) => Tells(wake'[s], e)
         /\ \A s \in members[g] : x = Resync \/ Wanted(s, x) => Tells(wake'[s], x)
<1> DEFINE W(s) == IF s \in members[g] /\ (x = Resync \/ Wanted(s, x))
                   THEN Delivered(wake[s], x) ELSE wake[s]
<1>1. wake' = [s \in Subs |-> W(s)]
  BY DEF Publish
<1>2. \A s \in Subs : wake[s] \in Seq(Msgs) /\ Len(wake[s]) <= Cap
  BY DEF Typed
<1>3. \A s \in Subs : W(s) \in Seq(Msgs) /\ Len(W(s)) <= Cap
  BY <1>2, DeliveredTells
<1>4. \A s \in Subs : \A e \in Events : Tells(wake[s], e) => Tells(W(s), e)
  BY <1>2, DeliveredTells
<1>5. \A s \in Subs : s \in members[g] /\ (x = Resync \/ Wanted(s, x)) => Tells(W(s), x)
  BY <1>2, DeliveredTells
<1>6. members[g] \subseteq Subs
  BY DEF Typed
<1> HIDE DEF W
<1>7. QED
  BY <1>1, <1>3, <1>4, <1>5, <1>6

(* Every step keeps the types. *)
LEMMA TypedStep == Typed /\ [Next]_vars => Typed'
<1> SUFFICES ASSUME Typed, [Next]_vars PROVE Typed'
  OBVIOUS
<1> USE DEF hubs, backend, subscribers, history, Labels
<1>1. ASSUME NEW s \in Subs, SubscribeJoin(s) PROVE Typed'
  <2>1. listeners \in Hubs
    BY <1>1 DEF SubscribeJoin, Typed
  <2>2. <<>> \in Seq(Msgs) /\ Len(<<>>) <= Cap
    BY CapIsPositive
  <2>3. QED
    BY <1>1, <2>1, <2>2 DEF Typed, SubscribeJoin, Joins
<1>2. ASSUME NEW s \in Subs, NEW g \in Hubs, SubscribeNew(s, g) PROVE Typed'
  <2>1. <<>> \in Seq(Msgs) /\ Len(<<>>) <= Cap
    BY CapIsPositive
  <2>2. QED
    BY <1>2, <2>1 DEF Typed, SubscribeNew, Joins
<1>3. ASSUME NEW s \in Subs, SubscribeReturns(s) PROVE Typed'
  BY <1>3 DEF Typed, SubscribeReturns
<1>4. ASSUME NEW s \in Subs, Close(s) PROVE Typed'
  <2>1. <<>> \in Seq(Msgs) /\ Len(<<>>) <= Cap
    BY CapIsPositive
  <2>2. QED
    BY <1>4, <2>1 DEF Typed, Close
<1>5. ASSUME NEW s \in Subs, CloseReturns(s) PROVE Typed'
  BY <1>5 DEF Typed, CloseReturns
<1>6. ASSUME NEW s \in Subs, Wake(s) PROVE Typed'
  <2>1. wake[s] \in Seq(Msgs) /\ wake[s] # <<>> /\ Len(wake[s]) <= Cap
    BY <1>6 DEF Typed, Wake
  <2>2. Tail(wake[s]) \in Seq(Msgs) /\ Len(Tail(wake[s])) <= Cap
    BY <2>1, TailKeeps, CapIsPositive
  <2>3. QED
    BY <1>6, <2>2 DEF Typed, Wake
<1>7. ASSUME NEW g \in Hubs, DialOk(g) PROVE Typed'
  BY <1>7 DEF Typed, DialOk
<1>8. ASSUME NEW g \in Hubs, DialFails(g) PROVE Typed'
  BY <1>8 DEF Typed, DialFails
<1>9. ASSUME NEW g \in Hubs, Rescan(g) PROVE Typed'
  <2>1. wake' \in [Subs -> Seq(Msgs)] /\ \A s \in Subs : Len(wake'[s]) <= Cap
    BY <1>9, PublishTells DEF Rescan, Msgs
  <2>2. QED
    BY <1>9, <2>1 DEF Typed, Rescan
<1>10. ASSUME NEW g \in Hubs, NEW e \in Events, Receive(g, e) PROVE Typed'
  <2>1. wake' \in [Subs -> Seq(Msgs)] /\ \A s \in Subs : Len(wake'[s]) <= Cap
    BY <1>10, PublishTells DEF Receive, Msgs
  <2>2. QED
    BY <1>10, <2>1 DEF Typed, Receive
<1>11. ASSUME NEW g \in Hubs, WaitEnds(g) PROVE Typed'
  BY <1>11 DEF Typed, WaitEnds
<1>12. ASSUME NEW g \in Hubs, Lost(g) PROVE Typed'
  <2>1. CASE closing[g]
    BY <1>12, <2>1 DEF Typed, Lost
  <2>2. CASE ~closing[g]
    <3>1. wake' \in [Subs -> Seq(Msgs)] /\ \A s \in Subs : Len(wake'[s]) <= Cap
      BY <1>12, <2>2, PublishTells DEF Lost, Msgs
    <3>2. QED
      BY <1>12, <2>2, <3>1 DEF Typed, Lost
  <2>3. QED
    BY <2>1, <2>2
<1>13. ASSUME NEW g \in Hubs, Sleep(g) PROVE Typed'
  BY <1>13 DEF Typed, Sleep
<1>14. ASSUME NEW g \in Hubs, Exit(g) PROVE Typed'
  BY <1>14 DEF Typed, Exit
<1>15. ASSUME NEW g \in Hubs, SessionEnds(g) PROVE Typed'
  BY <1>15 DEF Typed, SessionEnds
<1>16. ASSUME ShutdownBegins PROVE Typed'
  BY <1>16 DEF Typed, ShutdownBegins
<1>17. ASSUME ShutdownReturns PROVE Typed'
  BY <1>17 DEF Typed, ShutdownReturns
<1>18. ASSUME NEW e \in Events, Commit(e) PROVE Typed'
  BY <1>18 DEF Typed, Commit
<1>19. CASE UNCHANGED vars
  BY <1>19 DEF Typed, vars
<1>20. QED
  BY <1>1, <1>2, <1>3, <1>4, <1>5, <1>6, <1>7, <1>8, <1>9, <1>10, <1>11, <1>12, <1>13,
     <1>14, <1>15, <1>16, <1>17, <1>18, <1>19 DEF Next, RunStep

\* Every variable of the hub keeps its type, mailboxes their capacity: a slow
\* consumer never makes publish grow a queue (listeners.go:221).
THEOREM HubTypeOK == Spec => []TypeOK
<1>1. Init => Typed
  <2>1. <<>> \in Seq(Msgs) /\ Len(<<>>) <= Cap
    BY CapIsPositive
  <2>2. QED
    BY <2>1 DEF Init, Typed, Labels
<1>2. Typed => TypeOK
  <2> SUFFICES ASSUME Typed PROVE TypeOK
    OBVIOUS
  <2>1. \A s \in Subs : InBox(s) \subseteq Events \cup {Resync} /\ Len(wake[s]) <= Cap
    <3> SUFFICES ASSUME NEW s \in Subs, NEW y \in InBox(s) PROVE y \in Msgs
      BY DEF Typed, Msgs
    <3>1. wake[s] \in Seq(Msgs)
      BY DEF Typed
    <3>2. PICK i \in 1..Len(wake[s]) : y = wake[s][i]
      BY DEF InBox
    <3>3. QED
      BY <3>1, <3>2
  <2>2. QED
    BY <2>1 DEF Typed, TypeOK, Labels
<1>3. QED
  BY <1>1, <1>2, TypedStep, PTL DEF Spec

-----------------------------------------------------------------------------
(* One hub at a time: the map's entry is the one hub whose goroutine runs,  *)
(* and a backend is open only between its LISTEN and its wait's end.        *)

Lifecycle ==
  /\ \A g \in Hubs : pc[g] \notin {"none", "done"} <=> listeners = g
  /\ \A g \in Hubs : g \in session <=> pc[g] \in {"rescan", "wait"}
  /\ \A g \in Hubs : pc[g] \in {"exit", "done"} => closing[g]
  /\ shutdown = "drained" => \A g \in Hubs : pc[g] \in {"none", "done"}

(* A subscription belongs to a hub that exists, and one that has returned   *)
(* to a hub whose first connect succeeded.                                  *)

Membership ==
  \A s \in Subs : at[s] \in {"joining", "on"} =>
    hub[s] \in Hubs /\ s \in members[hub[s]] /\ pc[hub[s]] # "none"

Returned ==
  \A s \in Subs : at[s] = "on" =>
    ready[hub[s]] = "ok" /\ \A e \in due[s] : Wanted(s, e)

HubInv == Typed /\ Lifecycle /\ Membership /\ Returned

(* Every step keeps the order of the hub's life. *)
LEMMA LifecycleStep == Typed /\ Lifecycle /\ [Next]_vars => Lifecycle'
<1> SUFFICES ASSUME Typed, Lifecycle, [Next]_vars PROVE Lifecycle'
  OBVIOUS
<1> USE DEF hubs, backend, subscribers, history, Labels
<1>0. \A g \in Hubs : g # 0
  BY BoundsAreNat DEF Hubs
<1>1. ASSUME NEW s \in Subs, NEW g \in Hubs, SubscribeNew(s, g) PROVE Lifecycle'
  BY <1>0, <1>1 DEF Typed, Lifecycle, SubscribeNew, Joins
<1>2. ASSUME NEW s \in Subs,
             SubscribeJoin(s) \/ SubscribeReturns(s) \/ CloseReturns(s) \/ Wake(s)
      PROVE  Lifecycle'
  BY <1>2 DEF Lifecycle, SubscribeJoin, Joins, SubscribeReturns, CloseReturns, Wake
<1>3. ASSUME NEW s \in Subs, Close(s) PROVE Lifecycle'
  BY <1>3 DEF Typed, Lifecycle, Close
<1>4. ASSUME NEW g \in Hubs, DialOk(g) PROVE Lifecycle'
  BY <1>4 DEF Typed, Lifecycle, DialOk
<1>5. ASSUME NEW g \in Hubs, DialFails(g) PROVE Lifecycle'
  BY <1>5 DEF Typed, Lifecycle, DialFails
<1>6. ASSUME NEW g \in Hubs, Rescan(g) PROVE Lifecycle'
  BY <1>6 DEF Typed, Lifecycle, Rescan
<1>7. ASSUME NEW g \in Hubs, NEW e \in Events, Receive(g, e) PROVE Lifecycle'
  BY <1>7 DEF Lifecycle, Receive
<1>8. ASSUME NEW g \in Hubs, WaitEnds(g) PROVE Lifecycle'
  BY <1>8 DEF Typed, Lifecycle, WaitEnds
<1>9. ASSUME NEW g \in Hubs, Lost(g) PROVE Lifecycle'
  <2>1. CASE closing[g]
    BY <1>9, <2>1, ZenonT(40) DEF Typed, Lifecycle, Lost
  <2>2. CASE ~closing[g]
    BY <1>9, <2>2 DEF Typed, Lifecycle, Lost
  <2>3. QED
    BY <2>1, <2>2
<1>10. ASSUME NEW g \in Hubs, Sleep(g) PROVE Lifecycle'
  BY <1>10 DEF Typed, Lifecycle, Sleep
<1>11. ASSUME NEW g \in Hubs, Exit(g) PROVE Lifecycle'
  BY <1>0, <1>11, ZenonT(40) DEF Typed, Lifecycle, Exit
<1>12. ASSUME NEW g \in Hubs, SessionEnds(g) PROVE Lifecycle'
  BY <1>12 DEF Lifecycle, SessionEnds
<1>13. ASSUME ShutdownBegins PROVE Lifecycle'
  BY <1>13 DEF Typed, Lifecycle, ShutdownBegins
<1>14. ASSUME ShutdownReturns PROVE Lifecycle'
  BY <1>14 DEF Lifecycle, ShutdownReturns
<1>15. ASSUME NEW e \in Events, Commit(e) PROVE Lifecycle'
  BY <1>15 DEF Lifecycle, Commit
<1>16. CASE UNCHANGED vars
  BY <1>16 DEF Lifecycle, vars
<1>17. QED
  BY <1>1, <1>2, <1>3, <1>4, <1>5, <1>6, <1>7, <1>8, <1>9, <1>10, <1>11, <1>12, <1>13,
     <1>14, <1>15, <1>16 DEF Next, RunStep

(* Every step keeps who is a member. *)
LEMMA MembershipStep == Typed /\ Lifecycle /\ Membership /\ [Next]_vars => Membership'
<1> SUFFICES ASSUME Typed, Lifecycle, Membership, [Next]_vars PROVE Membership'
  OBVIOUS
<1> USE DEF hubs, backend, subscribers, history, Labels
<1>1. ASSUME NEW s \in Subs, NEW g \in Hubs, SubscribeNew(s, g) PROVE Membership'
  BY <1>1 DEF Typed, Membership, SubscribeNew, Joins
<1>2. ASSUME NEW s \in Subs, SubscribeJoin(s) PROVE Membership'
  <2>1. listeners \in Hubs /\ pc[listeners] # "none"
    BY <1>2 DEF Typed, Lifecycle, SubscribeJoin
  <2>2. QED
    BY <1>2, <2>1 DEF Typed, Membership, SubscribeJoin, Joins
<1>3. ASSUME NEW s \in Subs, SubscribeReturns(s) \/ CloseReturns(s) \/ Wake(s)
      PROVE  Membership'
  BY <1>3 DEF Typed, Membership, SubscribeReturns, CloseReturns, Wake
<1>4. ASSUME NEW s \in Subs, Close(s) PROVE Membership'
  BY <1>4 DEF Typed, Membership, Close
<1>5. ASSUME NEW g \in Hubs, \/ DialOk(g) \/ DialFails(g) \/ Rescan(g) \/ WaitEnds(g)
                             \/ Sleep(g) \/ Exit(g) \/ SessionEnds(g)
      PROVE  Membership'
  BY <1>5 DEF Typed, Membership, DialOk, DialFails, Rescan, WaitEnds, Sleep, Exit,
     SessionEnds
<1>6. ASSUME NEW g \in Hubs, Lost(g) PROVE Membership'
  BY <1>6 DEF Typed, Membership, Lost
<1>7. ASSUME NEW g \in Hubs, NEW e \in Events, Receive(g, e) PROVE Membership'
  BY <1>7 DEF Membership, Receive
<1>8. ASSUME ShutdownBegins \/ ShutdownReturns \/ \E e \in Events : Commit(e)
      PROVE  Membership'
  BY <1>8 DEF Membership, ShutdownBegins, ShutdownReturns, Commit
<1>9. CASE UNCHANGED vars
  BY <1>9 DEF Membership, vars
<1>10. QED
  BY <1>1, <1>2, <1>3, <1>4, <1>5, <1>6, <1>7, <1>8, <1>9 DEF Next, RunStep

(* Every step keeps what Listen has returned. *)
LEMMA ReturnedStep == HubInv /\ [Next]_vars => Returned'
<1> SUFFICES ASSUME Typed, Membership, Returned, [Next]_vars PROVE Returned'
  BY DEF HubInv
<1> USE DEF hubs, backend, subscribers, history
<1>1. ASSUME NEW s \in Subs, NEW g \in Hubs, SubscribeNew(s, g) PROVE Returned'
  BY <1>1 DEF Typed, Returned, SubscribeNew, Joins
<1>2. ASSUME NEW s \in Subs, SubscribeJoin(s) PROVE Returned'
  BY <1>2 DEF Typed, Returned, SubscribeJoin, Joins
<1>3. ASSUME NEW s \in Subs, SubscribeReturns(s) PROVE Returned'
  BY <1>3 DEF Typed, Returned, SubscribeReturns
<1>4. ASSUME NEW s \in Subs, Close(s) PROVE Returned'
  BY <1>4 DEF Typed, Returned, Close
<1>5. ASSUME NEW s \in Subs, CloseReturns(s) PROVE Returned'
  BY <1>5 DEF Typed, Returned, CloseReturns
<1>6. ASSUME NEW s \in Subs, Wake(s) PROVE Returned'
  BY <1>6 DEF Typed, Returned, Wake
<1>7. ASSUME NEW g \in Hubs, DialOk(g) \/ DialFails(g) PROVE Returned'
  BY <1>7 DEF Typed, Membership, Returned, DialOk, DialFails
<1>8. ASSUME NEW g \in Hubs, \/ Rescan(g) \/ WaitEnds(g) \/ Lost(g) \/ Sleep(g) \/ Exit(g)
                             \/ SessionEnds(g)
      PROVE  Returned'
  BY <1>8 DEF Returned, Rescan, WaitEnds, Lost, Sleep, Exit, SessionEnds
<1>9. ASSUME NEW g \in Hubs, NEW e \in Events, Receive(g, e) PROVE Returned'
  BY <1>9 DEF Returned, Receive
<1>10. ASSUME ShutdownBegins \/ ShutdownReturns PROVE Returned'
  BY <1>10 DEF Returned, ShutdownBegins, ShutdownReturns
<1>11. ASSUME NEW e \in Events, Commit(e) PROVE Returned'
  BY <1>11 DEF Typed, Returned, Commit
<1>12. CASE UNCHANGED vars
  BY <1>12 DEF Returned, vars
<1>13. QED
  BY <1>1, <1>2, <1>3, <1>4, <1>5, <1>6, <1>7, <1>8, <1>9, <1>10, <1>11, <1>12
     DEF Next, RunStep

(* The conjunction is an invariant. *)
LEMMA HubInvariant == Spec => []HubInv
<1>1. Init => HubInv
  <2>1. <<>> \in Seq(Msgs) /\ Len(<<>>) <= Cap
    BY CapIsPositive
  <2>2. Init => Typed
    BY <2>1 DEF Init, Typed, Labels
  <2>3. Init => Lifecycle
    BY BoundsAreNat DEF Init, Lifecycle, Hubs
  <2>4. Init => Membership /\ Returned
    BY DEF Init, Membership, Returned
  <2>5. QED
    BY <2>2, <2>3, <2>4 DEF HubInv
<1>2. HubInv /\ [Next]_vars => HubInv'
  BY TypedStep, LifecycleStep, MembershipStep, ReturnedStep DEF HubInv
<1>3. QED
  BY <1>1, <1>2, PTL DEF Spec

\* A replacement hub never has a backend beside its predecessor's, for any
\* number of generations: the entry is deleted only after the session closed.
THEOREM HubOneBackend == Spec => []OneBackend
<1>1. HubInv => OneBackend
  <2> SUFFICES ASSUME Typed, Lifecycle PROVE Cardinality(session) <= 1
    BY DEF HubInv, OneBackend
  <2>1. session \subseteq {listeners}
    BY DEF Typed, Lifecycle, Labels
  <2>2. IsFiniteSet({listeners}) /\ Cardinality({listeners}) = 1
    BY FS_Singleton
  <2>3. IsFiniteSet(session) /\ Cardinality(session) <= Cardinality({listeners})
    BY <2>1, <2>2, FS_Subset
  <2>4. QED
    BY <2>2, <2>3
<1>2. QED
  BY <1>1, HubInvariant, PTL

\* Once CloseNotificationConnections has returned there is no backend and no
\* hub, whoever subscribed while it drained.
THEOREM HubShutdownIsFinal == Spec => []ShutdownIsFinal
<1>1. HubInv => ShutdownIsFinal
  <2> SUFFICES ASSUME Typed, Lifecycle, shutdown = "drained"
               PROVE  session = {} /\ listeners = 0
    BY DEF HubInv, ShutdownIsFinal
  <2>1. \A g \in Hubs : pc[g] \in {"none", "done"}
    BY DEF Lifecycle
  <2>2. \A g \in Hubs : g \notin session /\ listeners # g
    BY <2>1 DEF Lifecycle
  <2>3. QED
    BY <2>2 DEF Typed
<1>2. QED
  BY <1>1, HubInvariant, PTL

-----------------------------------------------------------------------------
(* No lost wake-up.                                                         *)

Covered(s, e) == Tells(wake[s], e) \/ e \in inflight[hub[s]] \/ WillResync(hub[s])
                 \/ closing[hub[s]]

NothingLost == \A s \in Subs : at[s] = "on" => \A e \in due[s] : Covered(s, e)

\* A step of subscriber s: the other subscribers keep what covers them.
LEMMA NothingLostSubscriber ==
  ASSUME HubInv, NothingLost, NEW s \in Subs,
         \/ SubscribeJoin(s) \/ SubscribeReturns(s) \/ Close(s) \/ CloseReturns(s)
         \/ Wake(s) \/ \E g \in Hubs : SubscribeNew(s, g)
  PROVE  NothingLost'
<1> USE DEF hubs, backend, subscribers, history
<1> SUFFICES ASSUME NEW r \in Subs, at'[r] = "on", NEW e \in due'[r] PROVE Covered(r, e)'
  BY DEF NothingLost
<1>0. Typed /\ Membership
  BY DEF HubInv
<1>1. ASSUME SubscribeJoin(s) PROVE Covered(r, e)'
  BY <1>0, <1>1 DEF Typed, NothingLost, Covered, WillResync, SubscribeJoin, Joins
<1>2. ASSUME NEW g \in Hubs, SubscribeNew(s, g) PROVE Covered(r, e)'
  <2>1. r # s /\ at[r] = "on" /\ e \in due[r] /\ hub'[r] = hub[r] /\ wake'[r] = wake[r]
    BY <1>0, <1>2 DEF Typed, SubscribeNew, Joins
  <2>2. hub[r] # g
    BY <1>0, <1>2, <2>1 DEF Membership, SubscribeNew
  <2>3. QED
    BY <1>0, <1>2, <2>1, <2>2
       DEF Typed, Membership, NothingLost, Covered, WillResync, SubscribeNew
<1>3. ASSUME SubscribeReturns(s) PROVE Covered(r, e)'
  BY <1>0, <1>3 DEF Typed, NothingLost, Covered, WillResync, SubscribeReturns
<1>4. ASSUME Close(s) PROVE Covered(r, e)'
  <2>1. r # s /\ at[r] = "on" /\ e \in due[r] /\ wake'[r] = wake[r]
    BY <1>0, <1>4 DEF Typed, Close
  <2>2. hub[r] \in Hubs /\ (closing[hub[r]] => closing'[hub[r]])
    BY <1>0, <1>4, <2>1 DEF Typed, Membership, Close
  <2>3. QED
    BY <1>4, <2>1, <2>2 DEF NothingLost, Covered, WillResync, Close
<1>5. ASSUME CloseReturns(s) PROVE Covered(r, e)'
  BY <1>0, <1>5 DEF Typed, NothingLost, Covered, WillResync, CloseReturns
<1>6. ASSUME Wake(s) PROVE Covered(r, e)'
  <2>1. CASE r # s
    BY <1>0, <1>6, <2>1 DEF Typed, NothingLost, Covered, WillResync, Wake
  <2>2. CASE r = s
    <3>1. /\ e \in due[s] /\ e # Head(wake[s]) /\ Resync # Head(wake[s])
          /\ wake'[s] = Tail(wake[s])
      BY <1>0, <1>6, <2>2 DEF Typed, Wake
    <3>2. wake[s] \in Seq(Msgs) /\ wake[s] # <<>>
      BY <1>0, <1>6 DEF Typed, Wake
    <3>3. Tells(wake[s], e) => Tells(Tail(wake[s]), e)
      BY <3>1, <3>2, TailKeeps DEF Tells
    <3>4. QED
      BY <1>6, <2>2, <3>1, <3>3 DEF NothingLost, Covered, WillResync, Wake
  <2>3. QED
    BY <2>1, <2>2
<1>7. QED
  BY <1>1, <1>2, <1>3, <1>4, <1>5, <1>6

\* A step of the run goroutine of hub g, or the end of its session.
LEMMA NothingLostHub ==
  ASSUME HubInv, NothingLost, NEW g \in Hubs, RunStep(g) \/ SessionEnds(g)
  PROVE  NothingLost'
<1> USE DEF hubs, backend, subscribers, history
<1> SUFFICES ASSUME NEW s \in Subs, at'[s] = "on", NEW e \in due'[s] PROVE Covered(s, e)'
  BY DEF NothingLost
<1>0. Typed /\ Lifecycle /\ Membership /\ Returned
  BY DEF HubInv
<1>1. at' = at /\ due' = due /\ hub' = hub /\ closing' = closing /\ members' = members
  BY DEF RunStep, DialOk, DialFails, Rescan, WaitEnds, Lost, Sleep, Exit, Receive,
     SessionEnds
<1>2. /\ hub[s] \in Hubs /\ s \in members[hub[s]] /\ ready[hub[s]] = "ok"
      /\ e \in Events /\ Wanted(s, e) /\ Covered(s, e)
  BY <1>0, <1>1 DEF Typed, Membership, Returned, NothingLost
<1>3. ASSUME DialOk(g) PROVE Covered(s, e)'
  <2>1. hub[s] = g => pc'[g] = "rescan"
    BY <1>0, <1>2, <1>3 DEF Typed, DialOk
  <2>2. QED
    BY <1>0, <1>1, <1>2, <1>3, <2>1 DEF Typed, Covered, WillResync, DialOk
<1>4. ASSUME DialFails(g) PROVE Covered(s, e)'
  BY <1>0, <1>1, <1>2, <1>4 DEF Typed, Covered, WillResync, DialFails
<1>5. ASSUME Rescan(g) PROVE Covered(s, e)'
  <2>1. /\ Tells(wake[s], e) => Tells(wake'[s], e)
        /\ s \in members[g] => Tells(wake'[s], Resync)
    BY <1>0, <1>2, <1>5, PublishTells DEF Rescan, Msgs
  <2>2. Tells(wake'[s], Resync) => Tells(wake'[s], e)
    BY DEF Tells
  <2>3. QED
    BY <1>0, <1>1, <1>2, <1>5, <2>1, <2>2 DEF Typed, Covered, WillResync, Rescan
<1>6. ASSUME NEW x \in Events, Receive(g, x) PROVE Covered(s, e)'
  <2>1. /\ Tells(wake[s], e) => Tells(wake'[s], e)
        /\ s \in members[g] /\ Wanted(s, x) => Tells(wake'[s], x)
    BY <1>0, <1>2, <1>6, PublishTells DEF Receive, Msgs
  <2>2. e \in inflight[hub[s]] => e \in inflight'[hub[s]] \/ Tells(wake'[s], e)
    BY <1>0, <1>2, <1>6, <2>1 DEF Typed, Receive
  <2>3. QED
    BY <1>1, <1>2, <1>6, <2>1, <2>2 DEF Covered, WillResync, Receive
<1>7. ASSUME WaitEnds(g) PROVE Covered(s, e)'
  BY <1>0, <1>1, <1>2, <1>7 DEF Typed, Covered, WillResync, WaitEnds
<1>8. ASSUME Lost(g) PROVE Covered(s, e)'
  <2>1. CASE closing[g]
    BY <1>0, <1>1, <1>2, <1>8, <2>1 DEF Typed, Covered, WillResync, Lost
  <2>2. CASE ~closing[g]
    <3>1. Tells(wake[s], e) => Tells(wake'[s], e)
      BY <1>0, <1>2, <1>8, <2>2, PublishTells DEF Lost, Msgs
    <3>2. QED
      BY <1>0, <1>1, <1>2, <1>8, <2>2, <3>1 DEF Typed, Covered, WillResync, Lost
  <2>3. QED
    BY <2>1, <2>2
<1>9. ASSUME Sleep(g) PROVE Covered(s, e)'
  BY <1>0, <1>1, <1>2, <1>9 DEF Typed, Covered, WillResync, Sleep
<1>10. ASSUME Exit(g) PROVE Covered(s, e)'
  BY <1>0, <1>1, <1>2, <1>10 DEF Typed, Lifecycle, Covered, WillResync, Exit
<1>11. ASSUME SessionEnds(g) PROVE Covered(s, e)'
  BY <1>1, <1>2, <1>11 DEF Covered, WillResync, SessionEnds
<1>12. QED
  BY <1>3, <1>4, <1>5, <1>6, <1>7, <1>8, <1>9, <1>10, <1>11 DEF RunStep

\* A commit reaches the mailbox's way whatever the hub is doing: it is queued
\* on a listening session, or a resync, or the subscription's end, follows.
LEMMA NothingLostCommit ==
  ASSUME HubInv, NothingLost, NEW x \in Events, Commit(x)
  PROVE  NothingLost'
<1> USE DEF hubs, backend, subscribers, history
<1> SUFFICES ASSUME NEW s \in Subs, at[s] = "on", NEW e \in due'[s] PROVE Covered(s, e)'
  BY DEF NothingLost, Commit
<1>0. Typed /\ Lifecycle /\ Membership
  BY DEF HubInv
<1>1. hub[s] \in Hubs /\ pc[hub[s]] # "none"
  BY <1>0 DEF Membership
<1>2. CASE e \in due[s]
  BY <1>0, <1>1, <1>2 DEF Typed, NothingLost, Covered, WillResync, Commit
<1>3. CASE e = x
  <2>1. CASE pc[hub[s]] = "wait" /\ hub[s] \notin broken
    BY <1>0, <1>1, <1>3, <2>1 DEF Lifecycle, Covered, Commit
  <2>2. CASE WillResync(hub[s])
    BY <2>2 DEF Covered, WillResync, Commit
  <2>3. CASE pc[hub[s]] \in {"exit", "done"}
    BY <1>0, <1>1, <2>3 DEF Lifecycle, Covered, Commit
  <2>4. QED
    BY <1>0, <1>1, <2>1, <2>2, <2>3 DEF Typed, Labels, WillResync
<1>4. QED
  BY <1>0, <1>2, <1>3 DEF Typed, Commit

\* No interleaving of commits, full mailboxes, lost sessions, reconnects,
\* closes and shutdown makes an active subscriber miss an event without a
\* resync, for any capacity and any number of subscribers and hubs.
THEOREM HubEventsCovered == Spec => []EventsCovered
<1>1. Init => NothingLost
  BY DEF Init, NothingLost
<1>2. HubInv /\ NothingLost /\ [Next]_vars => NothingLost'
  <2> SUFFICES ASSUME HubInv, NothingLost, [Next]_vars PROVE NothingLost'
    OBVIOUS
  <2>1. ASSUME ShutdownBegins PROVE NothingLost'
    <3>1. \A s \in Subs : at[s] = "on" =>
            hub[s] \in Hubs /\ (closing[hub[s]] => closing'[hub[s]])
      BY <2>1 DEF HubInv, Typed, Membership, ShutdownBegins
    <3>2. QED
      BY <2>1, <3>1 DEF NothingLost, Covered, WillResync, ShutdownBegins, backend,
         subscribers
  <2>2. ASSUME ShutdownReturns PROVE NothingLost'
    BY <2>2 DEF NothingLost, Covered, WillResync, ShutdownReturns, hubs, backend,
       subscribers
  <2>3. CASE UNCHANGED vars
    BY <2>3 DEF NothingLost, Covered, WillResync, vars, hubs, backend, subscribers
  <2>4. QED
    BY <2>1, <2>2, <2>3, NothingLostSubscriber, NothingLostHub, NothingLostCommit DEF Next
<1>3. NothingLost => EventsCovered
  BY DEF NothingLost, Covered, Tells, Elems, EventsCovered, InBox
<1>4. QED
  BY <1>1, <1>2, <1>3, HubInvariant, PTL DEF Spec
=============================================================================
