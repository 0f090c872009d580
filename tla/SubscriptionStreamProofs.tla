---------------------- MODULE SubscriptionStreamProofs ----------------------
(***************************************************************************)
(* The subscription stream for any writers, clients, log and page size: a  *)
(* client that resumes with its last frame's id misses no readable event   *)
(* and receives each once, in order, no wake-up is lost, and the stream    *)
(* implements the abstract log reader.                                     *)
(***************************************************************************)
EXTENDS SubscriptionStream, FiniteSetTheorems, TLAPS

-----------------------------------------------------------------------------
(* Lemmas about sets of positions.                                          *)

(* A set of positions has a least one. *)
LEMMA Least ==
  ASSUME NEW S, S \subseteq Nat, S # {}
  PROVE  Min(S) \in S /\ \A x \in S : Min(S) <= x
<1>1. PICK R : R = {p \in Nat \X Nat : p[1] < p[2]} /\ IsWellFoundedOn(R, Nat)
  BY NatLessThanWellFounded, Zenon DEF OpToRel
<1>2. PICK x \in S : \A y \in S : ~(<<y, x>> \in R)
  BY <1>1, WFMin
<1>3. ASSUME NEW y \in S
      PROVE  x <= y
  <2>1. x \in Nat /\ y \in Nat
    OBVIOUS
  <2>2. <<y, x>> \in R <=> y < x
    BY <1>1, <2>1
  <2> QED BY <1>2, <2>1, <2>2
<1> QED BY <1>3 DEF Min

(* A bounded set of positions has a greatest one. *)
LEMMA Greatest ==
  ASSUME NEW S, S \subseteq Nat, S # {}, NEW b \in Nat, \A x \in S : x <= b
  PROVE  Max(S) \in S /\ \A x \in S : x <= Max(S)
<1>1. PICK D : D = {b - x : x \in S}
  OBVIOUS
<1>2. D \in SUBSET Nat /\ D # {}
  <2>1. \A x \in S : b - x \in Nat
    OBVIOUS
  <2> QED BY <1>1, <2>1
<1>3. PICK d \in D : \A y \in D : d <= y
  BY <1>2, Least
<1>4. PICK x \in S : d = b - x
  BY <1>1
<1>5. \A y \in S : x >= y
  BY <1>1, <1>3, <1>4
<1> QED BY <1>5 DEF Max

(* ORDER BY id LIMIT n takes a prefix. *)
LEMMA FirstPrefix ==
  ASSUME NEW S, S \subseteq Nat, IsFiniteSet(S), NEW n \in Nat,
         NEW e \in FirstN(S, n), NEW x \in S, x <= e
  PROVE  x \in FirstN(S, n)
<1>1. {y \in S : y < x} \subseteq {y \in S : y < e}
  <2>1. e \in Nat /\ x \in Nat /\ \A y \in S : y \in Nat
    BY DEF FirstN
  <2>2. \A y \in S : y < x => y < e
    BY <2>1
  <2> QED BY <2>2
<1>2. PICK A, B \in SUBSET S : B \in SUBSET A /\ A = {y \in S : y < e} /\ B = {y \in S : y < x}
  BY <1>1
<1>3. IsFiniteSet(A) /\ IsFiniteSet(B) /\ Cardinality(B) <= Cardinality(A)
  BY <1>2, FS_Subset
<1>4. Cardinality(A) \in Nat /\ Cardinality(B) \in Nat
  BY <1>3, FS_CardinalityType
<1> QED BY <1>2, <1>3, <1>4 DEF FirstN

(* A limit that was not reached cut nothing off. *)
LEMMA FirstAll ==
  ASSUME NEW S, S \subseteq Nat, IsFiniteSet(S), NEW n \in Nat,
         Cardinality(FirstN(S, n)) < n
  PROVE  FirstN(S, n) = S
<1> SUFFICES ASSUME S \ FirstN(S, n) # {}
             PROVE  FALSE
  BY DEF FirstN
<1>1. PICK e \in S \ FirstN(S, n) : \A x \in S \ FirstN(S, n) : e <= x
  BY Least
<1>2. {x \in S : x < e} \subseteq FirstN(S, n) /\ FirstN(S, n) \subseteq S
  <2>1. e \in Nat /\ \A x \in S : x \in Nat
    BY <1>1
  <2>2. \A x \in S : x < e => x \in FirstN(S, n)
    BY <1>1, <2>1
  <2>3. FirstN(S, n) \subseteq S
    BY DEF FirstN
  <2> QED BY <2>2, <2>3
<1>3. PICK F, B \in SUBSET S : B \in SUBSET F /\ F = FirstN(S, n) /\ B = {x \in S : x < e}
  BY <1>2
<1>4. IsFiniteSet(F) /\ IsFiniteSet(B) /\ Cardinality(B) <= Cardinality(F)
  BY <1>3, FS_Subset
<1>5. Cardinality(F) \in Nat /\ Cardinality(B) \in Nat
  BY <1>4, FS_CardinalityType
<1>6. ~(Cardinality(B) < n)
  BY <1>1, <1>3 DEF FirstN
<1> QED BY <1>3, <1>4, <1>5, <1>6

(* The first row is never cut off. *)
LEMMA FirstSome ==
  ASSUME NEW S, S \subseteq Nat, S # {}, NEW n \in Nat \ {0}
  PROVE  FirstN(S, n) # {}
<1>1. PICK m \in S : \A x \in S : m <= x
  BY Least
<1>2. {x \in S : x < m} = {}
  <2>1. \A x \in S : x \in Nat /\ ~(x < m)
    BY <1>1
  <2> QED BY <2>1
<1>3. Cardinality({x \in S : x < m}) < n
  BY <1>2, FS_EmptySet
<1> QED BY <1>3 DEF FirstN

(* A page of rows holds every row up to its end. *)
LEMMA PageWhole ==
  ASSUME NEW S, S \subseteq Nat, NEW b \in Nat, \A x \in S : x <= b, NEW whole
  PROVE  /\ FirstN(S, Batch) \subseteq S
         /\ \/ PageEnd(S, whole) = whole /\ FirstN(S, Batch) = S /\ Cardinality(S) <= Batch
            \/ /\ PageEnd(S, whole) \in S
               /\ \A x \in S : x <= PageEnd(S, whole) <=> x \in FirstN(S, Batch)
<1>0. IsFiniteSet(S) /\ Cardinality(S) \in Nat /\ Batch \in Nat \ {0}
  BY FS_BoundedSetOfNaturals, FS_CardinalityType, BatchPositive
<1>1. FirstN(S, Batch) \subseteq S
  BY DEF FirstN
<1>2. CASE Cardinality(S) <= Batch
  <2>1. ASSUME NEW e \in S
        PROVE  e \in FirstN(S, Batch)
    <3>1. {x \in S : x < e} \in SUBSET S /\ {x \in S : x < e} # S
      OBVIOUS
    <3>2. Cardinality({x \in S : x < e}) < Cardinality(S)
      BY <1>0, <3>1, FS_Subset, FS_CardinalityType
    <3>3. Cardinality({x \in S : x < e}) \in Nat
      BY <1>0, <3>1, FS_Subset, FS_CardinalityType
    <3> QED BY <1>0, <1>2, <3>2, <3>3 DEF FirstN
  <2> QED BY <1>0, <1>1, <1>2, <2>1 DEF PageEnd
<1>3. CASE Cardinality(S) > Batch
  <2>1. S # {}
    BY <1>0, <1>3, FS_EmptySet
  <2>2. PICK m \in FirstN(S, Batch) : m = Max(FirstN(S, Batch)) /\ \A x \in FirstN(S, Batch) : x <= m
    BY <1>0, <1>1, <2>1, FirstSome, Greatest
  <2>3. PageEnd(S, whole) = m
    BY <1>3, <2>2 DEF PageEnd
  <2>4. ASSUME NEW x \in S, x <= m
        PROVE  x \in FirstN(S, Batch)
    BY <1>0, <2>4, FirstPrefix
  <2> QED BY <1>1, <2>2, <2>3, <2>4
<1> QED BY <1>0, <1>2, <1>3

(* So does a page of the rows a read fetched, one more than a page holds. *)
LEMMA PageRows ==
  ASSUME NEW S, S \subseteq Nat, NEW b \in Nat, \A x \in S : x <= b, NEW whole,
         NEW rows, rows = FirstN(S, Batch + 1)
  PROVE  /\ FirstN(rows, Batch) \subseteq S
         /\ \/ PageEnd(rows, whole) = whole /\ FirstN(rows, Batch) = S
            \/ /\ PageEnd(rows, whole) \in S
               /\ \A x \in S : x <= PageEnd(rows, whole) <=> x \in FirstN(rows, Batch)
<1>0. IsFiniteSet(S) /\ Batch \in Nat \ {0}
  BY FS_BoundedSetOfNaturals, BatchPositive
<1>1. rows \subseteq S
  BY DEF FirstN
<1>2. IsFiniteSet(rows) /\ Cardinality(rows) \in Nat
  BY <1>0, <1>1, FS_Subset, FS_CardinalityType
<1>3. /\ FirstN(rows, Batch) \subseteq rows
      /\ \/ PageEnd(rows, whole) = whole /\ FirstN(rows, Batch) = rows /\ Cardinality(rows) <= Batch
         \/ /\ PageEnd(rows, whole) \in rows
            /\ \A x \in rows : x <= PageEnd(rows, whole) <=> x \in FirstN(rows, Batch)
  BY <1>1, PageWhole
<1>4. CASE PageEnd(rows, whole) = whole /\ FirstN(rows, Batch) = rows /\ Cardinality(rows) <= Batch
  <2>1. Cardinality(rows) < Batch + 1 /\ Batch + 1 \in Nat
    BY <1>0, <1>2, <1>4
  <2>2. rows = S
    BY <1>0, <2>1, FirstAll
  <2> QED BY <1>4, <2>2
<1>5. CASE PageEnd(rows, whole) \in rows
           /\ \A x \in rows : x <= PageEnd(rows, whole) <=> x \in FirstN(rows, Batch)
  <2>1. PICK m \in rows : m = PageEnd(rows, whole)
    BY <1>5
  <2>2. ASSUME NEW x \in S, x <= m
        PROVE  x \in rows
    <3>1. Batch + 1 \in Nat
      BY <1>0
    <3> QED BY <1>0, <2>2, <3>1, FirstPrefix
  <2> QED BY <1>1, <1>3, <1>5, <2>1, <2>2
<1> QED BY <1>3, <1>4, <1>5

-----------------------------------------------------------------------------
(* The log.                                                                 *)

(* Committed ids end at the counter, the lock holder's rows follow it, and  *)
(* nobody else has any.                                                     *)
LogOk ==
  /\ last \in Nat /\ DOMAIN pend = Writers
  /\ \A e \in DOMAIN log : e \in Nat /\ e <= last
  /\ \A w \in Writers : \E n \in Nat :
       /\ DOMAIN pend[w] = (last + 1)..(last + n)
       /\ IsFiniteSet(DOMAIN pend[w]) /\ Cardinality(DOMAIN pend[w]) = n
  /\ \A v, w \in Writers : pend[v] # NoRows /\ pend[w] # NoRows => v = w

(* The empty log has no positions. *)
LEMMA NoRowsDomain == DOMAIN NoRows = {}
  BY DEF NoRows

(* What readers have seen of the log stays as it was. *)
Kept ==
  /\ last \in Nat /\ last' \in Nat /\ last' >= last
  /\ \A e \in DOMAIN log' : e \in Nat /\ (e <= last => e \in DOMAIN log /\ log'[e] = log[e])

(* An empty interval. *)
LEMMA EmptyInterval ==
  ASSUME NEW a \in Nat
  PROVE  /\ (a + 1)..(a + 0) = {}
         /\ IsFiniteSet({}) /\ Cardinality({}) = 0
  BY FS_EmptySet

(* Ids are allocated under the counter's lock: a commit only adds rows      *)
(* after the ones readers may have seen.                                    *)
LEMMA LogStep ==
  ASSUME LogOk,
         \/ \E w \in Writers : Commit(w) \/ Rollback(w) \/ \E k \in Kinds : Append(w, k)
         \/ UNCHANGED logVars
  PROVE  LogOk' /\ Kept
<1>1. CASE UNCHANGED logVars
  BY <1>1 DEF LogOk, Kept, logVars
<1>2. ASSUME NEW w \in Writers, NEW k \in Kinds, Append(w, k)
      PROVE  LogOk' /\ Kept
  <2>1. PICK n \in Nat :
          /\ DOMAIN pend[w] = (last + 1)..(last + n)
          /\ IsFiniteSet(DOMAIN pend[w]) /\ Cardinality(DOMAIN pend[w]) = n
    BY DEF LogOk
  <2>2. PICK rows : rows = With(pend[w], last + n + 1, k)
    OBVIOUS
  <2>3. /\ pend' = [pend EXCEPT ![w] = rows] /\ log' = log /\ last' = last /\ last \in Nat
        /\ DOMAIN pend = Writers /\ Locker \subseteq {w}
    BY <1>2, <2>1, <2>2 DEF Append, LogOk
  <2>4. DOMAIN rows = DOMAIN pend[w] \cup {last + n + 1}
    BY <2>2 DEF With
  <2>5. /\ DOMAIN rows = (last + 1)..(last + (n + 1))
        /\ IsFiniteSet(DOMAIN rows) /\ Cardinality(DOMAIN rows) = n + 1
    <3>1. last + n + 1 \notin DOMAIN pend[w]
      BY <2>1, <2>3
    <3>2. (last + 1)..(last + (n + 1)) = (last + 1)..(last + n) \cup {last + n + 1}
      BY <2>3
    <3>3. PICK D, x : D = DOMAIN pend[w] /\ x = last + n + 1
      OBVIOUS
    <3>4. IsFiniteSet(D \cup {x}) /\ Cardinality(D \cup {x}) = n + 1
      BY <2>1, <3>1, <3>3, FS_AddElement
    <3> QED BY <2>1, <2>4, <3>2, <3>3, <3>4
  <2>6. ASSUME NEW v \in Writers
        PROVE  /\ v # w => pend'[v] = pend[v] /\ pend[v] = NoRows
               /\ \E m \in Nat : /\ DOMAIN pend'[v] = (last + 1)..(last + m)
                                 /\ IsFiniteSet(DOMAIN pend'[v])
                                 /\ Cardinality(DOMAIN pend'[v]) = m
    <3>1. CASE v = w
      <4>1. pend'[v] = rows /\ n + 1 \in Nat
        BY <2>3, <3>1
      <4> QED BY <2>5, <3>1, <4>1
    <3>2. CASE v # w
      BY <2>3, <3>2 DEF LogOk, Locker
    <3> QED BY <3>1, <3>2
  <2>7. DOMAIN pend' = Writers
    BY <2>3
  <2> QED BY <2>3, <2>6, <2>7 DEF LogOk, Kept
<1>3. ASSUME NEW w \in Writers, Rollback(w)
      PROVE  LogOk' /\ Kept
  <2>1. /\ pend' = [pend EXCEPT ![w] = NoRows] /\ log' = log /\ last' = last /\ last \in Nat
        /\ DOMAIN pend = Writers
    BY <1>3 DEF Rollback, LogOk
  <2>2. ASSUME NEW v \in Writers
        PROVE  /\ pend'[v] \in {pend[v], NoRows}
               /\ \E m \in Nat : /\ DOMAIN pend'[v] = (last + 1)..(last + m)
                                 /\ IsFiniteSet(DOMAIN pend'[v])
                                 /\ Cardinality(DOMAIN pend'[v]) = m
    <3>1. CASE v = w
      <4>1. pend'[v] = NoRows /\ 0 \in Nat
        BY <2>1, <3>1
      <4> QED BY <2>1, <4>1, NoRowsDomain, EmptyInterval
    <3>2. CASE v # w
      BY <2>1, <3>2 DEF LogOk
    <3> QED BY <3>1, <3>2
  <2>3. DOMAIN pend' = Writers
    BY <2>1
  <2> QED BY <2>1, <2>2, <2>3 DEF LogOk, Kept
<1>4. ASSUME NEW w \in Writers, Commit(w)
      PROVE  LogOk' /\ Kept
  <2>1. PICK n \in Nat : DOMAIN pend[w] = (last + 1)..(last + n)
    BY DEF LogOk
  <2>2. /\ pend' = [pend EXCEPT ![w] = NoRows] /\ last \in Nat /\ DOMAIN pend = Writers
        /\ DOMAIN log' = DOMAIN log \cup DOMAIN pend[w]
        /\ \A e \in DOMAIN log : log'[e] = log[e]
        /\ last' = Max({last} \cup DOMAIN pend[w])
        /\ pend[w] # NoRows
    BY <1>4 DEF Commit, LogOk, Locker
  <2>3. last' = last + n
    <3>1. PICK S : S = {last} \cup (last + 1)..(last + n)
      OBVIOUS
    <3>2. last + n \in S /\ \A x \in S : x \in Int /\ x <= last + n
      BY <2>2, <3>1
    <3>3. Max(S) \in S /\ \A x \in S : Max(S) >= x
      BY <3>2 DEF Max
    <3>4. Max(S) = last + n
      BY <2>2, <3>2, <3>3
    <3> QED BY <2>1, <2>2, <3>1, <3>4
  <2>4. ASSUME NEW v \in Writers
        PROVE  pend'[v] = NoRows
    BY <2>2 DEF LogOk
  <2>5. ASSUME NEW v \in Writers
        PROVE  \E m \in Nat : /\ DOMAIN pend'[v] = (last' + 1)..(last' + m)
                              /\ IsFiniteSet(DOMAIN pend'[v])
                              /\ Cardinality(DOMAIN pend'[v]) = m
    <3>1. PICK z \in Nat : z = last'
      BY <2>2, <2>3
    <3>2. (z + 1)..(z + 0) = {} /\ 0 \in Nat
      BY EmptyInterval
    <3> QED BY <2>4, <3>1, <3>2, NoRowsDomain, EmptyInterval
  <2>6. DOMAIN pend' = Writers
    BY <2>2
  <2>7. \A e \in DOMAIN log' : e \in Nat /\ e <= last' /\ (e <= last => e \in DOMAIN log)
    BY <2>1, <2>2, <2>3 DEF LogOk
  <2>8. Kept
    BY <2>2, <2>3, <2>7 DEF Kept
  <2>9. LogOk'
    BY <2>4, <2>5, <2>6, <2>7, <2>8 DEF LogOk, Kept
  <2> QED BY <2>8, <2>9
<1> QED BY <1>1, <1>2, <1>3, <1>4

-----------------------------------------------------------------------------
(* The stream.                                                              *)

Labels == {"off", "listen", "read", "plans", "emit", "wait", "newest"}
Positions == {Latest} \cup Nat

Typed ==
  /\ pc \in [Clients -> Labels] /\ ready \in [Clients -> BOOLEAN]
  /\ after \in [Clients -> Nat] /\ newest \in [Clients -> Nat] /\ through \in [Clients -> Nat]
  /\ items \in [Clients -> SUBSET Nat] /\ got \in [Clients -> SUBSET Nat]
  /\ cursor \in [Clients -> Positions] /\ start \in [Clients -> Positions]

(* Where a connection and its client stand.  Only between the frames of a   *)
(* page is the client ahead of the handler's position.                      *)
Standing(c) ==
  /\ start[c] # Latest => cursor[c] # Latest /\ cursor[c] <= last
  /\ ready[c] => start[c] # Latest /\ pc[c] \notin {"off", "listen"}
  /\ pc[c] \in {"wait", "newest"} => ready[c]
  /\ pc[c] \notin {"off", "listen"} => after[c] <= last
  /\ pc[c] \in {"read", "plans", "wait", "newest"} \/ (pc[c] = "emit" /\ ~ready[c]) =>
       cursor[c] \in {Latest, after[c]}
  /\ pc[c] \in {"read", "plans", "emit"} => after[c] <= newest[c] /\ newest[c] <= last

(* Committed events of the kinds in K in (a, b]. *)
Window(a, b, K) == {e \in DOMAIN log : log[e] \in K /\ a < e /\ e <= b}

(* What a page holds: everything readable up to its end. *)
PageOk(c) ==
  /\ pc[c] \in {"plans", "emit"} =>
       /\ after[c] <= through[c] /\ through[c] <= newest[c]
       /\ \A e \in items[c] : after[c] < e /\ e <= through[c]
  /\ pc[c] = "plans" => Window(after[c], through[c], {"topic"}) \subseteq items[c]
  /\ pc[c] = "emit" /\ ~ready[c] => Window(after[c], through[c], Readable) \subseteq items[c]
  /\ pc[c] = "emit" /\ ready[c] =>
       /\ Window(after[c], through[c], Readable) \subseteq items[c] \cup got[c]
       /\ after[c] <= cursor[c] /\ cursor[c] <= through[c]
       /\ \A e \in items[c] : cursor[c] < e

(* The client has what lies between its start and its cursor. *)
Gapless(c) ==
  start[c] # Latest => Window(start[c], cursor[c], Readable) \subseteq got[c]

Ok(c) == Standing(c) /\ PageOk(c) /\ Gapless(c)

IInv == LogOk /\ Typed /\ \A c \in Clients : Ok(c)

(* A read of the kinds in K finds all of them up to the end of its page. *)
LEMMA ReadPage ==
  ASSUME LogOk, NEW c, after[c] \in Nat, newest[c] \in Nat,
         NEW whole \in Nat, after[c] <= whole, whole <= newest[c],
         NEW K, NEW page, page = FirstN(Rows(c, K), Batch), NEW end, end = PageEnd(Rows(c, K), whole)
  PROVE  /\ page \subseteq Window(after[c], newest[c], K)
         /\ page \subseteq Nat /\ (\A x \in page : after[c] < x)
         /\ end \in Nat /\ after[c] <= end /\ end <= newest[c]
         /\ \A x \in Window(after[c], newest[c], K) : x <= end => x \in page
         /\ whole = newest[c] => \A x \in page : x <= end
<1>1. PICK S : S = Window(after[c], newest[c], K)
  OBVIOUS
<1>2. S \subseteq Nat /\ \A x \in S : after[c] < x /\ x <= newest[c]
  BY <1>1 DEF Window, LogOk
<1>3. PICK rows : rows = Rows(c, K) /\ rows = FirstN(S, Batch + 1)
  <2>1. S = {e \in DOMAIN log : after[c] < e /\ e <= newest[c] /\ log[e] \in K}
    BY <1>1 DEF Window
  <2> QED BY <2>1 DEF Rows
<1>4. /\ page \subseteq S
      /\ (end = whole /\ page = S) \/ (end \in S /\ \A x \in S : x <= end <=> x \in page)
  BY <1>2, <1>3, PageRows
<1> QED BY <1>1, <1>2, <1>4

(* A step that leaves a client alone keeps its part, whatever is committed. *)
Same(c) ==
  /\ pc'[c] = pc[c] /\ ready'[c] = ready[c] /\ after'[c] = after[c] /\ newest'[c] = newest[c]
  /\ through'[c] = through[c] /\ items'[c] = items[c]
  /\ cursor'[c] = cursor[c] /\ start'[c] = start[c] /\ got'[c] = got[c]

(* The types of one client's state. *)
LEMMA ClientTyped ==
  ASSUME Typed, NEW c \in Clients
  PROVE  /\ pc[c] \in Labels /\ ready[c] \in BOOLEAN
         /\ after[c] \in Nat /\ newest[c] \in Nat /\ through[c] \in Nat
         /\ items[c] \subseteq Nat /\ got[c] \subseteq Nat
         /\ cursor[c] \in Positions /\ start[c] \in Positions
  BY DEF Typed

(* A client that does nothing keeps its part while the log grows. *)
LEMMA Frame ==
  ASSUME LogOk, Typed, Kept, NEW c \in Clients, Ok(c), Same(c)
  PROVE  Ok(c)'
<1>1. /\ pc[c] \in Labels /\ ready[c] \in BOOLEAN
      /\ after[c] \in Nat /\ newest[c] \in Nat /\ through[c] \in Nat
      /\ cursor[c] \in Positions /\ start[c] \in Positions
  BY ClientTyped
<1>2. ASSUME NEW a, NEW b \in Nat, b <= last, NEW K
      PROVE  {e \in DOMAIN log' : log'[e] \in K /\ a < e /\ e <= b} \subseteq Window(a, b, K)
  <2>1. ASSUME NEW e \in DOMAIN log', log'[e] \in K, a < e, e <= b
        PROVE  e \in Window(a, b, K)
    <3>1. e \in Nat /\ e <= last
      BY <1>2, <2>1 DEF Kept
    <3> QED BY <2>1, <3>1 DEF Kept, Window
  <2> QED BY <2>1
<1>3. Standing(c)'
  BY <1>1 DEF Same, Ok, Standing, Kept, Positions
<1>4. PageOk(c)'
  <2>1. pc[c] \in {"plans", "emit"} => through[c] <= last
    BY <1>1 DEF Ok, Standing, PageOk, Kept
  <2>2. pc[c] \in {"plans", "emit"} =>
          \A K : {e \in DOMAIN log' : log'[e] \in K /\ after[c] < e /\ e <= through[c]}
                   \subseteq Window(after[c], through[c], K)
    BY <1>1, <1>2, <2>1
  <2> QED BY <2>2 DEF Same, Ok, PageOk, Window
<1>5. Gapless(c)'
  <2>1. CASE start[c] = Latest
    BY <2>1 DEF Same, Gapless
  <2>2. CASE start[c] # Latest
    <3>1. cursor[c] \in Nat /\ cursor[c] <= last
      BY <1>1, <2>2 DEF Ok, Standing, Positions
    <3> QED BY <1>2, <3>1 DEF Same, Ok, Gapless, Window
  <2> QED BY <2>1, <2>2
<1> QED BY <1>3, <1>4, <1>5 DEF Ok

(* A step of one client is about that client alone. *)
LEMMA OneClient ==
  ASSUME IInv, NEW c \in Clients, UNCHANGED logVars, Typed', Ok(c)',
         \A d \in Clients : d # c => Same(d)
  PROVE  IInv'
<1>1. LogOk' /\ Kept
  BY LogStep DEF IInv
<1>2. \A d \in Clients : Ok(d)'
  BY <1>1, Frame DEF IInv
<1> QED BY <1>1, <1>2 DEF IInv

(* Every step keeps the invariant. *)
LEMMA StepOk == IInv /\ [Next]_vars => IInv'
<1> SUFFICES ASSUME IInv, [Next]_vars
             PROVE  IInv'
  OBVIOUS
<1>0. LogOk /\ Typed /\ (\A c \in Clients : Ok(c)) /\ last \in Nat
  BY DEF IInv, LogOk
<1>1. CASE UNCHANGED vars
  <2>1. UNCHANGED <<pc, ready, after, newest, items, through, cursor, start, got>>
    BY <1>1 DEF logVars, vars, handler, client
  <2>2. LogOk' /\ Kept
    BY <1>0, <1>1, LogStep DEF vars, logVars
  <2>3. Typed'
    BY <1>0, <2>1 DEF Typed
  <2>4. \A c \in Clients : Same(c)
    BY <2>1 DEF Same
  <2> QED BY <1>0, <2>2, <2>3, <2>4, Frame DEF IInv
<1>2. ASSUME NEW w \in Writers, CommitNotify(w) \/ Abort(w) \/ \E k \in Kinds : Write(w, k)
      PROVE  IInv'
  <2>1. UNCHANGED <<pc, ready, after, newest, items, through, cursor, start, got>>
    BY <1>2 DEF CommitNotify, Abort, Write, vars, handler, client
  <2>2. LogOk' /\ Kept
    BY <1>0, <1>2, LogStep DEF CommitNotify, Abort, Write
  <2>3. Typed'
    BY <1>0, <2>1 DEF Typed
  <2>4. \A c \in Clients : Same(c)
    BY <2>1 DEF Same
  <2> QED BY <1>0, <2>2, <2>3, <2>4, Frame DEF IInv
<1>3. CASE HubDown \/ HubUp
  <2>1. UNCHANGED <<pc, ready, after, newest, items, through, cursor, start, got>>
    BY <1>3 DEF HubDown, HubUp, vars, handler, client
  <2>2. LogOk' /\ Kept
    BY <1>0, <1>3, LogStep DEF HubDown, HubUp
  <2>3. Typed'
    BY <1>0, <2>1 DEF Typed
  <2>4. \A c \in Clients : Same(c)
    BY <2>1 DEF Same
  <2> QED BY <1>0, <2>2, <2>3, <2>4, Frame DEF IInv
<1>4. ASSUME NEW c \in Clients, HubOverflow(c)
      PROVE  IInv'
  <2>1. UNCHANGED <<pc, ready, after, newest, items, through, cursor, start, got>>
    BY <1>4 DEF HubOverflow, vars, handler, client
  <2>2. LogOk' /\ Kept
    BY <1>0, <1>4, LogStep DEF HubOverflow
  <2>3. Typed'
    BY <1>0, <2>1 DEF Typed
  <2>4. \A d \in Clients : Same(d)
    BY <2>1 DEF Same
  <2> QED BY <1>0, <2>2, <2>3, <2>4, Frame DEF IInv
<1>5. ASSUME NEW c \in Clients, Listen(c)
      PROVE  IInv'
  <2>0. /\ pc[c] \in Labels /\ ready[c] \in BOOLEAN /\ after[c] \in Nat /\ newest[c] \in Nat
        /\ through[c] \in Nat /\ items[c] \subseteq Nat /\ got[c] \subseteq Nat
        /\ cursor[c] \in Positions /\ start[c] \in Positions /\ Standing(c) /\ PageOk(c)
        /\ Gapless(c)
    BY <1>0, ClientTyped DEF Ok
  <2>1. /\ pc[c] = "off"
        /\ pc' = [pc EXCEPT ![c] = "listen"]
        /\ UNCHANGED <<logVars, ready, after, newest, items, through, cursor, start, got>>
    BY <1>5 DEF Listen, Goto, vars, handler, client
  <2>2. Typed'
    BY <1>0, <2>0, <2>1 DEF Typed, Labels
  <2>3. /\ pc'[c] = "listen" /\ ready'[c] = ready[c] /\ after'[c] = after[c]
        /\ newest'[c] = newest[c] /\ items'[c] = items[c] /\ through'[c] = through[c]
        /\ cursor'[c] = cursor[c] /\ start'[c] = start[c] /\ got'[c] = got[c]
        /\ log' = log /\ last' = last
    BY <1>0, <2>1 DEF Typed, logVars
  <2>4. Ok(c)'
    <3>1. Standing(c)'
      BY <1>0, <2>0, <2>1, <2>3 DEF Standing, Positions
    <3>2. PageOk(c)'
      BY <1>0, <2>0, <2>1, <2>3 DEF PageOk, Window
    <3>3. Gapless(c)'
      BY <1>0, <2>0, <2>1, <2>3 DEF Gapless, Window
    <3> QED BY <3>1, <3>2, <3>3 DEF Ok
  <2>5. \A d \in Clients : d # c => Same(d)
    BY <1>0, <2>1 DEF Typed, Same
  <2> QED BY <2>1, <2>2, <2>4, <2>5, OneClient
<1>6. ASSUME NEW c \in Clients, Heartbeat(c)
      PROVE  IInv'
  <2>0. /\ pc[c] \in Labels /\ ready[c] \in BOOLEAN /\ after[c] \in Nat /\ newest[c] \in Nat
        /\ through[c] \in Nat /\ items[c] \subseteq Nat /\ got[c] \subseteq Nat
        /\ cursor[c] \in Positions /\ start[c] \in Positions /\ Standing(c) /\ PageOk(c)
        /\ Gapless(c)
    BY <1>0, ClientTyped DEF Ok
  <2>1. /\ pc[c] = "wait"
        /\ pc' = [pc EXCEPT ![c] = "newest"]
        /\ UNCHANGED <<logVars, ready, after, newest, items, through, cursor, start, got>>
    BY <1>6 DEF Heartbeat, Goto, vars, handler, client
  <2>2. Typed'
    BY <1>0, <2>0, <2>1 DEF Typed, Labels
  <2>3. /\ pc'[c] = "newest" /\ ready'[c] = ready[c] /\ after'[c] = after[c]
        /\ newest'[c] = newest[c] /\ items'[c] = items[c] /\ through'[c] = through[c]
        /\ cursor'[c] = cursor[c] /\ start'[c] = start[c] /\ got'[c] = got[c]
        /\ log' = log /\ last' = last
    BY <1>0, <2>1 DEF Typed, logVars
  <2>4. Ok(c)'
    <3>1. Standing(c)'
      BY <1>0, <2>0, <2>1, <2>3 DEF Standing, Positions
    <3>2. PageOk(c)'
      BY <1>0, <2>0, <2>1, <2>3 DEF PageOk, Window
    <3>3. Gapless(c)'
      BY <1>0, <2>0, <2>1, <2>3 DEF Gapless, Window
    <3> QED BY <3>1, <3>2, <3>3 DEF Ok
  <2>5. \A d \in Clients : d # c => Same(d)
    BY <1>0, <2>1 DEF Typed, Same
  <2> QED BY <2>1, <2>2, <2>4, <2>5, OneClient
<1>7. ASSUME NEW c \in Clients, Newest(c)
      PROVE  IInv'
  <2>0. /\ pc[c] \in Labels /\ ready[c] \in BOOLEAN /\ after[c] \in Nat /\ newest[c] \in Nat
        /\ through[c] \in Nat /\ items[c] \subseteq Nat /\ got[c] \subseteq Nat
        /\ cursor[c] \in Positions /\ start[c] \in Positions /\ Standing(c) /\ PageOk(c)
        /\ Gapless(c)
    BY <1>0, ClientTyped DEF Ok
  <2>1. /\ pc[c] = "newest"
        /\ pc' = [pc EXCEPT ![c] = "read"]
        /\ newest' = [newest EXCEPT ![c] = last]
        /\ UNCHANGED <<logVars, ready, after, items, through, cursor, start, got>>
    BY <1>7 DEF Newest, Goto, vars, handler, client
  <2>2. Typed'
    BY <1>0, <2>0, <2>1 DEF Typed, Labels
  <2>3. /\ pc'[c] = "read" /\ ready'[c] = ready[c] /\ after'[c] = after[c]
        /\ newest'[c] = last /\ items'[c] = items[c] /\ through'[c] = through[c]
        /\ cursor'[c] = cursor[c] /\ start'[c] = start[c] /\ got'[c] = got[c]
        /\ log' = log /\ last' = last
    BY <1>0, <2>1 DEF Typed, logVars
  <2>4. Ok(c)'
    <3>1. Standing(c)'
      BY <1>0, <2>0, <2>1, <2>3 DEF Standing, Positions
    <3>2. PageOk(c)'
      BY <1>0, <2>0, <2>1, <2>3 DEF PageOk, Window
    <3>3. Gapless(c)'
      BY <1>0, <2>0, <2>1, <2>3 DEF Gapless, Window
    <3> QED BY <3>1, <3>2, <3>3 DEF Ok
  <2>5. \A d \in Clients : d # c => Same(d)
    BY <1>0, <2>1 DEF Typed, Same
  <2> QED BY <2>1, <2>2, <2>4, <2>5, OneClient
<1>8. ASSUME NEW c \in Clients, Disconnect(c)
      PROVE  IInv'
  <2>0. /\ pc[c] \in Labels /\ ready[c] \in BOOLEAN /\ after[c] \in Nat /\ newest[c] \in Nat
        /\ through[c] \in Nat /\ items[c] \subseteq Nat /\ got[c] \subseteq Nat
        /\ cursor[c] \in Positions /\ start[c] \in Positions /\ Standing(c) /\ PageOk(c)
        /\ Gapless(c)
    BY <1>0, ClientTyped DEF Ok
  <2>1. /\ pc' = [pc EXCEPT ![c] = "off"]
        /\ ready' = [ready EXCEPT ![c] = FALSE]
        /\ after' = [after EXCEPT ![c] = 0]
        /\ newest' = [newest EXCEPT ![c] = 0]
        /\ items' = [items EXCEPT ![c] = {}]
        /\ through' = [through EXCEPT ![c] = 0]
        /\ UNCHANGED <<logVars, cursor, start, got>>
    BY <1>8 DEF Disconnect, Goto, vars, handler, client
  <2>2. Typed'
    BY <1>0, <2>0, <2>1 DEF Typed, Labels
  <2>3. /\ pc'[c] = "off" /\ ready'[c] = FALSE /\ after'[c] = 0
        /\ newest'[c] = 0 /\ items'[c] = {} /\ through'[c] = 0
        /\ cursor'[c] = cursor[c] /\ start'[c] = start[c] /\ got'[c] = got[c]
        /\ log' = log /\ last' = last
    BY <1>0, <2>1 DEF Typed, logVars
  <2>4. Ok(c)'
    <3>1. Standing(c)'
      BY <1>0, <2>0, <2>1, <2>3 DEF Standing, Positions
    <3>2. PageOk(c)'
      BY <1>0, <2>0, <2>1, <2>3 DEF PageOk, Window
    <3>3. Gapless(c)'
      BY <1>0, <2>0, <2>1, <2>3 DEF Gapless, Window
    <3> QED BY <3>1, <3>2, <3>3 DEF Ok
  <2>5. \A d \in Clients : d # c => Same(d)
    BY <1>0, <2>1 DEF Typed, Same
  <2> QED BY <2>1, <2>2, <2>4, <2>5, OneClient
<1>9. ASSUME NEW c \in Clients, NEW n, Wake(c, n)
      PROVE  IInv'
  <2>0. /\ pc[c] \in Labels /\ ready[c] \in BOOLEAN /\ after[c] \in Nat /\ newest[c] \in Nat
        /\ through[c] \in Nat /\ items[c] \subseteq Nat /\ got[c] \subseteq Nat
        /\ cursor[c] \in Positions /\ start[c] \in Positions /\ Standing(c) /\ PageOk(c)
        /\ Gapless(c)
    BY <1>0, ClientTyped DEF Ok
  <2>1. /\ pc[c] = "wait"
        /\ pc'[c] \in {"wait", "newest"}
        /\ pc' = [pc EXCEPT ![c] = pc'[c]]
        /\ UNCHANGED <<logVars, ready, after, newest, items, through, cursor, start, got>>
    BY <1>0, <1>9 DEF Wake, Typed, Goto, vars, handler, client
  <2>2. Typed'
    BY <1>0, <2>0, <2>1 DEF Typed, Labels
  <2>3. /\ pc'[c] = pc'[c] /\ ready'[c] = ready[c] /\ after'[c] = after[c]
        /\ newest'[c] = newest[c] /\ items'[c] = items[c] /\ through'[c] = through[c]
        /\ cursor'[c] = cursor[c] /\ start'[c] = start[c] /\ got'[c] = got[c]
        /\ log' = log /\ last' = last
    BY <1>0, <2>1 DEF Typed, logVars
  <2>4. Ok(c)'
    <3>1. Standing(c)'
      BY <1>0, <2>0, <2>1, <2>3 DEF Standing, Positions
    <3>2. PageOk(c)'
      BY <1>0, <2>0, <2>1, <2>3 DEF PageOk, Window
    <3>3. Gapless(c)'
      BY <1>0, <2>0, <2>1, <2>3 DEF Gapless, Window
    <3> QED BY <3>1, <3>2, <3>3 DEF Ok
  <2>5. \A d \in Clients : d # c => Same(d)
    BY <1>0, <2>1 DEF Typed, Same
  <2> QED BY <2>1, <2>2, <2>4, <2>5, OneClient
<1>10. ASSUME NEW c \in Clients, Boundary(c), (IF cursor[c] = Latest THEN last ELSE cursor[c]) <= last
      PROVE  IInv'
  <2>0. /\ pc[c] \in Labels /\ ready[c] \in BOOLEAN /\ after[c] \in Nat /\ newest[c] \in Nat
        /\ through[c] \in Nat /\ items[c] \subseteq Nat /\ got[c] \subseteq Nat
        /\ cursor[c] \in Positions /\ start[c] \in Positions /\ Standing(c) /\ PageOk(c)
        /\ Gapless(c)
    BY <1>0, ClientTyped DEF Ok
  <2>1. /\ pc[c] = "listen"
        /\ pc' = [pc EXCEPT ![c] = "read"]
        /\ newest' = [newest EXCEPT ![c] = last]
        /\ after' = [after EXCEPT ![c] = IF cursor[c] = Latest THEN last ELSE cursor[c]]
        /\ UNCHANGED <<logVars, ready, items, through, cursor, start, got>>
    BY <1>10 DEF Boundary, Goto, vars, handler, client
  <2>2. Typed'
    <3>1. (IF cursor[c] = Latest THEN last ELSE cursor[c]) \in Nat
      BY <1>0, <2>0 DEF Positions
    <3> QED BY <1>0, <2>0, <2>1, <3>1 DEF Typed, Labels
  <2>3. /\ pc'[c] = "read" /\ ready'[c] = ready[c]
        /\ after'[c] = IF cursor[c] = Latest THEN last ELSE cursor[c]
        /\ newest'[c] = last /\ items'[c] = items[c] /\ through'[c] = through[c]
        /\ cursor'[c] = cursor[c] /\ start'[c] = start[c] /\ got'[c] = got[c]
        /\ log' = log /\ last' = last
    BY <1>0, <2>1 DEF Typed, logVars
  <2>4. Ok(c)'
    <3>1. Standing(c)'
      BY <1>0, <1>10, <2>0, <2>1, <2>3 DEF Standing, Positions
    <3>2. PageOk(c)'
      BY <1>0, <2>0, <2>1, <2>3 DEF PageOk, Window
    <3>3. Gapless(c)'
      BY <1>0, <2>0, <2>1, <2>3 DEF Gapless, Window
    <3> QED BY <3>1, <3>2, <3>3 DEF Ok
  <2>5. \A d \in Clients : d # c => Same(d)
    BY <1>0, <2>1 DEF Typed, Same
  <2> QED BY <2>1, <2>2, <2>4, <2>5, OneClient
<1>11. ASSUME NEW c \in Clients, Boundary(c), ~((IF cursor[c] = Latest THEN last ELSE cursor[c]) <= last)
      PROVE  IInv'
  <2>0. /\ pc[c] \in Labels /\ ready[c] \in BOOLEAN /\ after[c] \in Nat /\ newest[c] \in Nat
        /\ through[c] \in Nat /\ items[c] \subseteq Nat /\ got[c] \subseteq Nat
        /\ cursor[c] \in Positions /\ start[c] \in Positions /\ Standing(c) /\ PageOk(c)
        /\ Gapless(c)
    BY <1>0, ClientTyped DEF Ok
  <2>1. /\ pc[c] = "listen"
        /\ pc' = [pc EXCEPT ![c] = "off"]
        /\ newest' = [newest EXCEPT ![c] = 0]
        /\ after' = [after EXCEPT ![c] = 0]
        /\ UNCHANGED <<logVars, ready, items, through, cursor, start, got>>
    BY <1>11 DEF Boundary, Goto, vars, handler, client
  <2>2. Typed'
    BY <1>0, <2>0, <2>1 DEF Typed, Labels
  <2>3. /\ pc'[c] = "off" /\ ready'[c] = ready[c] /\ after'[c] = 0
        /\ newest'[c] = 0 /\ items'[c] = items[c] /\ through'[c] = through[c]
        /\ cursor'[c] = cursor[c] /\ start'[c] = start[c] /\ got'[c] = got[c]
        /\ log' = log /\ last' = last
    BY <1>0, <2>1 DEF Typed, logVars
  <2>4. Ok(c)'
    <3>1. Standing(c)'
      BY <1>0, <2>0, <2>1, <2>3 DEF Standing, Positions
    <3>2. PageOk(c)'
      BY <1>0, <2>0, <2>1, <2>3 DEF PageOk, Window
    <3>3. Gapless(c)'
      BY <1>0, <2>0, <2>1, <2>3 DEF Gapless, Window
    <3> QED BY <3>1, <3>2, <3>3 DEF Ok
  <2>5. \A d \in Clients : d # c => Same(d)
    BY <1>0, <2>1 DEF Typed, Same
  <2> QED BY <2>1, <2>2, <2>4, <2>5, OneClient
<1>12. ASSUME NEW c \in Clients, ReadTopics(c), after[c] = newest[c]
      PROVE  IInv'
  <2>0. /\ pc[c] \in Labels /\ ready[c] \in BOOLEAN /\ after[c] \in Nat /\ newest[c] \in Nat
        /\ through[c] \in Nat /\ items[c] \subseteq Nat /\ got[c] \subseteq Nat
        /\ cursor[c] \in Positions /\ start[c] \in Positions /\ Standing(c) /\ PageOk(c)
        /\ Gapless(c)
    BY <1>0, ClientTyped DEF Ok
  <2>1. /\ pc[c] = "read"
        /\ pc' = [pc EXCEPT ![c] = "emit"]
        /\ items' = [items EXCEPT ![c] = {}]
        /\ through' = [through EXCEPT ![c] = after[c]]
        /\ UNCHANGED <<logVars, ready, after, newest, cursor, start, got>>
    BY <1>12 DEF ReadTopics, Goto, vars, handler, client
  <2>2. Typed'
    BY <1>0, <2>0, <2>1 DEF Typed, Labels
  <2>3. /\ pc'[c] = "emit" /\ ready'[c] = ready[c] /\ after'[c] = after[c]
        /\ newest'[c] = newest[c] /\ items'[c] = {} /\ through'[c] = after[c]
        /\ cursor'[c] = cursor[c] /\ start'[c] = start[c] /\ got'[c] = got[c]
        /\ log' = log /\ last' = last
    BY <1>0, <2>1 DEF Typed, logVars
  <2>4. Ok(c)'
    <3>1. Standing(c)'
      BY <1>0, <2>0, <2>1, <2>3 DEF Standing, Positions
    <3>2. PageOk(c)'
      <4>1. ready[c] => cursor[c] = after[c]
        BY <2>0, <2>1 DEF Standing
      <4>2. Window(after[c], after[c], Readable) = {}
        BY <1>0, <2>0 DEF Window, LogOk
      <4> QED BY <1>12, <2>0, <2>3, <4>1, <4>2 DEF PageOk, Window
    <3>3. Gapless(c)'
      BY <1>0, <2>0, <2>1, <2>3 DEF Gapless, Window
    <3> QED BY <3>1, <3>2, <3>3 DEF Ok
  <2>5. \A d \in Clients : d # c => Same(d)
    BY <1>0, <2>1 DEF Typed, Same
  <2> QED BY <2>1, <2>2, <2>4, <2>5, OneClient
<1>13. ASSUME NEW c \in Clients, ReadTopics(c), after[c] # newest[c]
      PROVE  IInv'
  <2>0. /\ pc[c] \in Labels /\ ready[c] \in BOOLEAN /\ after[c] \in Nat /\ newest[c] \in Nat
        /\ through[c] \in Nat /\ items[c] \subseteq Nat /\ got[c] \subseteq Nat
        /\ cursor[c] \in Positions /\ start[c] \in Positions /\ Standing(c) /\ PageOk(c)
        /\ Gapless(c)
    BY <1>0, ClientTyped DEF Ok
  <2>p. PICK page, end :
          /\ page = {e \in FirstN(Rows(c, {"topic", "denied"}), Batch) : log[e] = "topic"}
          /\ end = PageEnd(Rows(c, {"topic", "denied"}), newest[c])
          /\ page \subseteq Nat /\ (\A x \in page : after[c] < x /\ x <= end)
          /\ end \in Nat /\ after[c] <= end /\ end <= newest[c]
          /\ Window(after[c], end, {"topic"}) \subseteq page
    <3>1. pc[c] = "read"
      BY <1>13 DEF ReadTopics
    <3>2. after[c] <= newest[c]
      BY <2>0, <3>1 DEF Standing
    <3>3. PICK rows, end : rows = FirstN(Rows(c, {"topic", "denied"}), Batch)
                           /\ end = PageEnd(Rows(c, {"topic", "denied"}), newest[c])
      OBVIOUS
    <3>4. /\ rows \subseteq Window(after[c], newest[c], {"topic", "denied"})
          /\ rows \subseteq Nat /\ (\A x \in rows : after[c] < x)
          /\ end \in Nat /\ after[c] <= end /\ end <= newest[c]
          /\ \A x \in Window(after[c], newest[c], {"topic", "denied"}) : x <= end => x \in rows
          /\ \A x \in rows : x <= end
      BY <1>0, <2>0, <3>2, <3>3, ReadPage
    <3>5. ASSUME NEW x \in Window(after[c], end, {"topic"})
          PROVE  x \in rows /\ log[x] = "topic"
      <4>1. x \in DOMAIN log /\ log[x] = "topic" /\ x \in Nat /\ after[c] < x /\ x <= end /\ x <= newest[c]
        BY <1>0, <2>0, <3>4 DEF Window, LogOk
      <4> QED BY <3>4, <4>1 DEF Window
    <3> QED BY <3>3, <3>4, <3>5
  <2>1. /\ pc[c] = "read"
        /\ pc' = [pc EXCEPT ![c] = "plans"]
        /\ items' = [items EXCEPT ![c] = page]
        /\ through' = [through EXCEPT ![c] = end]
        /\ UNCHANGED <<logVars, ready, after, newest, cursor, start, got>>
    BY <1>13, <2>p DEF ReadTopics, Goto, vars, handler, client
  <2>2. Typed'
    BY <1>0, <2>0, <2>1, <2>p DEF Typed, Labels
  <2>3. /\ pc'[c] = "plans" /\ ready'[c] = ready[c] /\ after'[c] = after[c]
        /\ newest'[c] = newest[c] /\ items'[c] = page /\ through'[c] = end
        /\ cursor'[c] = cursor[c] /\ start'[c] = start[c] /\ got'[c] = got[c]
        /\ log' = log /\ last' = last
    BY <1>0, <2>1 DEF Typed, logVars
  <2>4. Ok(c)'
    <3>1. Standing(c)'
      BY <1>0, <2>0, <2>1, <2>3 DEF Standing, Positions
    <3>2. PageOk(c)'
      BY <1>0, <2>0, <2>1, <2>3, <2>p DEF PageOk, Standing, Window
    <3>3. Gapless(c)'
      BY <1>0, <2>0, <2>1, <2>3 DEF Gapless, Window
    <3> QED BY <3>1, <3>2, <3>3 DEF Ok
  <2>5. \A d \in Clients : d # c => Same(d)
    BY <1>0, <2>1 DEF Typed, Same
  <2> QED BY <2>1, <2>2, <2>4, <2>5, OneClient
<1>14. ASSUME NEW c \in Clients, SendReady(c)
      PROVE  IInv'
  <2>0. /\ pc[c] \in Labels /\ ready[c] \in BOOLEAN /\ after[c] \in Nat /\ newest[c] \in Nat
        /\ through[c] \in Nat /\ items[c] \subseteq Nat /\ got[c] \subseteq Nat
        /\ cursor[c] \in Positions /\ start[c] \in Positions /\ Standing(c) /\ PageOk(c)
        /\ Gapless(c)
    BY <1>0, ClientTyped DEF Ok
  <2>p. PICK b \in Nat : b = IF start[c] = Latest THEN after[c] ELSE start[c]
    BY <2>0 DEF Positions
  <2>1. /\ pc[c] = "emit" /\ ~ready[c]
        /\ ready' = [ready EXCEPT ![c] = TRUE]
        /\ cursor' = [cursor EXCEPT ![c] = after[c]]
        /\ start' = [start EXCEPT ![c] = b]
        /\ UNCHANGED <<logVars, pc, after, newest, items, through, got>>
    BY <1>14, <2>p DEF SendReady, Goto, vars, handler, client
  <2>2. Typed'
    BY <1>0, <2>0, <2>1, <2>p DEF Typed, Labels, Positions
  <2>3. /\ pc'[c] = pc[c] /\ ready'[c] = TRUE /\ after'[c] = after[c]
        /\ newest'[c] = newest[c] /\ items'[c] = items[c] /\ through'[c] = through[c]
        /\ cursor'[c] = after[c] /\ start'[c] = b /\ got'[c] = got[c]
        /\ log' = log /\ last' = last
    BY <1>0, <2>1 DEF Typed, logVars
  <2>4. Ok(c)'
    <3>1. Standing(c)'
      BY <1>0, <2>0, <2>1, <2>3, <2>p, LatestIsNoPosition DEF Standing, Positions
    <3>2. PageOk(c)'
      BY <1>0, <2>0, <2>1, <2>3 DEF PageOk, Window
    <3>3. Gapless(c)'
      <4>1. CASE start[c] = Latest
        <5>1. Window(after[c], after[c], Readable) = {}
          BY <1>0, <2>0 DEF Window, LogOk
        <5> QED BY <2>3, <2>p, <4>1, <5>1 DEF Gapless, Window
      <4>2. CASE start[c] # Latest
        <5>1. cursor[c] = after[c]
          BY <2>0, <2>1, <4>2 DEF Standing
        <5>2. Window(start[c], after[c], Readable) \subseteq got[c]
          BY <2>0, <4>2, <5>1 DEF Gapless
        <5> QED BY <2>3, <2>p, <4>2, <5>2 DEF Gapless, Window
      <4> QED BY <4>1, <4>2
    <3> QED BY <3>1, <3>2, <3>3 DEF Ok
  <2>5. \A d \in Clients : d # c => Same(d)
    BY <1>0, <2>1 DEF Typed, Same
  <2> QED BY <2>1, <2>2, <2>4, <2>5, OneClient
<1>15. ASSUME NEW c \in Clients, SendItem(c)
      PROVE  IInv'
  <2>0. /\ pc[c] \in Labels /\ ready[c] \in BOOLEAN /\ after[c] \in Nat /\ newest[c] \in Nat
        /\ through[c] \in Nat /\ items[c] \subseteq Nat /\ got[c] \subseteq Nat
        /\ cursor[c] \in Positions /\ start[c] \in Positions /\ Standing(c) /\ PageOk(c)
        /\ Gapless(c)
    BY <1>0, ClientTyped DEF Ok
  <2>p. PICK m \in items[c] : m = Min(items[c]) /\ m \in Nat /\ \A x \in items[c] : m <= x
    <3>1. items[c] # {}
      BY <1>15 DEF SendItem
    <3> QED BY <2>0, <3>1, Least
  <2>1. /\ pc[c] = "emit" /\ ready[c]
        /\ cursor' = [cursor EXCEPT ![c] = m]
        /\ got' = [got EXCEPT ![c] = got[c] \cup {m}]
        /\ items' = [items EXCEPT ![c] = items[c] \ {m}]
        /\ UNCHANGED <<logVars, pc, ready, after, newest, through, start>>
    BY <1>15, <2>p DEF SendItem, Goto, vars, handler, client
  <2>2. Typed'
    BY <1>0, <2>0, <2>1, <2>p DEF Typed, Labels, Positions
  <2>3. /\ pc'[c] = pc[c] /\ ready'[c] = ready[c] /\ after'[c] = after[c]
        /\ newest'[c] = newest[c] /\ items'[c] = items[c] \ {m} /\ through'[c] = through[c]
        /\ cursor'[c] = m /\ start'[c] = start[c] /\ got'[c] = got[c] \cup {m}
        /\ log' = log /\ last' = last
    BY <1>0, <2>1 DEF Typed, logVars
  <2>4. Ok(c)'
    <3>1. Standing(c)'
      BY <1>0, <2>0, <2>1, <2>3, <2>p, LatestIsNoPosition DEF Standing, PageOk, Positions
    <3>2. PageOk(c)'
      <4>1. \A x \in items'[c] : m < x
        BY <2>0, <2>3, <2>p
      <4>2. after[c] < m /\ m <= through[c] /\ Window(after[c], through[c], Readable) \subseteq items[c] \cup got[c]
        BY <2>0, <2>1, <2>p DEF PageOk
      <4> QED BY <2>0, <2>1, <2>3, <2>p, <4>1, <4>2 DEF PageOk, Window
    <3>3. Gapless(c)'
      <4>1. start[c] # Latest /\ start[c] \in Nat /\ cursor[c] \in Nat
        BY <2>0, <2>1 DEF Standing, Positions
      <4>2. ASSUME NEW e \in Window(start[c], m, Readable)
            PROVE  e \in got[c] \cup {m}
        <5>1. e \in DOMAIN log /\ e \in Nat /\ log[e] \in Readable /\ start[c] < e /\ e <= m
          BY <1>0, <4>2 DEF Window, LogOk
        <5>2. after[c] <= cursor[c] /\ m <= through[c]
          BY <2>0, <2>1, <2>p DEF PageOk
        <5>3. CASE e <= after[c]
          <6>1. e \in Window(start[c], cursor[c], Readable)
            BY <2>0, <4>1, <5>1, <5>2, <5>3 DEF Window
          <6> QED BY <2>0, <4>1, <6>1 DEF Gapless
        <5>4. CASE ~(e <= after[c])
          <6>1. e \in Window(after[c], through[c], Readable)
            BY <2>0, <5>1, <5>2, <5>4, <2>p DEF Window
          <6>2. e \in items[c] \cup got[c]
            BY <2>0, <2>1, <6>1 DEF PageOk
          <6> QED BY <2>p, <5>1, <6>2
        <5> QED BY <5>3, <5>4
      <4> QED BY <2>3, <4>2 DEF Gapless, Window
    <3> QED BY <3>1, <3>2, <3>3 DEF Ok
  <2>5. \A d \in Clients : d # c => Same(d)
    BY <1>0, <2>1 DEF Typed, Same
  <2> QED BY <2>1, <2>2, <2>4, <2>5, OneClient
<1>16. ASSUME NEW c \in Clients, SendCursor(c)
      PROVE  IInv'
  <2>0. /\ pc[c] \in Labels /\ ready[c] \in BOOLEAN /\ after[c] \in Nat /\ newest[c] \in Nat
        /\ through[c] \in Nat /\ items[c] \subseteq Nat /\ got[c] \subseteq Nat
        /\ cursor[c] \in Positions /\ start[c] \in Positions /\ Standing(c) /\ PageOk(c)
        /\ Gapless(c)
    BY <1>0, ClientTyped DEF Ok
  <2>p. PICK x \in {"wait", "newest"} :
          /\ pc' = [pc EXCEPT ![c] = x]
          /\ cursor' = [cursor EXCEPT ![c] = through[c]]
          /\ after' = [after EXCEPT ![c] = through[c]]
    <3>1. pc[c] = "emit" /\ ready[c] /\ after[c] <= through[c] /\ after[c] <= cursor[c] /\ cursor[c] <= through[c]
      BY <1>16, <2>0 DEF SendCursor, PageOk
    <3>2. cursor' = [cursor EXCEPT ![c] = through[c]]
      <4>1. CASE through[c] > after[c]
        BY <1>16, <4>1 DEF SendCursor
      <4>2. CASE ~(through[c] > after[c])
        <5>1. start[c] # Latest /\ cursor[c] \in Nat
          BY <2>0, <3>1 DEF Standing, Positions
        <5>2. through[c] = cursor[c] /\ cursor' = cursor
          BY <1>16, <2>0, <3>1, <4>2, <5>1 DEF SendCursor
        <5> QED BY <1>0, <5>2 DEF Typed
      <4> QED BY <4>1, <4>2
    <3>3. after' = [after EXCEPT ![c] = through[c]]
      <4>1. (IF through[c] > after[c] THEN through[c] ELSE after[c]) = through[c]
        BY <2>0, <3>1
      <4> QED BY <1>16, <4>1 DEF SendCursor
    <3>4. \E x \in {"wait", "newest"} : pc' = [pc EXCEPT ![c] = x]
      BY <1>16 DEF SendCursor, Goto
    <3> QED BY <3>2, <3>3, <3>4
  <2>1. /\ pc[c] = "emit" /\ ready[c] /\ items[c] = {}
        /\ pc' = [pc EXCEPT ![c] = x]
        /\ cursor' = [cursor EXCEPT ![c] = through[c]]
        /\ after' = [after EXCEPT ![c] = through[c]]
        /\ UNCHANGED <<logVars, ready, newest, items, through, start, got>>
    BY <1>16, <2>p DEF SendCursor, Goto, vars, handler, client
  <2>2. Typed'
    BY <1>0, <2>0, <2>1, <2>p DEF Typed, Labels, Positions
  <2>3. /\ pc'[c] = x /\ ready'[c] = ready[c] /\ after'[c] = through[c]
        /\ newest'[c] = newest[c] /\ items'[c] = items[c] /\ through'[c] = through[c]
        /\ cursor'[c] = through[c] /\ start'[c] = start[c] /\ got'[c] = got[c]
        /\ log' = log /\ last' = last
    BY <1>0, <2>1 DEF Typed, logVars
  <2>4. Ok(c)'
    <3>1. Standing(c)'
      <4>1. through[c] # Latest /\ through[c] <= last
        BY <1>0, <2>0, <2>1, LatestIsNoPosition DEF Standing, PageOk
      <4> QED BY <1>0, <2>0, <2>1, <2>3, <2>p, <4>1 DEF Standing
    <3>2. PageOk(c)'
      BY <2>3, <2>p DEF PageOk
    <3>3. Gapless(c)'
      <4>1. start[c] # Latest /\ start[c] \in Nat /\ cursor[c] \in Nat
        BY <2>0, <2>1 DEF Standing, Positions
      <4>2. ASSUME NEW e \in Window(start[c], through[c], Readable)
            PROVE  e \in got[c]
        <5>1. e \in DOMAIN log /\ e \in Nat /\ log[e] \in Readable /\ start[c] < e /\ e <= through[c]
          BY <1>0, <4>2 DEF Window, LogOk
        <5>2. after[c] <= cursor[c]
          BY <2>0, <2>1 DEF PageOk
        <5>3. CASE e <= after[c]
          <6>1. e \in Window(start[c], cursor[c], Readable)
            BY <2>0, <4>1, <5>1, <5>2, <5>3 DEF Window
          <6> QED BY <2>0, <4>1, <6>1 DEF Gapless
        <5>4. CASE ~(e <= after[c])
          <6>1. e \in Window(after[c], through[c], Readable)
            BY <2>0, <5>1, <5>4 DEF Window
          <6> QED BY <2>0, <2>1, <6>1 DEF PageOk
        <5> QED BY <5>3, <5>4
      <4> QED BY <2>3, <4>2 DEF Gapless, Window
    <3> QED BY <3>1, <3>2, <3>3 DEF Ok
  <2>5. \A d \in Clients : d # c => Same(d)
    BY <1>0, <2>1 DEF Typed, Same
  <2> QED BY <2>1, <2>2, <2>4, <2>5, OneClient
<1>17. ASSUME NEW c \in Clients, ReadPlans(c)
      PROVE  IInv'
  <2>0. /\ pc[c] \in Labels /\ ready[c] \in BOOLEAN /\ after[c] \in Nat /\ newest[c] \in Nat
        /\ through[c] \in Nat /\ items[c] \subseteq Nat /\ got[c] \subseteq Nat
        /\ cursor[c] \in Positions /\ start[c] \in Positions /\ Standing(c) /\ PageOk(c)
        /\ Gapless(c)
    BY <1>0, ClientTyped DEF Ok
  <2>p. PICK page, end :
          /\ items' = [items EXCEPT ![c] = page] /\ through' = [through EXCEPT ![c] = end]
          /\ page \subseteq Nat /\ (\A x \in page : after[c] < x /\ x <= end)
          /\ end \in Nat /\ after[c] <= end /\ end <= newest[c]
          /\ Window(after[c], end, Readable) \subseteq page
    <3>1. /\ after[c] <= through[c] /\ through[c] <= newest[c]
          /\ \A e \in items[c] : after[c] < e /\ e <= through[c]
          /\ Window(after[c], through[c], {"topic"}) \subseteq items[c]
      BY <1>17, <2>0 DEF ReadPlans, PageOk
    <3>2. PICK rows, reach : rows = FirstN(Rows(c, {"plan"}), Batch) /\ reach = PageEnd(Rows(c, {"plan"}), through[c])
      OBVIOUS
    <3>3. /\ rows \subseteq Nat /\ (\A x \in rows : after[c] < x)
          /\ reach \in Nat /\ after[c] <= reach
          /\ \A x \in Window(after[c], newest[c], {"plan"}) : x <= reach => x \in rows
      BY <1>0, <2>0, <3>1, <3>2, ReadPage
    <3>4. PICK upto : upto = Lesser(through[c], reach)
      OBVIOUS
    <3>5. upto \in Nat /\ after[c] <= upto /\ upto <= through[c] /\ upto <= reach
      BY <2>0, <3>1, <3>3, <3>4 DEF Lesser
    <3>6. PICK both : both = {e \in items[c] \cup rows : e <= upto}
      OBVIOUS
    <3>7. both \subseteq Nat /\ \A x \in both : after[c] < x /\ x <= upto
      BY <2>0, <3>1, <3>3, <3>6
    <3>8. ASSUME NEW e \in Window(after[c], upto, Readable)
          PROVE  e \in both
      <4>1. e \in DOMAIN log /\ e \in Nat /\ log[e] \in Readable /\ after[c] < e /\ e <= upto
        BY <1>0, <3>8 DEF Window, LogOk
      <4>2. CASE log[e] = "topic"
        <5>1. e \in Window(after[c], through[c], {"topic"})
          BY <2>0, <3>5, <4>1, <4>2 DEF Window
        <5> QED BY <3>1, <3>6, <4>1, <5>1
      <4>3. CASE log[e] = "plan"
        <5>1. e \in Window(after[c], newest[c], {"plan"}) /\ e <= reach
          BY <2>0, <3>1, <3>3, <3>5, <4>1, <4>3 DEF Window
        <5> QED BY <3>3, <3>6, <4>1, <5>1
      <4> QED BY <4>1, <4>2, <4>3 DEF Readable
    <3>9. PICK page, end : page = FirstN(both, Batch) /\ end = PageEnd(both, upto)
      OBVIOUS
    <3>10. /\ page \subseteq both
           /\ (end = upto /\ page = both) \/ (end \in both /\ \A x \in both : x <= end <=> x \in page)
      BY <3>5, <3>7, <3>9, PageWhole
    <3>11. /\ end \in Nat /\ after[c] <= end /\ end <= upto /\ end <= newest[c]
           /\ \A x \in both : x <= end <=> x \in page
      <4>1. end \in Nat /\ after[c] <= end /\ end <= upto
        <5>1. CASE end = upto
          BY <3>5, <5>1
        <5>2. CASE end \in both
          <6>1. end \in Nat /\ after[c] < end /\ end <= upto
            BY <3>7, <5>2
          <6>2. after[c] \in Nat
            BY <2>0
          <6> QED BY <6>1, <6>2
        <5> QED BY <3>10, <5>1, <5>2
      <4>2. end <= newest[c]
        BY <2>0, <3>1, <3>5, <4>1
      <4>3. CASE end = upto /\ page = both
        BY <3>7, <4>1, <4>2, <4>3
      <4>4. CASE end \in both /\ \A x \in both : x <= end <=> x \in page
        BY <4>1, <4>2, <4>4
      <4> QED BY <3>10, <4>3, <4>4
    <3>12. Window(after[c], end, Readable) \subseteq page
      <4>1. ASSUME NEW e \in Window(after[c], end, Readable)
            PROVE  e \in page
        <5>1. e \in Nat /\ e <= end /\ e \in Window(after[c], upto, Readable)
          BY <1>0, <3>5, <3>11 DEF Window, LogOk
        <5> QED BY <3>8, <3>11, <5>1
      <4> QED BY <4>1
    <3>13. items' = [items EXCEPT ![c] = page] /\ through' = [through EXCEPT ![c] = end]
      BY <1>17, <3>2, <3>4, <3>6, <3>9 DEF ReadPlans
    <3> QED BY <3>7, <3>10, <3>11, <3>12, <3>13
  <2>1. /\ pc[c] = "plans"
        /\ pc' = [pc EXCEPT ![c] = "emit"]
        /\ items' = [items EXCEPT ![c] = page]
        /\ through' = [through EXCEPT ![c] = end]
        /\ UNCHANGED <<logVars, ready, after, newest, cursor, start, got>>
    BY <1>17, <2>p DEF ReadPlans, Goto, vars, handler, client
  <2>2. Typed'
    BY <1>0, <2>0, <2>1, <2>p DEF Typed, Labels
  <2>3. /\ pc'[c] = "emit" /\ ready'[c] = ready[c] /\ after'[c] = after[c]
        /\ newest'[c] = newest[c] /\ items'[c] = page /\ through'[c] = end
        /\ cursor'[c] = cursor[c] /\ start'[c] = start[c] /\ got'[c] = got[c]
        /\ log' = log /\ last' = last
    BY <1>0, <2>1 DEF Typed, logVars
  <2>4. Ok(c)'
    <3>1. Standing(c)'
      BY <1>0, <2>0, <2>1, <2>3 DEF Standing, Positions
    <3>2. PageOk(c)'
      <4>1. ready[c] => cursor[c] = after[c]
        BY <2>0, <2>1 DEF Standing
      <4>2. ready[c] => /\ after[c] <= cursor[c] /\ cursor[c] <= end
                        /\ \A e \in page : cursor[c] < e
        BY <2>0, <2>p, <4>1
      <4>3. Window(after[c], end, Readable)' \subseteq page
        BY <2>3, <2>p DEF Window
      <4> QED BY <2>3, <2>p, <4>2, <4>3 DEF PageOk, Window
    <3>3. Gapless(c)'
      BY <1>0, <2>0, <2>1, <2>3 DEF Gapless, Window
    <3> QED BY <3>1, <3>2, <3>3 DEF Ok
  <2>5. \A d \in Clients : d # c => Same(d)
    BY <1>0, <2>1 DEF Typed, Same
  <2> QED BY <2>1, <2>2, <2>4, <2>5, OneClient
<1> QED BY <1>1, <1>2, <1>3, <1>4, <1>5, <1>6, <1>7, <1>8, <1>9, <1>10, <1>11, <1>12,
           <1>13, <1>14, <1>15, <1>16, <1>17 DEF Next, Handle

(* Before any connection nobody has anything to miss. *)
LEMMA InitOk == Init => IInv
<1> SUFFICES ASSUME Init
             PROVE  IInv
  OBVIOUS
<1>1. LogOk
  <2>1. last = 0 /\ log = NoRows /\ DOMAIN pend = Writers /\ \A w \in Writers : pend[w] = NoRows
    BY DEF Init, LogInit
  <2>2. (last + 1)..(last + 0) = {} /\ IsFiniteSet({}) /\ Cardinality({}) = 0 /\ 0 \in Nat
    BY <2>1, FS_EmptySet
  <2>3. \A w \in Writers : \E n \in Nat :
          /\ DOMAIN pend[w] = (last + 1)..(last + n)
          /\ IsFiniteSet(DOMAIN pend[w]) /\ Cardinality(DOMAIN pend[w]) = n
    BY <2>1, <2>2, NoRowsDomain
  <2> QED BY <2>1, <2>3, NoRowsDomain DEF LogOk
<1>2. Typed
  <2>1. 0..MaxEvents \subseteq Nat
    BY MaxEventsNat
  <2> QED BY <2>1 DEF Init, Typed, Labels, Positions
<1>3. \A c \in Clients : Ok(c)
  BY DEF Init, Ok, Standing, PageOk, Gapless
<1> QED BY <1>1, <1>2, <1>3 DEF IInv

(* A frame moves its client's cursor forward, past nothing it repeats. *)
LEMMA OrderStep ==
  IInv /\ [Next]_vars =>
    \A c \in Clients :
      /\ cursor'[c] # cursor[c] /\ cursor[c] # Latest => cursor'[c] > cursor[c]
      /\ \A e \in got'[c] \ got[c] : cursor[c] < e
<1> SUFFICES ASSUME IInv, [Next]_vars, NEW c \in Clients
             PROVE  /\ cursor'[c] # cursor[c] /\ cursor[c] # Latest => cursor'[c] > cursor[c]
                    /\ \A e \in got'[c] \ got[c] : cursor[c] < e
  OBVIOUS
<1>0. Typed /\ \A d \in Clients : Ok(d)
  BY DEF IInv
<1>1. CASE UNCHANGED <<cursor, got>>
  BY <1>1
<1>2. ASSUME NEW d \in Clients, SendReady(d) \/ SendItem(d) \/ SendCursor(d)
      PROVE  /\ cursor'[c] # cursor[c] /\ cursor[c] # Latest => cursor'[c] > cursor[c]
             /\ \A e \in got'[c] \ got[c] : cursor[c] < e
  <2>0. /\ pc[d] \in Labels /\ ready[d] \in BOOLEAN /\ after[d] \in Nat /\ newest[d] \in Nat
        /\ through[d] \in Nat /\ items[d] \subseteq Nat /\ got[d] \subseteq Nat
        /\ cursor[d] \in Positions /\ start[d] \in Positions /\ Standing(d) /\ PageOk(d)
    BY <1>0, ClientTyped DEF Ok
  <2>1. CASE c # d
    <3>1. cursor'[c] = cursor[c] /\ got'[c] = got[c]
      BY <1>0, <1>2, <2>1 DEF SendReady, SendItem, SendCursor, Typed
    <3> QED BY <3>1
  <2>2. CASE c = d /\ SendReady(d)
    <3>1. pc[d] = "emit" /\ ~ready[d] /\ cursor'[d] = after[d] /\ got'[d] = got[d]
      BY <1>0, <2>2 DEF SendReady, Typed
    <3>2. cursor[d] \in {Latest, after[d]}
      BY <2>0, <3>1 DEF Standing
    <3> QED BY <2>2, <3>1, <3>2
  <2>3. CASE c = d /\ SendItem(d)
    <3>1. PICK m \in items[d] : m = Min(items[d]) /\ m \in Nat
      BY <2>0, <2>3, Least DEF SendItem
    <3>2. pc[d] = "emit" /\ ready[d] /\ cursor'[d] = m /\ got'[d] = got[d] \cup {m}
      BY <1>0, <2>3, <3>1 DEF SendItem, Typed
    <3>3. cursor[d] \in Nat /\ cursor[d] < m
      BY <2>0, <3>1, <3>2 DEF Standing, PageOk, Positions
    <3> QED BY <2>3, <3>1, <3>2, <3>3
  <2>4. CASE c = d /\ SendCursor(d)
    <3>1. /\ pc[d] = "emit" /\ ready[d] /\ got'[d] = got[d]
          /\ cursor'[d] = through[d] \/ cursor'[d] = cursor[d]
      BY <1>0, <2>4 DEF SendCursor, Typed
    <3>2. cursor[d] \in Nat /\ cursor[d] <= through[d]
      BY <2>0, <3>1 DEF Standing, PageOk, Positions
    <3> QED BY <2>0, <2>4, <3>1, <3>2
  <2> QED BY <1>2, <2>1, <2>2, <2>3, <2>4
<1> QED
  BY <1>1, <1>2
  DEF Next, Handle, vars, client, CommitNotify, Abort, Write, HubDown, HubUp, HubOverflow, Listen,
      Heartbeat, Disconnect, Wake, Boundary, ReadTopics, ReadPlans, Newest

-----------------------------------------------------------------------------
(* Hints.  A stream that will wait before it looks at the log again has been *)
(* told of everything committed since it last looked.                        *)

(* A transaction that holds the lock has a row. *)
Held == \A w \in Writers : pend[w] = NoRows \/ DOMAIN pend[w] # {}

(* From the read of the newest position to the end of the wait, a hint or a  *)
(* reconnection of the listener is due for whatever was committed since.     *)
Woken(c) ==
  /\ pc[c] = "wait" => after[c] = newest[c]
  /\ pc[c] \in {"read", "plans", "emit", "wait"} /\ newest[c] < last
       => ~up \/ \E n \in mail[c] : n = Resync \/ n > newest[c]

(* Only committed rows that the client may read are in a page. *)
Wanted(c) == \A e \in items[c] : e \in DOMAIN log /\ log[e] \in Readable

HInv == Held /\ DOMAIN mail = Clients /\ \A c \in Clients : Woken(c) /\ Wanted(c)

(* A commit raises the newest position, to one of the transaction's rows,    *)
(* and changes nothing up to the old one.                                    *)
LEMMA CommitRaises ==
  ASSUME LogOk, Held, NEW w \in Writers, Commit(w)
  PROVE  /\ last \in Nat /\ last' \in Nat /\ last' > last /\ last' \in DOMAIN pend[w]
         /\ DOMAIN log \subseteq DOMAIN log' /\ \A e \in DOMAIN log : log'[e] = log[e]
         /\ \A e \in DOMAIN log' \ DOMAIN log : last < e /\ e <= last'
<1>1. PICK n \in Nat : DOMAIN pend[w] = (last + 1)..(last + n)
  BY DEF LogOk
<1>2. /\ last \in Nat /\ DOMAIN pend[w] # {}
      /\ DOMAIN log' = DOMAIN log \cup DOMAIN pend[w]
      /\ \A e \in DOMAIN log : log'[e] = log[e]
      /\ last' = Max({last} \cup DOMAIN pend[w])
  BY DEF Commit, LogOk, Locker, Held
<1>3. n > 0 /\ last + n \in DOMAIN pend[w]
  BY <1>1, <1>2
<1>4. last' = last + n
  <2>1. PICK S : S = {last} \cup (last + 1)..(last + n)
    OBVIOUS
  <2>2. last + n \in S /\ \A x \in S : x \in Int /\ x <= last + n
    BY <1>2, <2>1
  <2>3. Max(S) \in S /\ \A x \in S : Max(S) >= x
    BY <2>2 DEF Max
  <2>4. Max(S) = last + n
    BY <1>2, <2>2, <2>3
  <2> QED BY <1>1, <1>2, <2>1, <2>4
<1>5. \A e \in DOMAIN log' \ DOMAIN log : last < e /\ e <= last + n
  BY <1>1, <1>2
<1>6. last' \in Nat /\ last' > last /\ last' \in DOMAIN pend[w]
  BY <1>2, <1>3, <1>4
<1>7. \A e \in DOMAIN log' \ DOMAIN log : last < e /\ e <= last'
  BY <1>4, <1>5
<1> QED BY <1>2, <1>6, <1>7

(* Transactions keep Held. *)
LEMMA HeldStep ==
  ASSUME LogOk, Held,
         \/ \E w \in Writers : Commit(w) \/ Rollback(w) \/ \E k \in Kinds : Append(w, k)
         \/ UNCHANGED logVars
  PROVE  Held'
<1>0. DOMAIN pend = Writers
  BY DEF LogOk
<1>1. CASE UNCHANGED logVars
  BY <1>1 DEF Held, logVars
<1>2. ASSUME NEW w \in Writers, pend' = [pend EXCEPT ![w] = NoRows]
      PROVE  Held'
  BY <1>0, <1>2 DEF Held
<1>3. ASSUME NEW w \in Writers, NEW k \in Kinds, Append(w, k)
      PROVE  Held'
  <2>1. PICK rows : rows = With(pend[w], last + Cardinality(DOMAIN pend[w]) + 1, k)
    OBVIOUS
  <2>2. pend' = [pend EXCEPT ![w] = rows]
    BY <1>3, <2>1 DEF Append
  <2>3. DOMAIN rows # {}
    BY <2>1 DEF With
  <2> QED BY <1>0, <2>2, <2>3 DEF Held
<1> QED BY <1>1, <1>2, <1>3 DEF Commit, Rollback

(* Rows a page holds stay what they are. *)
LEMMA WantedStep ==
  ASSUME LogOk, Held, NEW c \in Clients, Wanted(c), items'[c] \subseteq items[c],
         \/ \E w \in Writers : Commit(w) \/ Rollback(w) \/ \E k \in Kinds : Append(w, k)
         \/ UNCHANGED logVars
  PROVE  Wanted(c)'
<1>1. DOMAIN log \subseteq DOMAIN log' /\ \A e \in DOMAIN log : log'[e] = log[e]
  <2>1. ASSUME NEW w \in Writers, Commit(w)
        PROVE  DOMAIN log \subseteq DOMAIN log' /\ \A e \in DOMAIN log : log'[e] = log[e]
    BY <2>1, CommitRaises
  <2> QED BY <2>1 DEF Rollback, Append, logVars
<1> QED BY <1>1 DEF Wanted

(* What a page reads is readable. *)
LEMMA WantedRead ==
  ASSUME LogOk, Typed, NEW c \in Clients, Standing(c), Wanted(c), ReadTopics(c) \/ ReadPlans(c)
  PROVE  Wanted(c)'
<1>1. UNCHANGED log
  BY DEF ReadTopics, ReadPlans, logVars
<1>2. CASE ReadTopics(c)
  <2>1. items'[c] \subseteq {e \in DOMAIN log : log[e] \in Readable}
    <3>1. CASE after[c] = newest[c]
      BY <1>2, <3>1 DEF ReadTopics, Typed
    <3>2. CASE after[c] # newest[c]
      <4>1. items'[c] = {e \in FirstN(Rows(c, {"topic", "denied"}), Batch) : log[e] = "topic"}
        BY <1>2, <3>2 DEF ReadTopics, Typed
      <4> QED BY <4>1 DEF FirstN, Rows, Readable
    <3> QED BY <3>1, <3>2
  <2> QED BY <1>1, <2>1 DEF Wanted
<1>3. CASE ReadPlans(c)
  <2>1. PICK page \in SUBSET (items[c] \cup FirstN(Rows(c, {"plan"}), Batch)) :
          items'[c] = FirstN(page, Batch)
    BY <1>3 DEF ReadPlans, Typed
  <2>2. items'[c] \subseteq items[c] \cup Rows(c, {"plan"})
    BY <2>1 DEF FirstN
  <2>3. Rows(c, {"plan"}) \subseteq {e \in DOMAIN log : log[e] \in Readable}
    BY DEF FirstN, Rows, Readable
  <2> QED BY <1>1, <2>2, <2>3 DEF Wanted
<1> QED BY <1>2, <1>3

(* A stream nobody touches stays told while others work: a commit leaves a   *)
(* hint as long as the listener is up.                                       *)
LEMMA WokenKept ==
  ASSUME LogOk, Typed, Held, NEW c \in Clients, Standing(c), Woken(c),
         pc'[c] = pc[c], after'[c] = after[c], newest'[c] = newest[c],
         \/ UNCHANGED <<last, up>> /\ mail[c] \subseteq mail'[c]
         \/ \E w \in Writers :
              /\ Commit(w) /\ up' = up
              /\ up /\ pc[c] # "off" => mail[c] \cup DOMAIN pend[w] \subseteq mail'[c]
  PROVE  Woken(c)'
<1>0. last \in Nat /\ newest[c] \in Nat /\ pc[c] \in Labels
  BY ClientTyped DEF LogOk
<1>1. CASE UNCHANGED <<last, up>> /\ mail[c] \subseteq mail'[c]
  BY <1>1 DEF Woken
<1>2. ASSUME NEW w \in Writers, Commit(w), up' = up,
             up /\ pc[c] # "off" => mail[c] \cup DOMAIN pend[w] \subseteq mail'[c]
      PROVE  Woken(c)'
  <2>1. last' \in Nat /\ last' > last /\ last' \in DOMAIN pend[w]
    BY <1>2, CommitRaises
  <2>2. CASE ~up \/ pc[c] \notin {"read", "plans", "emit", "wait"}
    BY <1>2, <2>2 DEF Woken
  <2>3. CASE up /\ pc[c] \in {"read", "plans", "emit", "wait"}
    <3>1. last' \in mail'[c]
      BY <1>2, <2>1, <2>3
    <3>2. pc[c] \in {"read", "plans", "emit"} => newest[c] <= last
      BY DEF Standing
    <3>3. CASE newest[c] <= last
      <4>1. last' > newest[c]
        BY <1>0, <2>1, <3>3
      <4> QED BY <3>1, <4>1 DEF Woken
    <3>4. CASE ~(newest[c] <= last)
      <4>1. pc[c] = "wait" /\ after[c] = newest[c] /\ after[c] <= last
        BY <2>3, <3>2, <3>4 DEF Woken, Standing
      <4> QED BY <3>4, <4>1
    <3> QED BY <3>3, <3>4
  <2> QED BY <2>2, <2>3
<1> QED BY <1>1, <1>2

(* Streams that do not take the step. *)
Untouched(c) ==
  pc'[c] = pc[c] /\ after'[c] = after[c] /\ newest'[c] = newest[c] /\ mail'[c] = mail[c]
  /\ items'[c] = items[c]

(* A step of one stream is about that stream alone. *)
LEMMA OneStream ==
  ASSUME IInv, HInv, NEW c \in Clients, UNCHANGED <<logVars, up>>, DOMAIN mail' = Clients,
         Woken(c)', Wanted(c)', \A d \in Clients : d # c => Untouched(d)
  PROVE  HInv'
<1>1. ASSUME NEW d \in Clients, d # c PROVE Woken(d)' /\ Wanted(d)'
  <2>1. Untouched(d) /\ Woken(d) /\ Wanted(d)
    BY <1>1 DEF HInv
  <2> QED BY <2>1 DEF Untouched, Woken, Wanted, logVars
<1>2. Held'
  BY HeldStep DEF IInv, HInv
<1> QED BY <1>1, <1>2 DEF HInv

(* Every step keeps it. *)
LEMMA HintStep == IInv /\ HInv /\ [Next]_vars => HInv'
<1> SUFFICES ASSUME IInv, HInv, [Next]_vars PROVE HInv'
  OBVIOUS
<1>0. /\ LogOk /\ Typed /\ Held /\ last \in Nat /\ DOMAIN mail = Clients
      /\ \A c \in Clients : Standing(c) /\ PageOk(c) /\ Woken(c) /\ Wanted(c)
  BY DEF IInv, HInv, LogOk, Ok
<1>1. CASE UNCHANGED vars
  <2>1. \A c \in Clients : Woken(c)' /\ Wanted(c)'
    BY <1>0, <1>1 DEF Woken, Wanted, vars, logVars, handler
  <2> QED BY <1>0, <1>1, <2>1, HeldStep DEF HInv, vars, logVars
<1>2. ASSUME NEW w \in Writers, CommitNotify(w) \/ Abort(w) \/ \E k \in Kinds : Write(w, k)
      PROVE  HInv'
  <2>1. /\ UNCHANGED <<up, pc, after, newest, items>> /\ DOMAIN mail' = Clients
        /\ Commit(w) \/ Rollback(w) \/ \E k \in Kinds : Append(w, k)
    BY <1>0, <1>2 DEF CommitNotify, Abort, Write, handler
  <2>2. ASSUME NEW c \in Clients PROVE Woken(c)' /\ Wanted(c)'
    <3>1. Wanted(c)'
      BY <1>0, <2>1, WantedStep
    <3>2. CASE CommitNotify(w)
      <4>1. Commit(w) /\ (up /\ pc[c] # "off" => mail[c] \cup DOMAIN pend[w] \subseteq mail'[c])
        BY <3>2 DEF CommitNotify
      <4> QED BY <1>0, <2>1, <3>1, <4>1, WokenKept
    <3>3. CASE Abort(w) \/ \E k \in Kinds : Write(w, k)
      <4>1. UNCHANGED <<last, mail>>
        BY <3>3 DEF Abort, Write, Rollback, Append
      <4> QED BY <1>0, <2>1, <3>1, <4>1, WokenKept
    <3> QED BY <1>2, <3>2, <3>3
  <2> QED BY <1>0, <2>1, <2>2, HeldStep DEF HInv
<1>3. CASE HubDown \/ HubUp
  <2>1. UNCHANGED <<logVars, pc, after, newest, items>> /\ PublishResync
    BY <1>3 DEF HubDown, HubUp, handler
  <2>2. ASSUME NEW c \in Clients PROVE Woken(c)' /\ Wanted(c)'
    <3>1. Wanted(c)'
      BY <1>0, <2>1, WantedStep
    <3>2. pc[c] # "off" => Resync \in mail'[c]
      BY <2>1 DEF PublishResync
    <3>3. Woken(c)'
      BY <1>0, <2>1, <3>2 DEF Woken
    <3> QED BY <3>1, <3>3
  <2> QED BY <1>0, <2>1, <2>2, HeldStep DEF HInv, PublishResync
<1>4. ASSUME NEW c \in Clients, HubOverflow(c) PROVE HInv'
  <2>1. UNCHANGED <<logVars, up, pc, after, newest, items>> /\ mail' = [mail EXCEPT ![c] = {Resync}]
    BY <1>4 DEF HubOverflow, handler
  <2>2. Resync \in mail'[c] /\ DOMAIN mail' = Clients
    BY <1>0, <2>1
  <2>3. Woken(c)' /\ Wanted(c)'
    BY <1>0, <2>1, <2>2 DEF Woken, Wanted, logVars
  <2>4. \A d \in Clients : d # c => Untouched(d)
    BY <1>0, <2>1 DEF Untouched
  <2> QED BY <2>1, <2>2, <2>3, <2>4, OneStream
<1>5. ASSUME NEW c \in Clients, Listen(c) \/ Heartbeat(c) PROVE HInv'
  <2>1. /\ UNCHANGED <<logVars, up, after, newest, items>>
        /\ \E x \in {"listen", "newest"} : pc' = [pc EXCEPT ![c] = x]
        /\ mail' = [mail EXCEPT ![c] = {}] \/ mail' = mail
    BY <1>5 DEF Listen, Heartbeat, Goto, handler
  <2>2. pc'[c] \in {"listen", "newest"} /\ DOMAIN mail' = Clients
    BY <1>0, <2>1 DEF Typed
  <2>3. Woken(c)' /\ Wanted(c)'
    BY <1>0, <2>1, <2>2 DEF Woken, Wanted, logVars
  <2>4. \A d \in Clients : d # c => Untouched(d)
    BY <1>0, <2>1 DEF Untouched, Typed
  <2> QED BY <2>1, <2>2, <2>3, <2>4, OneStream
<1>6. ASSUME NEW c \in Clients, Disconnect(c) PROVE HInv'
  <2>1. /\ UNCHANGED <<logVars, up>> /\ pc' = [pc EXCEPT ![c] = "off"]
        /\ mail' = [mail EXCEPT ![c] = {}] /\ after' = [after EXCEPT ![c] = 0]
        /\ newest' = [newest EXCEPT ![c] = 0] /\ items' = [items EXCEPT ![c] = {}]
    BY <1>6 DEF Disconnect, Goto
  <2>2. pc'[c] = "off" /\ items'[c] = {} /\ DOMAIN mail' = Clients
    BY <1>0, <2>1 DEF Typed
  <2>3. Woken(c)' /\ Wanted(c)'
    BY <2>2 DEF Woken, Wanted
  <2>4. \A d \in Clients : d # c => Untouched(d)
    BY <1>0, <2>1 DEF Untouched, Typed
  <2> QED BY <2>1, <2>2, <2>3, <2>4, OneStream
<1>7. ASSUME NEW c \in Clients, NEW n, Wake(c, n) PROVE HInv'
  <2>1. /\ UNCHANGED <<logVars, up, after, newest, items>> /\ mail' = [mail EXCEPT ![c] = @ \ {n}]
        /\ pc[c] = "wait"
        /\ \/ pc' = [pc EXCEPT ![c] = "newest"]
           \/ pc' = [pc EXCEPT ![c] = "wait"] /\ n # Resync /\ ~(n > after[c])
    BY <1>7 DEF Wake, Goto, handler
  <2>2. mail'[c] = mail[c] \ {n} /\ DOMAIN mail' = Clients
    BY <1>0, <2>1
  <2>3. Wanted(c)'
    BY <1>0, <2>1 DEF Wanted, logVars
  <2>4. Woken(c)'
    <3>1. CASE pc' = [pc EXCEPT ![c] = "newest"]
      BY <1>0, <3>1 DEF Woken, Typed
    <3>2. CASE pc' = [pc EXCEPT ![c] = "wait"] /\ n # Resync /\ ~(n > after[c])
      <4>1. pc'[c] = "wait" /\ after[c] = newest[c] /\ after'[c] = after[c]
            /\ newest'[c] = newest[c] /\ last' = last /\ up' = up
        BY <1>0, <2>1, <3>2 DEF Woken, Typed, logVars
      <4>2. \A m \in mail[c] : m = Resync \/ m > newest[c] => m \in mail'[c]
        BY <2>2, <3>2, <4>1
      <4>3. newest[c] < last => ~up \/ \E m \in mail[c] : m = Resync \/ m > newest[c]
        BY <1>0, <2>1 DEF Woken
      <4> QED BY <4>1, <4>2, <4>3 DEF Woken
    <3> QED BY <2>1, <3>1, <3>2
  <2>5. \A d \in Clients : d # c => Untouched(d)
    BY <1>0, <2>1 DEF Untouched, Typed
  <2> QED BY <2>1, <2>2, <2>3, <2>4, <2>5, OneStream
<1>8. ASSUME NEW c \in Clients, Boundary(c) \/ Newest(c) PROVE HInv'
  <2>1. /\ UNCHANGED <<logVars, up, items>>
        /\ \A d \in Clients : d # c => Untouched(d)
        /\ pc'[c] = "off" \/ (pc'[c] = "read" /\ newest'[c] = last)
        /\ DOMAIN mail' = Clients
    BY <1>0, <1>8 DEF Boundary, Newest, Goto, Untouched, Typed
  <2>2. Woken(c)' /\ Wanted(c)'
    BY <1>0, <2>1 DEF Woken, Wanted, logVars
  <2> QED BY <2>1, <2>2, OneStream
<1>9. ASSUME NEW c \in Clients, ReadTopics(c) \/ ReadPlans(c) PROVE HInv'
  <2>1. Wanted(c)'
    BY <1>0, <1>9, WantedRead
  <2>2. /\ UNCHANGED <<logVars, up, mail, after, newest>>
        /\ \A d \in Clients : d # c => Untouched(d)
        /\ pc[c] \in {"read", "plans"} /\ pc'[c] \in {"plans", "emit"}
    BY <1>0, <1>9 DEF ReadTopics, ReadPlans, Goto, Untouched, Typed
  <2>3. Woken(c)'
    BY <1>0, <2>2 DEF Woken, logVars
  <2> QED BY <1>0, <2>1, <2>2, <2>3, OneStream
<1>10. ASSUME NEW c \in Clients, SendReady(c) \/ SendItem(c) PROVE HInv'
  <2>1. /\ UNCHANGED <<logVars, up, pc, mail, after, newest>>
        /\ \A d \in Clients : items'[d] \subseteq items[d] /\ (d # c => items'[d] = items[d])
    BY <1>0, <1>10 DEF SendReady, SendItem, handler, Typed
  <2>2. Woken(c)' /\ Wanted(c)'
    BY <1>0, <2>1 DEF Woken, Wanted, logVars
  <2>3. \A d \in Clients : d # c => Untouched(d)
    BY <2>1 DEF Untouched
  <2> QED BY <1>0, <2>1, <2>2, <2>3, OneStream
<1>11. ASSUME NEW c \in Clients, SendCursor(c) PROVE HInv'
  <2>1. /\ UNCHANGED <<logVars, up, mail, newest, items>> /\ pc[c] = "emit"
        /\ after' = [after EXCEPT ![c] = IF through[c] > @ THEN through[c] ELSE @]
        /\ pc' = [pc EXCEPT ![c] = IF through[c] >= newest[c] THEN "wait" ELSE "newest"]
    BY <1>11 DEF SendCursor, Goto
  <2>2. /\ after[c] \in Nat /\ newest[c] \in Nat /\ through[c] \in Nat
        /\ after[c] <= through[c] /\ through[c] <= newest[c]
    BY <1>0, <2>1, ClientTyped DEF PageOk
  <2>3. pc'[c] = "newest" \/ (pc'[c] = "wait" /\ after'[c] = newest[c])
    BY <1>0, <2>1, <2>2 DEF Typed
  <2>4. Woken(c)' /\ Wanted(c)'
    BY <1>0, <2>1, <2>3 DEF Woken, Wanted, logVars
  <2>5. \A d \in Clients : d # c => Untouched(d)
    BY <1>0, <2>1 DEF Untouched, Typed
  <2> QED BY <1>0, <2>1, <2>4, <2>5, OneStream
<1> QED BY <1>1, <1>2, <1>3, <1>4, <1>5, <1>6, <1>7, <1>8, <1>9, <1>10, <1>11 DEF Next, Handle

(* The initial state satisfies it. *)
LEMMA HintInit == Init => HInv
  BY DEF Init, LogInit, HInv, Held, Woken, Wanted

-----------------------------------------------------------------------------
(* The stream implements the log reader: its mapping gives the reader the    *)
(* counter as the newest position and the client's cursor as its position.   *)

(* Before any connection the reader is at its start. *)
LEMMA ReaderInit == Init => Reader!Init
<1> SUFFICES ASSUME Init PROVE Reader!Init
  OBVIOUS
<1>1. log = <<>> /\ last = 0 /\ got = [c \in Clients |-> {}]
  BY DEF Init, LogInit, NoRows
<1>2. \A c \in Clients : cursor[c] = Latest \/ cursor[c] \in Nat
  BY MaxEventsNat DEF Init
<1> QED BY <1>1, <1>2 DEF Reader!Init

(* An item frame passes its own event and nothing else the client may read   *)
(* and lacks.                                                                *)
LEMMA ItemPasses ==
  ASSUME IInv, HInv, NEW c \in Clients, SendItem(c)
  PROVE  Reader!Advance(c)
<1>0. /\ LogOk /\ Typed /\ last \in Nat /\ Standing(c) /\ PageOk(c) /\ Gapless(c) /\ Wanted(c)
      /\ after[c] \in Nat /\ newest[c] \in Nat /\ through[c] \in Nat /\ items[c] \subseteq Nat
      /\ got[c] \subseteq Nat /\ cursor[c] \in Positions
  BY ClientTyped DEF IInv, HInv, LogOk, Ok
<1>1. PICK m \in items[c] : m = Min(items[c]) /\ m \in Nat /\ \A x \in items[c] : m <= x
  BY <1>0, Least DEF SendItem
<1>2. /\ pc[c] = "emit" /\ ready[c] /\ cursor' = [cursor EXCEPT ![c] = m]
      /\ got' = [got EXCEPT ![c] = @ \cup {m}] /\ UNCHANGED <<log, last>>
  BY <1>1 DEF SendItem, logVars
<1>3. /\ cursor[c] # Latest /\ cursor[c] \in Nat /\ cursor[c] < m /\ m <= through[c]
      /\ after[c] <= cursor[c] /\ through[c] <= newest[c] /\ newest[c] <= last
      /\ Window(after[c], through[c], Readable) \subseteq items[c] \cup got[c]
  BY <1>0, <1>1, <1>2 DEF Standing, PageOk, Positions
<1>4. m \in 0..last
  BY <1>0, <1>1, <1>3
<1>5. got[c] \cup {m} = got[c] \cup Reader!Passed(cursor[c], m)
  <2>1. m \in Reader!Passed(cursor[c], m)
    BY <1>0, <1>1, <1>3 DEF Wanted, Reader!Passed
  <2>2. ASSUME NEW e \in Reader!Passed(cursor[c], m)
        PROVE  e \in got[c] \cup {m}
    <3>1. e \in DOMAIN log /\ e \in Nat /\ log[e] \in Readable /\ cursor[c] < e /\ e <= m
      BY <1>0, <2>2 DEF Reader!Passed, LogOk
    <3>2. e \in Window(after[c], through[c], Readable)
      BY <1>0, <1>1, <1>3, <3>1 DEF Window
    <3> QED BY <1>1, <1>3, <3>1, <3>2
  <2> QED BY <2>1, <2>2
<1> QED BY <1>2, <1>3, <1>4, <1>5 DEF Reader!Advance

(* The frame that ends a page passes nothing the client may read and lacks.  *)
LEMMA CursorPasses ==
  ASSUME IInv, NEW c \in Clients, SendCursor(c)
  PROVE  Reader!Advance(c) \/ UNCHANGED <<log, last, cursor, got>>
<1>0. /\ LogOk /\ Typed /\ last \in Nat /\ Standing(c) /\ PageOk(c)
      /\ after[c] \in Nat /\ newest[c] \in Nat /\ through[c] \in Nat
      /\ got[c] \subseteq Nat /\ cursor[c] \in Positions
  BY ClientTyped DEF IInv, LogOk, Ok
<1>1. /\ pc[c] = "emit" /\ ready[c] /\ items[c] = {} /\ UNCHANGED <<log, last, got>>
      /\ cursor' = cursor \/ cursor' = [cursor EXCEPT ![c] = through[c]]
  BY DEF SendCursor, logVars
<1>2. /\ cursor[c] # Latest /\ cursor[c] \in Nat /\ cursor[c] <= through[c]
      /\ after[c] <= cursor[c] /\ through[c] <= newest[c] /\ newest[c] <= last
      /\ Window(after[c], through[c], Readable) \subseteq got[c]
  BY <1>0, <1>1 DEF Standing, PageOk, Positions
<1>3. CASE cursor' = cursor
  BY <1>1, <1>3
<1>4. CASE cursor' = [cursor EXCEPT ![c] = through[c]] /\ through[c] = cursor[c]
  <2>1. cursor' = cursor
    BY <1>0, <1>4 DEF Typed
  <2> QED BY <1>1, <2>1
<1>5. CASE cursor' = [cursor EXCEPT ![c] = through[c]] /\ through[c] # cursor[c]
  <2>1. cursor[c] < through[c] /\ through[c] \in 0..last
    BY <1>0, <1>2, <1>5
  <2>2. Reader!Passed(cursor[c], through[c]) \subseteq got[c]
    <3>1. ASSUME NEW e \in Reader!Passed(cursor[c], through[c])
          PROVE  e \in got[c]
      <4>1. e \in DOMAIN log /\ e \in Nat /\ log[e] \in Readable /\ cursor[c] < e /\ e <= through[c]
        BY <1>0, <3>1 DEF Reader!Passed, LogOk
      <4>2. e \in Window(after[c], through[c], Readable)
        BY <1>0, <1>2, <4>1 DEF Window
      <4> QED BY <1>2, <4>2
    <3> QED BY <3>1
  <2>3. got' = [got EXCEPT ![c] = @ \cup Reader!Passed(cursor[c], through[c])]
    <3>1. got[c] \cup Reader!Passed(cursor[c], through[c]) = got[c]
      BY <2>2
    <3> QED BY <1>0, <1>1, <3>1 DEF Typed
  <2> QED BY <1>1, <1>2, <1>5, <2>1, <2>3 DEF Reader!Advance
<1> QED BY <1>1, <1>3, <1>4, <1>5

(* The ready frame gives a client without a position one, and leaves a       *)
(* client that resumes where it was.                                         *)
LEMMA ReadyJoins ==
  ASSUME IInv, NEW c \in Clients, SendReady(c)
  PROVE  Reader!Join(c) \/ UNCHANGED <<log, last, cursor, got>>
<1>0. LogOk /\ Typed /\ last \in Nat /\ Standing(c) /\ after[c] \in Nat /\ pc[c] \in Labels
  BY ClientTyped DEF IInv, LogOk, Ok
<1>1. /\ pc[c] = "emit" /\ ~ready[c] /\ UNCHANGED <<log, last, got>>
      /\ cursor' = [cursor EXCEPT ![c] = after[c]]
  BY DEF SendReady, logVars
<1>2. cursor[c] \in {Latest, after[c]} /\ after[c] <= last
  BY <1>0, <1>1 DEF Standing
<1>3. CASE cursor[c] = after[c]
  <2>1. cursor' = cursor
    BY <1>0, <1>1, <1>3 DEF Typed
  <2> QED BY <1>1, <2>1
<1>4. CASE cursor[c] = Latest
  <2>1. after[c] \in 0..last
    BY <1>0, <1>2
  <2> QED BY <1>1, <1>4, <2>1 DEF Reader!Join
<1> QED BY <1>2, <1>3, <1>4

(* Every step of the stream is a step of the reader or none. *)
LEMMA ReaderStep == IInv /\ HInv /\ [Next]_vars => [Reader!Next]_(Reader!vars)
<1> SUFFICES ASSUME IInv, HInv, [Next]_vars
             PROVE  Reader!Next \/ UNCHANGED <<log, last, cursor, got>>
  BY DEF Reader!vars
<1>1. CASE UNCHANGED <<log, last, cursor, got>>
  BY <1>1
<1>2. ASSUME NEW w \in Writers, CommitNotify(w)
      PROVE  Reader!Next
  <2>1. Commit(w) /\ UNCHANGED <<cursor, got>> /\ LogOk /\ Held
    BY <1>2 DEF CommitNotify, client, IInv, HInv
  <2>2. Reader!Grow
    BY <2>1, CommitRaises DEF Reader!Grow
  <2> QED BY <2>2 DEF Reader!Next
<1>3. ASSUME NEW c \in Clients, SendReady(c)
      PROVE  Reader!Next \/ UNCHANGED <<log, last, cursor, got>>
  BY <1>3, ReadyJoins DEF Reader!Next
<1>4. ASSUME NEW c \in Clients, SendItem(c)
      PROVE  Reader!Next
  BY <1>4, ItemPasses DEF Reader!Next
<1>5. ASSUME NEW c \in Clients, SendCursor(c)
      PROVE  Reader!Next \/ UNCHANGED <<log, last, cursor, got>>
  BY <1>5, CursorPasses DEF Reader!Next
<1>6. ASSUME NEW w \in Writers, Abort(w) \/ \E k \in Kinds : Write(w, k)
      PROVE  UNCHANGED <<log, last, cursor, got>>
  BY <1>6 DEF Abort, Write, Rollback, Append, client
<1>7. CASE HubDown \/ HubUp
  BY <1>7 DEF HubDown, HubUp, logVars, client
<1>8. ASSUME NEW c \in Clients, Listen(c) \/ HubOverflow(c) \/ Heartbeat(c) \/ Disconnect(c)
                                \/ \E n \in Ids \cup {Resync} : Wake(c, n)
      PROVE  UNCHANGED <<log, last, cursor, got>>
  BY <1>8 DEF Listen, HubOverflow, Heartbeat, Disconnect, Wake, logVars, client
<1>9. ASSUME NEW c \in Clients, Boundary(c) \/ ReadTopics(c) \/ ReadPlans(c) \/ Newest(c)
      PROVE  UNCHANGED <<log, last, cursor, got>>
  BY <1>9 DEF Boundary, ReadTopics, ReadPlans, Newest, logVars, client
<1>10. CASE UNCHANGED vars
  BY <1>10 DEF vars, logVars, client
<1> QED BY <1>2, <1>3, <1>4, <1>5, <1>6, <1>7, <1>8, <1>9, <1>10 DEF Next, Handle

-----------------------------------------------------------------------------
(* IInv is an invariant: every client's page, cursor and received events     *)
(* fit the log it reads, whatever is committed and whenever it reconnects.   *)
THEOREM StreamInductive == Spec => []IInv
  BY InitOk, StepOk, PTL DEF Spec

(* A client has received every readable event between its first stream and  *)
(* its cursor, over pages, late commits and reconnections.                  *)
THEOREM StreamNoGap == Spec => []NoGap
<1>1. IInv => NoGap
  BY DEF IInv, Ok, Gapless, Window, NoGap
<1> QED BY <1>1, StreamInductive, PTL

(* Frames arrive in id order and once, over all connections of a client. *)
THEOREM StreamInOrderOnce == Spec => InOrderOnce
  BY StreamInductive, OrderStep, PTL DEF Spec, InOrderOnce

(* HInv is an invariant: hints keep up with the log from the read of the     *)
(* newest position to the end of the wait.                                   *)
THEOREM StreamHints == Spec => []HInv
  BY HintInit, HintStep, StreamInductive, PTL DEF Spec

(* While a stream waits and there is something after its position, a hint    *)
(* that ends the wait is in its mailbox or the listener will send a rescan.  *)
THEOREM StreamNoLostWakeup == Spec => []NoLostWakeup
<1>1. HInv => NoLostWakeup
  BY DEF HInv, Woken, NoLostWakeup
<1> QED BY <1>1, StreamHints, PTL

(* The stream implements the log reader: seen from the log and the clients,  *)
(* it only ever appends, and a client takes exactly the readable events its  *)
(* position passes.                                                          *)
THEOREM StreamReadsLikeALog == Spec => ReadsLikeALog
  BY ReaderInit, ReaderStep, StreamInductive, StreamHints, PTL DEF Spec, ReadsLikeALog, Reader!Spec
=============================================================================
